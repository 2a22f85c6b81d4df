------------------------ MODULE RevocationFile_proofs -------------------------
(* What the commands promise when they run one after the other, or at least
   do not write at the same time. *)
EXTENDS RevocationFile, RevocationEntries_proofs

\* Start and Exit, the two operators several actions share, keep the types.
LEMMA StartTyped ==
  ASSUME TypeOK, NEW c \in Cli, NEW command \in Command \ {NoCommand},
         Start(c, command)
  PROVE  TypeOK'
  BY DEF Start, TypeOK, Idle, Stage, fileVars

\* So does ending a command, however it ends.
LEMMA ExitTyped ==
  ASSUME TypeOK, NEW c \in Cli, NEW how \in {"ok", "failed", "aborted"},
         Exit(c, how)
  PROVE  TypeOK'
<1>1. NoEntries \in Entries /\ NoCommand \in Command
  BY DEF NoEntries, Entries, Absent, Command
<1>2. QED
  BY <1>1 DEF Exit, TypeOK, Idle, Stage, fileVars

\* A command's edit of a list is a list.
LEMMA EditedIsEntries ==
  ASSUME NEW command \in Command \ {NoCommand}, NEW e \in Entries
  PROVE  Edited(command, e) \in Entries
  BY EntriesClosed DEF Edited, Command, NoCommand

\* Every variable has its type, in every state of every instance.
THEOREM TypeCorrect == Spec => []TypeOK
<1>1. Init => TypeOK
  <2>1. NoEntries \in Entries /\ 1 \in 1 .. MaxTime
    BY FileAssumption DEF NoEntries, Entries, Absent
  <2>2. QED
    BY <2>1 DEF Init, TypeOK, Idle, Stage, Command
<1>2. TypeOK /\ [Next]_vars => TypeOK'
  <2> SUFFICES ASSUME TypeOK, [Next]_vars PROVE TypeOK'
    OBVIOUS
  <2>1. NoEntries \in Entries /\ clock \in Nat
    BY FileAssumption DEF NoEntries, Entries, Absent, TypeOK
  <2>2. CASE UNCHANGED vars
    BY <2>2 DEF vars, fileVars, cliVars, TypeOK, Idle
  <2>3. CASE Tick
    BY <2>3, FileAssumption DEF Tick, fileVars, cliVars, TypeOK, Idle
  <2>4. ASSUME NEW c \in Cli, NEW id \in Identity, StartCreate(c, id)
        PROVE  TypeOK'
    <3>1. [op |-> "create", id |-> id] \in Command \ {NoCommand}
      BY DEF Command, NoCommand
    <3>2. QED
      BY <2>4, <3>1, StartTyped DEF StartCreate
  <2>5. ASSUME NEW c \in Cli, NEW id \in Identity, StartRevoke(c, id)
        PROVE  TypeOK'
    <3>1. PICK x \in {Permanent} \cup Expiring({clock}, TtlFor(id)) :
             Start(c, [op |-> "revoke", id |-> id, expiry |-> x])
      BY <2>5 DEF StartRevoke
    <3>2. x \in Nat
      BY <2>1, FileAssumption DEF Permanent, TtlFor, Expiring
    <3>3. [op |-> "revoke", id |-> id, expiry |-> x] \in Command \ {NoCommand}
      BY <3>2 DEF Command, NoCommand
    <3>4. QED
      BY <3>1, <3>3, StartTyped
  <2>6. ASSUME NEW c \in Cli, ReadEntries(c) PROVE TypeOK'
    <3>1. cmd[c] \in Command \ {NoCommand} /\ Pruned(list, clock) \in Entries
      <4>1. cmd[c] \in Command \ {NoCommand}
        BY <2>6 DEF ReadEntries, TypeOK, Idle
      <4>2. Pruned(list, clock) \in Entries
        BY <2>1 DEF TypeOK, Pruned, Entries, Absent
      <4>3. QED
        BY <4>1, <4>2
    <3>2. Edited(cmd[c], Pruned(list, clock)) \in Entries
      BY <3>1, EditedIsEntries
    <3>3. QED
      BY <2>6, <3>2 DEF ReadEntries, TypeOK, Idle, Stage, fileVars
  <2>7. ASSUME NEW c \in Cli, OpenTmp(c) PROVE TypeOK'
    BY <2>7, <2>1 DEF OpenTmp, TypeOK, Idle, Stage
  <2>8. ASSUME NEW c \in Cli, WriteTmp(c) PROVE TypeOK'
    <3>1. ASSUME NEW old \in Entries, NEW s PROVE Overwritten(old, buf[c], s) \in Entries
      BY <3>1 DEF TypeOK, Overwritten, Entries
    <3>2. tmp' \in Entries /\ list' \in Entries
      BY <2>8, <3>1 DEF WriteTmp, TypeOK
    <3>3. QED
      BY <2>8, <3>2 DEF WriteTmp, TypeOK, Idle, Stage
  <2>9. ASSUME NEW c \in Cli, RenameTmp(c) PROVE TypeOK'
    <3>1. cmd[c] \in Command \ {NoCommand}
      BY <2>9 DEF RenameTmp, TypeOK, Idle
    <3>2. StillBarred(cmd[c]) \subseteq Identity
      BY <3>1 DEF StillBarred, TypeOK, Command, NoCommand
    <3>3. fd' \in [Cli -> {"none", "tmp", "list", "unlinked"}]
      BY <2>9 DEF RenameTmp, AfterRename, TypeOK
    <3>4. QED
      BY <2>9, <3>2, <3>3, <2>1 DEF RenameTmp, TypeOK, Idle, Stage
  <2>10. ASSUME NEW c \in Cli, RenameFails(c) PROVE TypeOK'
    BY <2>10, ExitTyped DEF RenameFails
  <2>11. ASSUME NEW c \in Cli, Finish(c) PROVE TypeOK'
    BY <2>11, ExitTyped DEF Finish
  <2>12. ASSUME NEW c \in Cli, Abort(c) PROVE TypeOK'
    BY <2>12, ExitTyped DEF Abort
  <2>13. QED
    BY <2>2, <2>3, <2>4, <2>5, <2>6, <2>7, <2>8, <2>9, <2>10, <2>11, <2>12
       DEF Next
<1>3. QED
  BY <1>1, <1>2, PTL DEF Spec

-----------------------------------------------------------------------------
\* While a command runs alone it is alone: the invariant behind SoloIsAtomic.
LEMMA SoloInductive == Spec => []SoloInv
<1>1. Init => SoloInv
  BY DEF Init, SoloInv, Idle
<1>2. TypeOK /\ SoloInv /\ [Next]_vars => SoloInv'
  <2> SUFFICES ASSUME TypeOK, SoloInv, [Next]_vars PROVE SoloInv'
    OBVIOUS
  <2>1. CASE UNCHANGED vars
    BY <2>1 DEF vars, fileVars, cliVars, SoloInv, Alone, Idle
  <2>2. CASE Tick
    <3>1. ASSUME NEW c \in Cli, Alone(c) PROVE Alone(c)'
      <4>1. 1 .. clock \subseteq 1 .. clock'
        BY <2>2, FileAssumption DEF Tick, TypeOK
      <4>2. QED
        BY <2>2, <3>1, <4>1 DEF Tick, fileVars, cliVars, Alone, Idle
    <3>2. QED
      BY <2>2, <3>1 DEF Tick, fileVars, cliVars, SoloInv, Idle
  <2>3. ASSUME NEW c \in Cli, NEW command, Start(c, command) PROVE SoloInv'
    <3>1. fd' = fd /\ \A d \in Cli : Idle(d)' => Idle(d)
      BY <2>3 DEF Start, Idle, TypeOK
    <3>2. ASSUME NEW d \in Cli, solo'[d] PROVE Alone(d)'
      <4>1. d = c /\ \A other \in Cli : Idle(other)
        BY <2>3, <3>2 DEF Start
      <4>2. pc'[c] = "started" /\ \A other \in Cli \ {c} : Idle(other)'
        BY <2>3, <4>1 DEF Start, Idle, TypeOK
      <4>3. fd'[c] = "none"
        BY <3>1, <4>1 DEF SoloInv
      <4>4. QED
        BY <4>1, <4>2, <4>3 DEF Alone, Idle
    <3>3. QED
      BY <3>1, <3>2 DEF SoloInv
  <2>4. ASSUME NEW c \in Cli, NEW how, Exit(c, how) PROVE SoloInv'
    <3>1. \A d \in Cli : Idle(d)' => fd'[d] = "none"
      BY <2>4 DEF Exit, Idle, TypeOK, SoloInv
    <3>2. ASSUME NEW d \in Cli, solo'[d], ~Idle(d)' PROVE Alone(d)'
      <4>1. d # c /\ solo[d] /\ ~Idle(d)
        BY <2>4, <3>2 DEF Exit, Idle, TypeOK
      <4>2. Alone(d)
        BY <4>1 DEF SoloInv
      <4>3. QED
        BY <2>4, <4>1, <4>2 DEF Exit, Alone, Idle, TypeOK, fileVars
    <3>3. QED
      BY <3>1, <3>2 DEF SoloInv
  <2>5. ASSUME NEW c \in Cli, ReadEntries(c) \/ OpenTmp(c) \/ WriteTmp(c)
                              \/ RenameTmp(c)
        PROVE  SoloInv'
    <3>1. ~Idle(c) /\ ~Idle(c)' /\ solo' = solo
      BY <2>5 DEF ReadEntries, OpenTmp, WriteTmp, RenameTmp, Idle, TypeOK
    <3>2. \A d \in Cli \ {c} : /\ Idle(d)' <=> Idle(d)
                               /\ fd[d] = "none" => fd'[d] = "none"
      BY <2>5 DEF ReadEntries, OpenTmp, WriteTmp, RenameTmp, AfterRename, Idle,
                  TypeOK
    <3>3. ASSUME NEW d \in Cli, solo'[d], ~Idle(d)' PROVE Alone(d)'
      <4>1. d = c
        <5>1. solo[d] /\ ~Idle(d)
          BY <3>1, <3>2, <3>3
        <5>2. Alone(d)
          BY <5>1 DEF SoloInv
        <5>3. QED
          BY <3>1, <5>2 DEF Alone
      <4>2. Alone(c)
        BY <3>1, <3>3, <4>1 DEF SoloInv
      <4>3. \A e \in Cli \ {c} : Idle(e)'
        BY <3>2, <4>2 DEF Alone
      <4>4. CASE ReadEntries(c)
        <5>1. clock \in 1 .. clock
          BY FileAssumption DEF TypeOK
        <5>2. buf'[c] = Edited(cmd'[c], Pruned(list', clock'))
          BY <4>4 DEF ReadEntries, fileVars, TypeOK
        <5>3. \E t \in 1 .. clock' : buf'[c] = Edited(cmd'[c], Pruned(list', t))
          BY <4>4, <5>1, <5>2 DEF ReadEntries
        <5>4. pc'[c] = "edited" /\ fd'[c] = "none"
          BY <4>2, <4>4 DEF ReadEntries, Alone, TypeOK
        <5>5. QED
          BY <4>1, <4>3, <5>3, <5>4 DEF Alone
      <4>5. CASE OpenTmp(c)
        <5>1. UNCHANGED <<clock, buf, cmd, list>>
          BY <4>5 DEF OpenTmp
        <5>2. /\ pc[c] = "edited" /\ pc'[c] = "truncated" /\ fd'[c] = "tmp"
              /\ tmp' = NoEntries /\ tmpExists'
          BY <4>5 DEF OpenTmp, TypeOK
        <5>3. QED
          BY <4>1, <4>2, <4>3, <5>1, <5>2 DEF Alone
      <4>6. CASE WriteTmp(c)
        <5>1. /\ pc[c] = "truncated" /\ pc'[c] = "written"
              /\ fd[c] = "tmp" /\ fd'[c] = "none"
              /\ tmp = NoEntries /\ tmpExists
          BY <4>2, <4>6 DEF WriteTmp, Alone, TypeOK
        <5>2. UNCHANGED <<clock, buf, cmd, list, tmpExists>>
          BY <4>6, <5>1 DEF WriteTmp
        <5>3. Lines(tmp) = {}
          BY <5>1 DEF Lines, NoEntries
        <5>4. tmp' = Overwritten(tmp, buf[c], {})
          BY <4>6, <5>1, <5>3 DEF WriteTmp
        <5>5. buf[c] \in [Identity -> Nat \cup {Absent}]
          BY DEF TypeOK, Entries
        <5>6. tmp' = buf[c]
          BY <5>4, <5>5 DEF Overwritten
        <5>7. QED
          BY <4>1, <4>2, <4>3, <5>1, <5>2, <5>6 DEF Alone
      <4>7. CASE RenameTmp(c)
        <5>1. pc'[c] = "renamed" /\ fd'[c] = "none"
          BY <4>2, <4>7 DEF RenameTmp, Alone, AfterRename, TypeOK
        <5>2. QED
          BY <4>1, <4>3, <5>1 DEF Alone
      <4>8. QED
        BY <2>5, <4>4, <4>5, <4>6, <4>7
    <3>4. \A d \in Cli : Idle(d)' => fd'[d] = "none"
      BY <3>1, <3>2 DEF SoloInv
    <3>5. QED
      BY <3>3, <3>4 DEF SoloInv
  <2>6. QED
    BY <2>1, <2>2, <2>3, <2>4, <2>5
       DEF Next, StartCreate, StartRevoke, RenameFails, Finish, Abort
<1>3. QED
  BY <1>1, <1>2, TypeCorrect, PTL DEF Spec

\* Only a rename by the command takes it from "written" to "renamed".
LEMMA RenameStep ==
  ASSUME TypeOK, Next, NEW c \in Cli, pc[c] = "written", pc'[c] = "renamed"
  PROVE  RenameTmp(c)
<1>1. ASSUME NEW d \in Cli, d # c \/ ~RenameTmp(c),
             \/ ReadEntries(d) \/ OpenTmp(d) \/ WriteTmp(d) \/ RenameTmp(d)
      PROVE  FALSE
  BY <1>1 DEF ReadEntries, OpenTmp, WriteTmp, RenameTmp, TypeOK
<1>2. ASSUME NEW d \in Cli, NEW x, Start(d, x) PROVE FALSE
  BY <1>2 DEF Start, TypeOK, Idle
<1>3. ASSUME NEW d \in Cli, NEW x, Exit(d, x) PROVE FALSE
  BY <1>3 DEF Exit, TypeOK
<1>4. ~Tick
  BY DEF Tick, cliVars
<1>5. QED
  BY <1>1, <1>2, <1>3, <1>4
     DEF Next, StartCreate, StartRevoke, RenameFails, Finish, Abort

\* A command that overlaps no other takes effect in one step on the current
\* list, whatever commands were killed before it.
THEOREM SoloIsAtomic == Spec => SoloCommandIsAtomic
<1>1. TypeOK /\ SoloInv /\ [Next]_vars =>
        [\A c \in Cli :
            pc[c] = "written" /\ pc'[c] = "renamed" /\ solo[c] =>
              \E t \in 1 .. clock : list' = Edited(cmd[c], Pruned(list, t))]_vars
  <2> SUFFICES ASSUME TypeOK, SoloInv, Next, NEW c \in Cli,
                      pc[c] = "written", pc'[c] = "renamed", solo[c]
               PROVE  \E t \in 1 .. clock :
                         list' = Edited(cmd[c], Pruned(list, t))
    OBVIOUS
  <2>1. RenameTmp(c)
    BY RenameStep
  <2>2. Alone(c)
    BY DEF SoloInv, Idle
  <2>3. QED
    BY <2>1, <2>2 DEF RenameTmp, Alone
<1>2. QED
  BY <1>1, SoloInductive, TypeCorrect, PTL DEF Spec, SoloCommandIsAtomic

-----------------------------------------------------------------------------
(* One command at a time.                                                  *)

\* A command that has begun runs alone, and its expiry is not in the future.
Given(command) ==
  command.op = "revoke" =>
     command.expiry \in
        {Permanent} \cup Expiring(1 .. clock, TtlFor(command.id))

OneInv ==
  /\ \A c \in Cli : Idle(c) \/ solo[c]
  /\ \A c \in Cli : Given(cmd[c])

\* With one command at a time, every command runs alone.
LEMMA OneInductive ==
  ASSUME NEW c0, Cli = {c0}
  PROVE  Spec => []OneInv
<1>1. Init => OneInv
  BY DEF Init, OneInv, Given, Idle, NoCommand
<1>2. TypeOK /\ OneInv /\ [Next]_vars => OneInv'
  <2> SUFFICES ASSUME TypeOK, OneInv, [Next]_vars PROVE OneInv'
    OBVIOUS
  <2>1. CASE UNCHANGED vars
    BY <2>1 DEF vars, fileVars, cliVars, OneInv, Given, Idle
  <2>2. CASE Tick
    <3>1. 1 .. clock \subseteq 1 .. clock'
      BY <2>2, FileAssumption DEF Tick, TypeOK
    <3>2. QED
      BY <2>2, <3>1 DEF Tick, fileVars, cliVars, OneInv, Given, Expiring, Idle
  <2>3. ASSUME NEW c \in Cli, NEW command, Start(c, command),
               command.op = "revoke" =>
                 command.expiry \in
                    {Permanent} \cup Expiring({clock}, TtlFor(command.id))
        PROVE  OneInv'
    <3>1. c = c0 /\ solo'[c0] /\ cmd'[c0] = command /\ clock' = clock
      BY <2>3 DEF Start, TypeOK, Idle
    <3>2. clock \in 1 .. clock
      BY FileAssumption DEF TypeOK
    <3>3. QED
      BY <2>3, <3>1, <3>2 DEF OneInv, Given, Expiring
  <2>4. ASSUME NEW c \in Cli, NEW how, Exit(c, how) PROVE OneInv'
    <3>1. cmd'[c0] = NoCommand /\ pc'[c0] = "idle"
      BY <2>4 DEF Exit, TypeOK
    <3>2. QED
      BY <3>1 DEF OneInv, Given, Idle, NoCommand
  <2>5. ASSUME NEW c \in Cli, ReadEntries(c) \/ OpenTmp(c) \/ WriteTmp(c)
                              \/ RenameTmp(c)
        PROVE  OneInv'
    <3>1. pc[c0] # "idle" /\ UNCHANGED <<clock, cmd, solo>>
      BY <2>5 DEF ReadEntries, OpenTmp, WriteTmp, RenameTmp
    <3>2. QED
      BY <3>1 DEF OneInv, Given, Idle
  <2>6. ASSUME NEW c \in Cli, NEW id \in Identity, StartCreate(c, id)
        PROVE  OneInv'
    BY <2>3, <2>6 DEF StartCreate
  <2>7. ASSUME NEW c \in Cli, NEW id \in Identity, StartRevoke(c, id)
        PROVE  OneInv'
    BY <2>3, <2>7 DEF StartRevoke
  <2>8. QED
    BY <2>1, <2>2, <2>4, <2>5, <2>6, <2>7
       DEF Next, RenameFails, Finish, Abort
<1>3. QED
  BY <1>1, <1>2, TypeCorrect, PTL DEF Spec

\* Alone, a step either leaves the list or is the rename of the command's edit.
LEMMA OneStep ==
  ASSUME NEW c0, Cli = {c0}, TypeOK, SoloInv, OneInv, [Next]_vars
  PROVE  \/ UNCHANGED <<list, barred>> /\ (Tick \/ clock' = clock)
         \/ /\ cmd[c0] \in Command \ {NoCommand}
            /\ barred' = StillBarred(cmd[c0])
            /\ clock' = clock
            /\ \E t \in 1 .. clock : list' = Edited(cmd[c0], Pruned(list, t))
<1>1. ASSUME NEW c \in Cli, WriteTmp(c)
      PROVE  UNCHANGED <<list, barred, clock>>
  <2>1. Alone(c) /\ pc[c] = "truncated"
    BY <1>1 DEF OneInv, SoloInv, WriteTmp, Idle
  <2>2. QED
    BY <1>1, <2>1 DEF Alone, WriteTmp
<1>2. ASSUME NEW c \in Cli, RenameTmp(c)
      PROVE  /\ cmd[c0] \in Command \ {NoCommand}
             /\ barred' = StillBarred(cmd[c0])
             /\ clock' = clock
             /\ \E t \in 1 .. clock : list' = Edited(cmd[c0], Pruned(list, t))
  <2>1. c = c0 /\ Alone(c) /\ pc[c] = "written"
    BY <1>2 DEF OneInv, SoloInv, RenameTmp, Idle
  <2>2. QED
    BY <1>2, <2>1 DEF Alone, RenameTmp, TypeOK, Idle
<1>3. QED
  BY <1>1, <1>2
     DEF Next, Tick, StartCreate, StartRevoke, Start, ReadEntries, OpenTmp,
         RenameFails, Finish, Abort, Exit, vars, fileVars, cliVars

\* The operations of the register are those of the file.
LEMMA RegisterOperations ==
  ASSUME NEW e, NEW k, NEW x
  PROVE  /\ Register!Identity = Identity
         /\ Register!Pruned(e, x) = Pruned(e, x)
         /\ Register!Revoked(e, k, x) = Revoked(e, k, x)
         /\ Register!Unrevoked(e, k) = Unrevoked(e, k)
         /\ Register!Permanent = Permanent
         /\ Register!NoEntries = NoEntries
  BY DEF Identity, Pruned, Revoked, Unrevoked, Permanent, NoEntries, Absent,
         Bare, Register!Identity, Register!Pruned, Register!Revoked,
         Register!Unrevoked, Register!Permanent, Register!NoEntries,
         Register!Absent, Register!Bare

\* Commands that run one after the other, each possibly killed at any step,
\* work on an atomic register: nothing of an earlier command is lost.
THEOREM OneCommandAtATimeIsRegister ==
  ASSUME NEW c0, Cli = {c0}
  PROVE  Spec => ImplementsRegister
<1>1. Init => Register!RInit
  BY RegisterOperations DEF Init, Register!RInit
<1>2. TypeOK /\ SoloInv /\ OneInv /\ [Next]_vars
      => [Register!RNext]_(Register!rvars)
  <2> SUFFICES ASSUME TypeOK, SoloInv, OneInv, [Next]_vars
               PROVE  Register!RNext \/ UNCHANGED <<clock, list>>
    BY DEF Register!rvars
  <2>1. CASE UNCHANGED list /\ Tick
    BY <2>1 DEF Register!RNext, Register!Tick, Tick
  <2>2. ASSUME cmd[c0] \in Command \ {NoCommand}, clock' = clock,
               NEW t \in 1 .. clock,
               list' = Edited(cmd[c0], Pruned(list, t))
        PROVE  Register!RNext
    <3>1. t \in 0 .. clock
      BY FileAssumption DEF TypeOK
    <3>2. CASE cmd[c0].op = "create"
      <4>1. list' = Register!Unrevoked(Register!Pruned(list, t), cmd[c0].id)
        BY <2>2, <3>2, RegisterOperations DEF Edited
      <4>2. cmd[c0].id \in Register!Identity
        BY <2>2, <3>2, RegisterOperations DEF Command, NoCommand
      <4>3. Register!UnrevokeIdentity(cmd[c0].id)
        BY <2>2, <3>1, <4>1 DEF Register!UnrevokeIdentity
      <4>4. QED
        BY <4>2, <4>3 DEF Register!RNext
    <3>3. CASE cmd[c0].op = "revoke"
      <4>1. list' = Register!Revoked(Register!Pruned(list, t), cmd[c0].id,
                                     cmd[c0].expiry)
        BY <2>2, <3>3, RegisterOperations DEF Edited
      <4>2. cmd[c0].id \in Register!Identity
        BY <2>2, <3>3, RegisterOperations DEF Command, NoCommand
      <4>3. cmd[c0].expiry \in Register!Expiries(clock)
        <5>1. TtlFor(cmd[c0].id) \subseteq Ttl \cup BlanketTtl
          BY DEF TtlFor
        <5>2. QED
          BY <3>3, <5>1, RegisterOperations DEF OneInv, Given, Expiring,
             Register!Expiries, Register!Expiring
      <4>4. Register!Revoke(cmd[c0].id)
        BY <2>2, <3>1, <4>1, <4>3 DEF Register!Revoke
      <4>5. QED
        BY <4>2, <4>4 DEF Register!RNext
    <3>4. QED
      BY <2>2, <3>2, <3>3 DEF Command, NoCommand
  <2>3. QED
    BY <2>1, <2>2, OneStep
<1>3. QED
  BY <1>1, <1>2, TypeCorrect, SoloInductive, OneInductive, PTL
     DEF Spec, ImplementsRegister, Register!RSpec

-----------------------------------------------------------------------------
\* When no user is revoked with a ttl, every blanket line is permanent; and a
\* barred key has a permanent line, or its user has.
BarredInv ==
  /\ \A k \in Identity : list[Bare(k)] \in {Absent, Permanent}
  /\ \A k \in barred : list[k] = Permanent \/ list[Bare(k)] = Permanent

\* Pruning keeps BarredInv, as it never drops a permanent line.
LEMMA PrunedKeepsBarred ==
  ASSUME BarredInv, TypeOK, NEW t \in 1 .. clock
  PROVE  /\ \A k \in Identity : list[k] = Permanent => Pruned(list, t)[k] = Permanent
         /\ \A k \in Identity : Pruned(list, t)[Bare(k)] = list[Bare(k)]
<1>1. \A k \in Identity : Bare(k) \in Identity
  BY BareIsIdentity
<1>2. \A k \in Identity : list[k] \in Nat \cup {Absent}
  BY DEF TypeOK, Entries
<1>3. t \in Nat
  BY FileAssumption DEF TypeOK
<1>4. QED
  BY <1>1, <1>2, <1>3 DEF BarredInv, Pruned, Absent, Permanent

\* Commands that run one after the other, and give no ttl when they revoke a
\* whole user, never lose a revocation: it ends only when a token is issued
\* for its key or, after a blanket revoke, for its user.
THEOREM PermanentRevocationsLast ==
  ASSUME NEW c0, Cli = {c0}, BlanketTtl = {}
  PROVE  Spec => []BarredStaysDenied
<1>1. Init => BarredInv
  BY BareIsIdentity DEF Init, BarredInv, NoEntries
<1>2. TypeOK /\ SoloInv /\ OneInv /\ BarredInv /\ [Next]_vars => BarredInv'
  <2> SUFFICES ASSUME TypeOK, SoloInv, OneInv, BarredInv, [Next]_vars
               PROVE  BarredInv'
    OBVIOUS
  <2>1. CASE UNCHANGED <<list, barred>>
    BY <2>1 DEF BarredInv
  <2>2. ASSUME cmd[c0] \in Command \ {NoCommand},
               barred' = StillBarred(cmd[c0]),
               NEW t \in 1 .. clock,
               list' = Edited(cmd[c0], Pruned(list, t))
        PROVE  BarredInv'
    <3> DEFINE p == Pruned(list, t)
    <3>1. /\ \A k \in Identity : list[k] = Permanent => p[k] = Permanent
          /\ \A k \in Identity : p[Bare(k)] = list[Bare(k)]
      BY PrunedKeepsBarred
    <3>2. \A k \in Identity : Bare(k) \in Identity /\ Bare(Bare(k)) = Bare(k)
      BY BareIsIdentity
    <3>3. barred \subseteq Identity
      BY DEF TypeOK
    <3> HIDE DEF p
    <3>4. CASE cmd[c0].op = "create"
      <4> DEFINE id == cmd[c0].id
      <4>1. id \in Identity /\ list' = Unrevoked(p, id)
        BY <2>2, <3>4 DEF Edited, Command, NoCommand, p
      <4>2. barred' = {k \in barred : /\ k # id /\ k # Bare(id)
                                      /\ \/ list[Bare(id)] = Absent
                                         \/ Bare(k) # Bare(id)}
        BY <2>2, <3>4 DEF StillBarred
      <4>3. \A k \in Identity :
               list'[k] = IF k \in {id, Bare(id)} THEN Absent ELSE p[k]
        BY <4>1 DEF Unrevoked
      <4>4. ASSUME NEW k \in barred'
            PROVE  list'[k] = Permanent \/ list'[Bare(k)] = Permanent
        <5>1. k \in barred /\ k \in Identity /\ k \notin {id, Bare(id)}
          BY <3>3, <4>2, <4>4
        <5>2. CASE list[k] = Permanent
          BY <3>1, <4>3, <5>1, <5>2
        <5>3. CASE list[Bare(k)] = Permanent
          <6>1. Bare(k) # Bare(id)
            BY <4>2, <4>4, <5>3 DEF Absent, Permanent
          <6>2. Bare(k) # id
            BY <3>2, <5>1, <6>1
          <6>3. QED
            BY <3>1, <3>2, <4>3, <5>1, <5>3, <6>1, <6>2
        <5>4. QED
          BY <5>1, <5>2, <5>3 DEF BarredInv
      <4>5. ASSUME NEW k \in Identity PROVE list'[Bare(k)] \in {Absent, Permanent}
        BY <3>1, <3>2, <4>3 DEF BarredInv
      <4>6. QED
        BY <4>4, <4>5 DEF BarredInv
    <3>5. CASE cmd[c0].op = "revoke"
      <4> DEFINE key == cmd[c0].id
                 x == cmd[c0].expiry
      <4>1. key = Bare(key) => x = Permanent
        BY <3>5 DEF OneInv, Given, Expiring, TtlFor
      <4>2. key \in Identity /\ list' = Revoked(p, key, x)
        BY <2>2, <3>5 DEF Edited, Command, NoCommand, p
      <4>3. barred' \subseteq barred \cup {key} /\ (key \in barred' => x = Permanent)
        BY <2>2, <3>5 DEF StillBarred
      <4>4. \A k \in Identity :
               list'[k] = IF k = key THEN x
                          ELSE IF key = Bare(k) THEN Absent ELSE p[k]
        BY <4>2 DEF Revoked
      <4> HIDE DEF key, x
      <4>5. ASSUME NEW k \in barred'
            PROVE  list'[k] = Permanent \/ list'[Bare(k)] = Permanent
        <5>1. CASE k = key
          BY <4>2, <4>3, <4>4, <4>5, <5>1
        <5>2. CASE k # key
          <6>1. k \in barred /\ k \in Identity
            BY <3>3, <4>3, <4>5, <5>2
          <6>2. list[k] = Permanent \/ list[Bare(k)] = Permanent
            BY <6>1 DEF BarredInv
          <6>3. CASE key = Bare(k)
            BY <3>2, <4>1, <4>4, <6>1, <6>3
          <6>4. CASE key # Bare(k)
            BY <3>1, <3>2, <4>4, <5>2, <6>1, <6>2, <6>4
          <6>5. QED
            BY <6>3, <6>4
        <5>3. QED
          BY <5>1, <5>2
      <4>6. ASSUME NEW k \in Identity PROVE list'[Bare(k)] \in {Absent, Permanent}
        BY <3>1, <3>2, <4>1, <4>4 DEF BarredInv
      <4>7. QED
        BY <4>5, <4>6 DEF BarredInv
    <3>6. QED
      BY <2>2, <3>4, <3>5 DEF Command, NoCommand
  <2>3. QED
    BY <2>1, <2>2, OneStep
<1>3. TypeOK /\ BarredInv => BarredStaysDenied
  BY DEF TypeOK, BarredInv, BarredStaysDenied, Denies
<1>4. QED
  BY <1>1, <1>2, <1>3, TypeCorrect, SoloInductive, OneInductive, PTL DEF Spec

-----------------------------------------------------------------------------
(* What a command that issues a token leaves behind.                       *)

\* A command alone that has renamed its edit over the list has cleared the
\* identity that it issues a token for.
SoloMinted ==
  \A c \in Cli : solo[c] /\ pc[c] = "renamed" /\ cmd[c].op = "create"
                 => ~IsRevoked(list, cmd[c].id)

\* It stays so until the command has printed its token: what nobody overlaps,
\* nobody undoes.
LEMMA SoloMintedKept ==
  TypeOK /\ SoloInv /\ SoloMinted /\ [Next]_vars => SoloMinted'
<1> SUFFICES ASSUME TypeOK, SoloInv, SoloMinted, [Next]_vars,
                    NEW c \in Cli, solo'[c], pc'[c] = "renamed", cmd'[c].op = "create"
             PROVE  ~IsRevoked(list', cmd'[c].id)
  BY DEF SoloMinted
<1>1. ASSUME UNCHANGED <<list, pc[c], cmd[c], solo[c]>>
      PROVE  ~IsRevoked(list', cmd'[c].id)
  BY <1>1 DEF SoloMinted
<1>2. CASE UNCHANGED vars
  BY <1>1, <1>2 DEF vars, fileVars, cliVars
<1>3. CASE Tick
  BY <1>1, <1>3 DEF Tick, fileVars, cliVars
<1>4. ASSUME NEW d \in Cli, NEW x, Start(d, x) PROVE FALSE
  BY <1>4 DEF Start, TypeOK
<1>5. ASSUME NEW d \in Cli, NEW x, Exit(d, x) PROVE ~IsRevoked(list', cmd'[c].id)
  <2>1. d # c
    BY <1>5 DEF Exit, TypeOK
  <2>2. QED
    BY <1>1, <1>5, <2>1 DEF Exit, TypeOK, fileVars
<1>6. ASSUME NEW d \in Cli, ReadEntries(d) \/ OpenTmp(d)
      PROVE  ~IsRevoked(list', cmd'[c].id)
  <2>1. d # c
    BY <1>6 DEF ReadEntries, OpenTmp, TypeOK
  <2>2. QED
    BY <1>1, <1>6, <2>1 DEF ReadEntries, OpenTmp, TypeOK, fileVars
<1>7. ASSUME NEW d \in Cli, WriteTmp(d) \/ RenameTmp(d), d # c PROVE FALSE
  <2>1. solo[c] /\ pc[c] = "renamed" /\ ~Idle(d)
    BY <1>7 DEF WriteTmp, RenameTmp, TypeOK, Idle
  <2>2. Alone(c)
    BY <2>1 DEF SoloInv, Idle
  <2>3. QED
    BY <1>7, <2>1, <2>2 DEF Alone
<1>8. ~WriteTmp(c)
  BY DEF WriteTmp, TypeOK
<1>9. ASSUME RenameTmp(c) PROVE ~IsRevoked(list', cmd'[c].id)
  <2>1. /\ solo[c] /\ pc[c] = "written" /\ list' = tmp /\ cmd' = cmd
    BY <1>9 DEF RenameTmp
  <2>2. PICK t \in 1 .. clock : tmp = Edited(cmd[c], Pruned(list, t))
    BY <2>1 DEF SoloInv, Alone, Idle
  <2>3. cmd[c].id \in Identity
    <3>1. cmd[c] \in Command /\ cmd[c].op = "create"
      BY <2>1 DEF TypeOK
    <3>2. QED
      BY <3>1 DEF Command, NoCommand
  <2>4. Pruned(list, t) \in Entries
    BY DEF TypeOK, Pruned, Entries, Absent
  <2>5. list' = Unrevoked(Pruned(list, t), cmd[c].id)
    BY <2>1, <2>2 DEF Edited
  <2>6. QED
    BY <2>1, <2>3, <2>4, <2>5, UnrevokedClears
<1>10. QED
  BY <1>2, <1>3, <1>4, <1>5, <1>6, <1>7, <1>8, <1>9
     DEF Next, StartCreate, StartRevoke, RenameFails, Finish, Abort

\* Among any number of commands, the token of one that overlaps no other is
\* usable when it is printed, whatever killed commands left behind.
THEOREM SoloTokenWorks == Spec => []SoloMinted
<1>1. Init => SoloMinted
  BY DEF Init, SoloMinted
<1>2. QED
  BY <1>1, SoloMintedKept, TypeCorrect, SoloInductive, PTL DEF Spec

\* With one command at a time, every token is usable when it is printed.
THEOREM MintedTokenWorks ==
  ASSUME NEW c0, Cli = {c0}
  PROVE  Spec => []MintedTokenIsUsable
<1>1. SoloMinted /\ OneInv => MintedTokenIsUsable
  BY DEF SoloMinted, OneInv, MintedTokenIsUsable, Idle
<1>2. QED
  BY <1>1, SoloTokenWorks, OneInductive, PTL

-----------------------------------------------------------------------------
(* What commands may overlap in.                                           *)

\* A command that writes has ".tmp" for itself.
OwnTmp(c) ==
  /\ fd[c] = IF pc[c] = "truncated" THEN "tmp" ELSE "none"
  /\ pc[c] = "truncated" => tmp = NoEntries /\ tmpExists
  /\ pc[c] = "written" => tmp = buf[c] /\ tmpExists

AllOwnTmp == \A c \in Cli : OwnTmp(c)

\* As long as no two commands write at the same time, it stays so, however
\* their other steps interleave.
LEMMA OwnTmpKept ==
  TypeOK /\ AllOwnTmp /\ OneWrites /\ OneWrites' /\ [Next]_vars => AllOwnTmp'
<1> SUFFICES ASSUME TypeOK, AllOwnTmp, OneWrites, OneWrites', [Next]_vars,
                    NEW c \in Cli
             PROVE  OwnTmp(c)'
  BY DEF AllOwnTmp
<1>1. OwnTmp(c)
  BY DEF AllOwnTmp
<1>2. CASE UNCHANGED vars
  BY <1>1, <1>2 DEF vars, fileVars, cliVars, OwnTmp
<1>3. CASE Tick
  BY <1>1, <1>3 DEF Tick, fileVars, cliVars, OwnTmp
<1>4. ASSUME NEW d \in Cli, NEW x, Start(d, x) PROVE OwnTmp(c)'
  BY <1>1, <1>4 DEF Start, OwnTmp, TypeOK, fileVars, Idle
<1>5. ASSUME NEW d \in Cli, NEW x, Exit(d, x) PROVE OwnTmp(c)'
  BY <1>1, <1>5 DEF Exit, OwnTmp, TypeOK, fileVars
<1>6. ASSUME NEW d \in Cli, ReadEntries(d) PROVE OwnTmp(c)'
  BY <1>1, <1>6 DEF ReadEntries, OwnTmp, TypeOK, fileVars
<1>7. ASSUME NEW d \in Cli, OpenTmp(d) PROVE OwnTmp(c)'
  <2>1. CASE d = c
    BY <1>7, <2>1 DEF OpenTmp, OwnTmp, TypeOK
  <2>2. CASE d # c
    <3>1. pc'[d] = "truncated" /\ pc'[c] = pc[c] /\ fd'[c] = fd[c]
      BY <1>7, <2>2 DEF OpenTmp, TypeOK
    <3>2. ~Writing(c)'
      BY <2>2, <3>1 DEF OneWrites, Writing
    <3>3. QED
      BY <1>1, <3>1, <3>2 DEF OwnTmp, Writing
  <2>3. QED
    BY <2>1, <2>2
<1>8. ASSUME NEW d \in Cli, d # c, WriteTmp(d) \/ RenameTmp(d) PROVE OwnTmp(c)'
  <2>1. ~Writing(c)
    BY <1>8 DEF OneWrites, Writing, WriteTmp, RenameTmp
  <2>2. fd[c] = "none" /\ pc'[c] = pc[c]
    BY <1>1, <1>8, <2>1 DEF OwnTmp, Writing, WriteTmp, RenameTmp, TypeOK
  <2>3. fd'[c] = "none"
    BY <1>8, <2>2 DEF WriteTmp, RenameTmp, AfterRename, TypeOK
  <2>4. QED
    BY <2>1, <2>2, <2>3 DEF OwnTmp, Writing
<1>9. ASSUME WriteTmp(c) PROVE OwnTmp(c)'
  <2>1. /\ pc'[c] = "written" /\ fd[c] = "tmp" /\ fd'[c] = "none"
        /\ tmp = NoEntries /\ tmpExists
    BY <1>1, <1>9 DEF WriteTmp, OwnTmp, TypeOK
  <2>2. Lines(tmp) = {}
    BY <2>1 DEF Lines, NoEntries
  <2>3. tmp' = Overwritten(tmp, buf[c], {})
    BY <1>9, <2>1, <2>2 DEF WriteTmp
  <2>4. tmp' = buf[c]
    BY <2>3 DEF Overwritten, TypeOK, Entries
  <2>5. QED
    BY <1>9, <2>1, <2>4 DEF WriteTmp, OwnTmp
<1>10. ASSUME RenameTmp(c) PROVE OwnTmp(c)'
  <2>1. pc[c] = "written" /\ fd[c] = "none"
    BY <1>1, <1>10 DEF RenameTmp, OwnTmp
  <2>2. pc'[c] = "renamed" /\ fd'[c] = "none"
    BY <1>10, <2>1 DEF RenameTmp, AfterRename, TypeOK
  <2>3. QED
    BY <2>2 DEF OwnTmp
<1>11. QED
  BY <1>2, <1>3, <1>4, <1>5, <1>6, <1>7, <1>8, <1>9, <1>10
     DEF Next, StartCreate, StartRevoke, RenameFails, Finish, Abort

\* As long as no two commands write at the same time, the list is replaced by
\* the whole entries of one command, or not at all: overlapping reads may lose
\* an edit, but never damage the list.
THEOREM ListIsReplacedWhole == Spec /\ []OneWrites => ListIsComplete
<1> DEFINE Whole == list' # list => \E c \in Cli : pc[c] = "written" /\ list' = buf[c]
<1>1. Init => AllOwnTmp
  BY DEF Init, AllOwnTmp, OwnTmp
<1>2. TypeOK /\ AllOwnTmp /\ [Next]_vars => [Whole]_vars
  <2> SUFFICES ASSUME TypeOK, AllOwnTmp, [Next]_vars, list' # list
               PROVE  \E c \in Cli : pc[c] = "written" /\ list' = buf[c]
    OBVIOUS
  <2>1. PICK c \in Cli : WriteTmp(c) \/ RenameTmp(c)
    BY DEF Next, Tick, StartCreate, StartRevoke, Start, ReadEntries, OpenTmp,
           RenameFails, Finish, Abort, Exit, vars, fileVars
  <2>2. ~WriteTmp(c)
    BY DEF WriteTmp, AllOwnTmp, OwnTmp
  <2>3. QED
    BY <2>1, <2>2 DEF RenameTmp, AllOwnTmp, OwnTmp
<1>3. TypeOK /\ AllOwnTmp /\ OneWrites /\ OneWrites' /\ [Next]_vars => AllOwnTmp'
  BY OwnTmpKept
<1>4. QED
  BY <1>1, <1>2, <1>3, TypeCorrect, PTL DEF Spec, ListIsComplete

=============================================================================
