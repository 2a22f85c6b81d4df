---------------------------- MODULE RevocationFile ----------------------------
(***************************************************************************)
(* "mcphe token create" and "mcphe token revoke" (main.go) running as      *)
(* operating-system processes over the revocation file.  Every command     *)
(* reads the file, edits the copy in memory, writes it to path+".tmp" and  *)
(* renames that file over the list (auth/revoker.go).  No lock is taken,   *)
(* so the steps of two commands interleave, and both use the same ".tmp".  *)
(*                                                                         *)
(* A command may stop between any two steps: an I/O error, or a kill.      *)
(***************************************************************************)
EXTENDS RevocationEntries

CONSTANTS Cli,             \* command processes that may run at the same time
          Ttl,             \* durations given when a labelled token is revoked
          BlanketTtl,      \* durations given when a whole user is
          MaxTime,         \* bound on the clock
          FileConfigured   \* whether config.yaml sets token_revocation_file

ASSUME FileAssumption == /\ Ttl \subseteq Int /\ BlanketTtl \subseteq Int
                         /\ MaxTime \in Nat \ {0}
                         /\ FileConfigured \in BOOLEAN

VARIABLES
    clock,      \* unix seconds
    list,       \* the revocation file; a missing file reads as NoEntries
    tmp,        \* the contents of the ".tmp" file
    tmpExists,  \* whether there is a ".tmp" file
    pc,         \* where each command is
    cmd,        \* the command each process runs
    buf,        \* the edited entries each process holds in memory
    fd,         \* the file a process has open for writing
    result,     \* how the process's last command ended
    solo,       \* history: no other command has run since this one started
    barred      \* history: keys permanently revoked and not taken back

fileVars == <<list, tmp, tmpExists>>
cliVars  == <<pc, cmd, buf, fd, result>>
vars     == <<clock, fileVars, cliVars, solo, barred>>

NoCommand == [op |-> "none"]
Command   == {NoCommand} \cup [op : {"create"}, id : Identity]
                         \cup [op : {"revoke"}, id : Identity, expiry : Nat]

Init ==
    /\ clock = 1
    /\ list = NoEntries
    /\ tmp = NoEntries /\ tmpExists = FALSE
    /\ pc = [c \in Cli |-> "idle"]
    /\ cmd = [c \in Cli |-> NoCommand]
    /\ buf = [c \in Cli |-> NoEntries]
    /\ fd = [c \in Cli |-> "none"]
    /\ result = [c \in Cli |-> "none"]
    /\ solo = [c \in Cli |-> FALSE]
    /\ barred = {}

-----------------------------------------------------------------------------
(* The commands.                                                           *)

Idle(c) == pc[c] = "idle"

Start(c, command) ==
    /\ Idle(c)
    /\ pc' = [pc EXCEPT ![c] = "started"]
    /\ cmd' = [cmd EXCEPT ![c] = command]
    /\ result' = [result EXCEPT ![c] = "none"]
    /\ solo' = [d \in Cli |-> d = c /\ \A other \in Cli : Idle(other)]
    /\ UNCHANGED <<clock, fileVars, buf, fd, barred>>

\* Wrong: the process forgets to end its command.
ExitKeepingCommand(c, how) ==
    /\ pc' = [pc EXCEPT ![c] = "idle"]
    /\ buf' = [buf EXCEPT ![c] = NoEntries]
    /\ fd' = [fd EXCEPT ![c] = "none"]
    /\ result' = [result EXCEPT ![c] = how]
    /\ UNCHANGED <<clock, fileVars, cmd, solo, barred>>

\* The process ends: its memory and its open files go with it.
Exit(c, how) ==
    /\ pc' = [pc EXCEPT ![c] = "idle"]
    /\ cmd' = [cmd EXCEPT ![c] = NoCommand]
    /\ buf' = [buf EXCEPT ![c] = NoEntries]
    /\ fd' = [fd EXCEPT ![c] = "none"]
    /\ result' = [result EXCEPT ![c] = how]
    /\ UNCHANGED <<clock, fileVars, solo, barred>>

\* main.go, "create": the token is minted before the list is touched, and
\* the list is touched whether or not a file is configured.
StartCreate(c, id) == Start(c, [op |-> "create", id |-> id])

TtlFor(id) == IF id = Bare(id) THEN BlanketTtl ELSE Ttl

\* main.go, "revoke": refuses without a file; the expiry is computed first.
StartRevoke(c, id) ==
    /\ FileConfigured
    /\ \E x \in {Permanent} \cup Expiring({clock}, TtlFor(id)) :
          Start(c, [op |-> "revoke", id |-> id, expiry |-> x])

\* What a command makes of the entries it has read.
Edited(command, e) ==
    IF command.op = "create" THEN Unrevoked(e, command.id)
                             ELSE Revoked(e, command.id, command.expiry)

\* Wrong: a file that cannot be read passes for an empty one.
ReadOrEmpty(c) ==
    /\ pc[c] = "started"
    /\ \E e \in {list, NoEntries} :
          buf' = [buf EXCEPT ![c] = Edited(cmd[c], Pruned(e, clock))]
    /\ pc' = [pc EXCEPT ![c] = "edited"]
    /\ UNCHANGED <<clock, fileVars, cmd, fd, result, solo, barred>>

\* readEntries, and the edit of Revoke / UnrevokeIdentity.  The open pins the
\* file that a later rename replaces, so the read is one step.
ReadEntries(c) ==
    /\ pc[c] = "started"
    /\ buf' = [buf EXCEPT ![c] = Edited(cmd[c], Pruned(list, clock))]
    /\ pc' = [pc EXCEPT ![c] = "edited"]
    /\ UNCHANGED <<clock, fileVars, cmd, fd, result, solo, barred>>

\* Wrong: the list is rewritten in place.
OpenInPlace(c) ==
    /\ pc[c] = "edited"
    /\ list' = NoEntries
    /\ fd' = [fd EXCEPT ![c] = "list"]
    /\ pc' = [pc EXCEPT ![c] = "truncated"]
    /\ UNCHANGED <<clock, tmp, tmpExists, cmd, buf, result, solo, barred>>

\* Wrong: a ".tmp" that a killed command left behind is not truncated.
OpenWithoutTruncate(c) ==
    /\ pc[c] = "edited"
    /\ tmpExists' = TRUE
    /\ fd' = [fd EXCEPT ![c] = "tmp"]
    /\ pc' = [pc EXCEPT ![c] = "truncated"]
    /\ UNCHANGED <<clock, list, tmp, cmd, buf, result, solo, barred>>

\* os.WriteFile, first half: open with O_CREATE and O_TRUNC.
OpenTmp(c) ==
    /\ pc[c] = "edited"
    /\ tmp' = NoEntries /\ tmpExists' = TRUE
    /\ fd' = [fd EXCEPT ![c] = "tmp"]
    /\ pc' = [pc EXCEPT ![c] = "truncated"]
    /\ UNCHANGED <<clock, list, cmd, buf, result, solo, barred>>

\* Lines of the old contents that the shorter new contents do not reach
\* survive behind them, and a later line for a key wins.
Overwritten(old, new, surviving) ==
    [k \in Identity |-> IF k \in surviving THEN old[k] ELSE new[k]]

Lines(e) == {k \in Identity : e[k] # Absent}

\* os.WriteFile, second half: write from offset 0 and close.  The open file
\* may have become the list, or nobody's, through another command's rename.
WriteTmp(c) ==
    /\ pc[c] = "truncated"
    /\ \/ /\ fd[c] = "tmp"
          /\ \E s \in SUBSET Lines(tmp) : tmp' = Overwritten(tmp, buf[c], s)
          /\ UNCHANGED list
       \/ /\ fd[c] = "list"
          /\ \E s \in SUBSET Lines(list) : list' = Overwritten(list, buf[c], s)
          /\ UNCHANGED tmp
       \/ /\ fd[c] = "unlinked"
          /\ UNCHANGED <<list, tmp>>
    /\ fd' = [fd EXCEPT ![c] = "none"]
    /\ pc' = [pc EXCEPT ![c] = "written"]
    /\ UNCHANGED <<clock, tmpExists, cmd, buf, result, solo, barred>>

\* Where an open file is once ".tmp" has been renamed over the list.
AfterRename(file) ==
    CASE file = "tmp"  -> "list"
      [] file = "list" -> "unlinked"
      [] OTHER         -> file

\* The keys an administrator may count on after this command took effect:
\* a permanent revoke adds its key, a revoke with a ttl replaces the key's
\* line, issuing a token trusts the identity again and, when a blanket line
\* denied the user, the whole user (auth/revoker.go, UnrevokeIdentity).
StillBarred(command) ==
    CASE command.op = "create" ->
            {k \in barred : /\ k # command.id
                            /\ k # Bare(command.id)
                            /\ \/ list[Bare(command.id)] = Absent
                               \/ Bare(k) # Bare(command.id)}
      [] command.op = "revoke" /\ command.expiry = Permanent ->
            barred \cup {command.id}
      [] OTHER -> barred \ {command.id}

\* os.Rename onto the configured path.
RenameTmp(c) ==
    /\ pc[c] = "written"
    /\ FileConfigured /\ tmpExists
    /\ list' = tmp
    /\ tmp' = NoEntries /\ tmpExists' = FALSE
    /\ fd' = [d \in Cli |-> AfterRename(fd[d])]
    /\ pc' = [pc EXCEPT ![c] = "renamed"]
    /\ barred' = StillBarred(cmd[c])
    /\ UNCHANGED <<clock, cmd, buf, result, solo>>

\* The rename fails when another command has renamed ".tmp" away, or when
\* the path is the empty string; the command exits with status 1.
RenameFails(c) ==
    /\ pc[c] = "written"
    /\ ~ (FileConfigured /\ tmpExists)
    /\ Exit(c, "failed")

\* The command prints the token, or "Revoked", and exits.
Finish(c) == pc[c] = "renamed" /\ Exit(c, "ok")

\* The process is killed, or a system call of it fails.
Abort(c) == ~Idle(c) /\ Exit(c, "aborted")

Tick ==
    /\ clock < MaxTime
    /\ clock' = clock + 1
    /\ UNCHANGED <<fileVars, cliVars, solo, barred>>

-----------------------------------------------------------------------------
Next ==
    \/ Tick
    \/ \E c \in Cli :
          \/ \E id \in Identity : StartCreate(c, id) \/ StartRevoke(c, id)
          \/ ReadEntries(c) \/ OpenTmp(c) \/ WriteTmp(c)
          \/ RenameTmp(c) \/ RenameFails(c) \/ Finish(c)
          \/ Abort(c)

Spec == Init /\ [][Next]_vars

-----------------------------------------------------------------------------
(* Properties.                                                             *)

Stage == {"idle", "started", "edited", "truncated", "written", "renamed"}

\* Every variable has its type.
TypeOK ==
    /\ clock \in 1 .. MaxTime
    /\ list \in Entries /\ tmp \in Entries /\ tmpExists \in BOOLEAN
    /\ pc \in [Cli -> Stage]
    /\ cmd \in [Cli -> Command]
    /\ \A c \in Cli : cmd[c] = NoCommand <=> Idle(c)
    /\ buf \in [Cli -> Entries]
    /\ fd \in [Cli -> {"none", "tmp", "list", "unlinked"}]
    /\ result \in [Cli -> {"none", "ok", "failed", "aborted"}]
    /\ solo \in [Cli -> BOOLEAN]
    /\ barred \subseteq Identity

\* A command that no other command overlaps takes effect in one step on the
\* list that is there when it renames, whatever a command killed before it
\* left in ".tmp" (writeEntries: "a crash mid-write can't leave a truncated
\* revocation list on disk").
SoloCommandIsAtomic ==
    [][\A c \in Cli :
          pc[c] = "written" /\ pc'[c] = "renamed" /\ solo[c] =>
             \E t \in 1 .. clock : list' = Edited(cmd[c], Pruned(list, t))]_vars

\* Why: while a command is alone, its ".tmp" holds what it has written, and its
\* memory holds its edit of the list, which nobody else can have changed.
Alone(c) ==
    /\ \A d \in Cli \ {c} : Idle(d)
    /\ fd[c] = IF pc[c] = "truncated" THEN "tmp" ELSE "none"
    /\ pc[c] \in {"edited", "truncated", "written"} =>
          \E t \in 1 .. clock : buf[c] = Edited(cmd[c], Pruned(list, t))
    /\ pc[c] = "truncated" => tmp = NoEntries /\ tmpExists
    /\ pc[c] = "written" => tmp = buf[c] /\ tmpExists

SoloInv ==
    /\ \A c \in Cli : Idle(c) => fd[c] = "none"
    /\ \A c \in Cli : solo[c] /\ ~Idle(c) => Alone(c)

\* No two commands write at the same time: all of them use the same ".tmp".
Writing(c) == pc[c] \in {"truncated", "written"}
OneWrites  == \A c, d \in Cli : Writing(c) /\ Writing(d) => c = d

\* As long as no two commands write at the same time, the list only ever
\* changes to the complete entries of one command: it is never seen truncated,
\* and never holds a mixture of two commands' lines (writeEntries, temp file
\* and rename).
ListIsComplete ==
    [][list' # list =>
          \E c \in Cli : pc[c] = "written" /\ list' = buf[c]]_vars

\* A key that was revoked without a ttl stays denied until a command takes
\* it back: no later command, and no passing of time, re-admits it ("Entries
\* with no expiry (or expiry 0) stay until removed by hand").  It takes that
\* commands do not overlap, and that no user is revoked with a ttl: Revoke
\* would replace the permanent lines of the user's labels.
BarredStaysDenied == \A k \in barred : Denies(list, k, clock)

\* When "token create" prints its token, the list does not deny the token
\* (UnrevokeIdentity: else it would be "revoked on arrival").
MintedTokenIsUsable ==
    \A c \in Cli : pc[c] = "renamed" /\ cmd[c].op = "create" =>
                      ~IsRevoked(list, cmd[c].id)

\* The file is the atomic register that the commands take it for.
Register == INSTANCE RevocationRegister
               WITH register <- list, Ttl <- Ttl \cup BlanketTtl
ImplementsRegister == Register!RSpec

=============================================================================
