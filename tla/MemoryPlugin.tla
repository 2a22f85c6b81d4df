----------------------------- MODULE MemoryPlugin -----------------------------
(***************************************************************************)
(* The memory tool (plugin-devel/plugins/memory/plugin.ts) over one        *)
(* session's file.  Every call loads the file, "set" and "delete" write    *)
(* the whole of it to ".tmp" and rename that over the file.  Several       *)
(* server processes may use one data_dir: every stdio client starts its    *)
(* own.  A process may be killed at any step.                              *)
(***************************************************************************)
EXTENDS Integers

CONSTANTS Proc,     \* server processes that share the data directory
          Key, Value,
          NoValue,  \* a key that is not in the map
          Faults    \* the host functions that may fail now and then

ASSUME MemoryAssumption == /\ NoValue \notin Value
                           /\ Faults \subseteq {"mkdir", "read", "write", "rename",
                                        "delete"}

VARIABLES
    file,       \* the session's file
    tmp,        \* its ".tmp" file
    tmpExists,  \* whether there is one
    pc,         \* where each process is in its call
    op,         \* the call it executes
    ns,         \* the map it has loaded and changed
    fd          \* the file it has open for writing

fileVars == <<file, tmp, tmpExists>>
vars == <<fileVars, pc, op, ns, fd>>

Map   == [Key -> Value \cup {NoValue}]
Empty == [k \in Key |-> NoValue]

\* A file holds the JSON text of a map; or nothing yet; or text with the tail
\* of longer text behind it.  All but the first load as an empty map.
Contents == [text : {"json"}, map : Map]
            \cup [text : {"empty", "mixed"}, map : {Empty}]
Json(m) == [text |-> "json", map |-> m]
Nothing == [text |-> "empty", map |-> Empty]
Mixed   == [text |-> "mixed", map |-> Empty]

\* "refused" is an unknown action, or one that lacks its key or its value: it
\* is answered with an error after the file was loaded.
NoOp      == [action |-> "none"]
Operation == [action : {"get", "delete"}, key : Key]
             \cup [action : {"set"}, key : Key, value : Value]
             \cup [action : {"list", "refused"}]

Init ==
    /\ file = Json(Empty)
    /\ tmp = Nothing /\ tmpExists = FALSE
    /\ pc = [p \in Proc |-> "idle"]
    /\ op = [p \in Proc |-> NoOp]
    /\ ns = [p \in Proc |-> Empty]
    /\ fd = [p \in Proc |-> "none"]

Goto(p, stage) == pc' = [pc EXCEPT ![p] = stage]

-----------------------------------------------------------------------------
Begin(p) ==
    /\ pc[p] = "idle" /\ Goto(p, "called")
    /\ \E o \in Operation : op' = [op EXCEPT ![p] = o]
    /\ UNCHANGED <<fileVars, ns, fd>>

\* Wrong: the process forgets to end its call.
EndKeepingCall(p) ==
    /\ Goto(p, "idle")
    /\ UNCHANGED <<fileVars, op, ns, fd>>

\* The call is over, or its process is.
End(p) ==
    /\ Goto(p, "idle")
    /\ op' = [op EXCEPT ![p] = NoOp]
    /\ ns' = [ns EXCEPT ![p] = Empty]
    /\ fd' = [fd EXCEPT ![p] = "none"]
    /\ UNCHANGED fileVars

\* createDataDir throws, and nothing catches it.
MakeDirFails(p) == pc[p] = "called" /\ "mkdir" \in Faults /\ End(p)

\* loadAll: whatever goes wrong, the map is empty then.
Loads == {file.map} \cup (IF "read" \in Faults THEN {Empty} ELSE {})

\* What the call makes of the map, and whether it then saves it.
Changed(o, m) == CASE o.action = "set"    -> [m EXCEPT ![o.key] = o.value]
                   [] o.action = "delete" -> [m EXCEPT ![o.key] = NoValue]
                   [] OTHER               -> m

Saves(o, m) == \/ o.action = "set"
               \/ o.action = "delete" /\ m[o.key] # NoValue

\* Wrong: the change is made and not saved.
LoadAndForget(p) ==
    /\ pc[p] = "called"
    /\ ns' = [ns EXCEPT ![p] = Changed(op[p], file.map)]
    /\ Goto(p, "answer")
    /\ UNCHANGED <<fileVars, op, fd>>

Load(p) ==
    /\ pc[p] = "called"
    /\ \E m \in Loads :
          /\ ns' = [ns EXCEPT ![p] = Changed(op[p], m)]
          /\ Goto(p, IF Saves(op[p], m) THEN "loaded" ELSE "answer")
    /\ UNCHANGED <<fileVars, op, fd>>

\* Wrong: the file itself is opened.
OpenFile(p) ==
    /\ pc[p] = "loaded" /\ Goto(p, "opened")
    /\ file' = Nothing
    /\ fd' = [fd EXCEPT ![p] = "file"]
    /\ UNCHANGED <<tmp, tmpExists, op, ns>>

\* host.fs.writeFile: open ".tmp" and truncate it ...
OpenTmp(p) ==
    /\ pc[p] = "loaded" /\ Goto(p, "opened")
    /\ tmp' = Nothing /\ tmpExists' = TRUE
    /\ fd' = [fd EXCEPT ![p] = "tmp"]
    /\ UNCHANGED <<file, op, ns>>

\* ... and write.  Over other text the new text may leave a tail.
Written(old, m) == {Json(m)} \cup (IF old = Nothing THEN {} ELSE {Mixed})

WriteTmp(p) ==
    /\ pc[p] = "opened" /\ Goto(p, "written")
    /\ tmp' \in IF fd[p] = "tmp" THEN Written(tmp, ns[p]) ELSE {tmp}
    /\ file' \in IF fd[p] = "file" THEN Written(file, ns[p]) ELSE {file}
    /\ fd' = [fd EXCEPT ![p] = "none"]
    /\ UNCHANGED <<tmpExists, op, ns>>

AfterRename(f) == CASE f = "tmp"  -> "file"
                    [] f = "file" -> "unlinked"
                    [] OTHER      -> f

AfterDelete(f) == IF f = "tmp" THEN "unlinked" ELSE f

\* host.fs.renameFile.
RenameTmp(p) ==
    /\ pc[p] = "written" /\ tmpExists /\ Goto(p, "answer")
    /\ file' = tmp
    /\ tmp' = Nothing /\ tmpExists' = FALSE
    /\ fd' = [q \in Proc |-> AfterRename(fd[q])]
    /\ UNCHANGED <<op, ns>>

\* Wrong: a failure to save loses the file as well.
SaveFailsLosingFile(p) ==
    /\ pc[p] = "opened" /\ "write" \in Faults /\ Goto(p, "answer")
    /\ file' = Json(Empty)
    /\ UNCHANGED <<tmp, tmpExists, op, ns, fd>>

\* saveAll swallows a failure to write or to rename and deletes ".tmp", where
\* it swallows a failure as well; the call goes on as if it had saved.
SaveFails(p) ==
    /\ \/ pc[p] \in {"loaded", "opened"} /\ "write" \in Faults
       \/ pc[p] = "written" /\ (tmpExists => "rename" \in Faults)
    /\ Goto(p, "answer")
    /\ \/ /\ tmp' = Nothing /\ tmpExists' = FALSE
          /\ fd' = [q \in Proc |-> IF q = p THEN "none" ELSE AfterDelete(fd[q])]
       \/ /\ "delete" \in Faults
          /\ fd' = [fd EXCEPT ![p] = "none"] /\ UNCHANGED <<tmp, tmpExists>>
    /\ UNCHANGED <<file, op, ns>>

\* "success: true".
Answer(p) == pc[p] = "answer" /\ End(p)

Kill(p) == pc[p] # "idle" /\ End(p)

Next == \E p \in Proc :
           \/ Begin(p) \/ MakeDirFails(p) \/ Load(p)
           \/ OpenTmp(p) \/ WriteTmp(p) \/ RenameTmp(p) \/ SaveFails(p)
           \/ Answer(p) \/ Kill(p)

Spec == Init /\ [][Next]_vars

-----------------------------------------------------------------------------
(* Properties.                                                             *)

\* Every variable has its type, and an idle process runs no call.
TypeOK ==
    /\ file \in Contents /\ tmp \in Contents /\ tmpExists \in BOOLEAN
    /\ pc \in [Proc -> {"idle", "called", "loaded", "opened", "written", "answer"}]
    /\ \A p \in Proc : pc[p] = "idle" <=> op[p] = NoOp
    /\ op \in [Proc -> Operation \cup {NoOp}]
    /\ ns \in [Proc -> Map]
    /\ fd \in [Proc -> {"none", "tmp", "file", "unlinked"}]

\* No two processes save at the same time: both would use the same ".tmp", and
\* the second would save a map that lacks what the first one changed.
Saving(p) == pc[p] \in {"loaded", "opened", "written"}
OneSaves  == \A p, q \in Proc : Saving(p) /\ Saving(q) => p = q

\* As long as no two processes save at the same time, the file is always
\* complete, whenever a process is killed ("Atomic Writes to prevent data
\* corruption").
FileIsWhole == file.text = "json"

\* What a call takes for the map after it could not read the file.
AfterFailedRead(p) == \A k \in Key \ {op[p].key} : ns[p][k] = NoValue

\* The value of a key only changes when a call for that key saves: killed
\* processes and failed saves lose nothing, and no other key is touched
\* ("Store and retrieve named values that persist across invocations").
\* The exception is loadAll's: after a failed read, the next save loses all
\* other keys.
OnlyNamedKeyChanges ==
    [][\A k \in Key : file'.map[k] # file.map[k] =>
          \E p \in Proc : /\ pc[p] = "written" /\ file'.map[k] = ns[p][k]
                          /\ k = op[p].key \/ AfterFailedRead(p)]_vars

=============================================================================
