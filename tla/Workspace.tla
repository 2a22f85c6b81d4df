------------------------------- MODULE Workspace -------------------------------
(***************************************************************************)
(* A caller that works with the mcwsd tool, call after call, and the       *)
(* daemon behind it: its workspaces, the files in them, and jobs that go   *)
(* on by themselves.  Requests and replies get lost, and a request whose   *)
(* caller has stopped waiting may be carried out during a later call.      *)
(***************************************************************************)
EXTENDS McwsdPlugin, FiniteSets

CONSTANTS
    Sessions,       \* sets of commands; a caller uses those of one of them
    Workspaces, Paths, Texts,
    TimeoutOption,  \* options.timeout_seconds, or 0
    MaxJobs,        \* bound: how many jobs are started
    MaxOutput,      \* bound: how many pieces of output a job has
    MaxLate         \* bound: how many late requests are on their way

ASSUME WorkspaceAssumption ==
    /\ \A s \in Sessions : s \subseteq Commands
    /\ "" \notin Workspaces \cup Paths \cup Texts
    /\ TimeoutOption \in Int /\ {MaxJobs, MaxOutput, MaxLate} \subseteq Nat

VARIABLES
    session,   \* the commands the caller uses
    call,      \* the parameters of the call that goes on, or Unset
    request,   \* the request its plugin waits for
    back,      \* the daemon's reply to it, on its way
    told,      \* the answer
    late,      \* requests that change something, for which nobody waits any more
    overtaken, \* history: a late request has changed a file since the call began
    spaces,    \* which workspaces exist
    files,     \* what their files contain
    jobs,      \* the jobs: where they are, how they are, how much they have said
    got,       \* the output of each job that the caller has put together
    cursor,    \* the cursor it came with
    targets    \* history: what the caller wanted ended; job 0 for the workspace

pluginVars == <<call, request, back, told, overtaken>>
daemonVars == <<spaces, files, jobs>>
callerVars == <<session, got, cursor, targets>>
vars == <<pluginVars, late, daemonVars, callerVars>>

Job     == 1 .. MaxJobs
WorkspaceOrNone == Workspaces \cup {""}
PathOrNone      == Paths \cup {""}
TextOrNone      == Texts \cup {""}
JobOrNone       == Job \cup {0}
Outputs == 0 .. MaxOutput
Cursors == -1 .. MaxOutput   \* -1 for none

NoRequest == [effect |-> "none"]
NoReply   == [status |-> -1, from |-> 0, upto |-> 0]

\* The caller has every setting there is, and leaves out no parameter that has
\* no alternative, but perhaps the workspace.
Context == [cmd   |-> call.cmd, cfg |-> Settings,
            given |-> Given(call) \cup {"command", "pattern", "commit_message",
                                        "pr_title"}]

\* The plugin's next move.
Move(rs) == Call(Context, rs)

-----------------------------------------------------------------------------
(* The caller.                                                             *)

\* What a parameter with two names means, as the schema has it.
MeantJob(p)  == IF p.job_id # 0 THEN p.job_id ELSE p.process_id
MeantPath(p) ==
    LET named == IF p.cmd = "safe_edit" THEN p.file_path ELSE p.path
        other == IF p.cmd = "safe_edit" THEN p.path ELSE p.file_path
    IN IF named # "" THEN named ELSE other

ToRun(cmd, w, network, limit) ==
    [Unset EXCEPT !.cmd = cmd, !.workspace_id = w, !.allow_network = network,
                  !.timeout_seconds = limit]
OnFile(cmd, w, a, b, text) ==
    [Unset EXCEPT !.cmd = cmd, !.workspace_id = w, !.path = a, !.file_path = b,
                  !.content = text]
OnJob(cmd, w, i, j, c) ==
    [Unset EXCEPT !.cmd = cmd, !.workspace_id = w, !.job_id = i,
                  !.process_id = j, !.cursor = c]
OnWorkspace(cmd, w) == [Unset EXCEPT !.cmd = cmd, !.workspace_id = w]

Runs    == {"exec_command", "start_job", "start_process"}
Edits   == {"safe_edit", "write_file", "read_file", "list_files"}
Cancels == {"cancel_job", "kill_process"}
Polls   == {"get_job", "get_process_status"}

Inputs(cmd) ==
    IF cmd \in Runs
    THEN {ToRun(cmd, w, "yes", 60) : w \in Workspaces}
         \cup {ToRun(cmd, w, n, 0) : w \in Workspaces, n \in {"no", "unset"}}
    ELSE IF cmd \in Edits
    THEN {OnFile(cmd, w, a, b, x) : w \in Workspaces, a \in PathOrNone,
                                    b \in PathOrNone, x \in Texts}
    ELSE IF cmd \in Cancels
    THEN {OnJob(cmd, w, i, j, -1) : w \in Workspaces, i \in JobOrNone,
                                    j \in JobOrNone}
    ELSE IF cmd \in Polls
    THEN {OnJob(cmd, w, i, j, c) : w \in Workspaces, i \in JobOrNone,
                                   j \in JobOrNone, c \in Cursors}
    ELSE {OnWorkspace(cmd, w) : w \in WorkspaceOrNone}

\* A cursor is passed back with the job it came with, or left out.
Sensible(p) == p.cursor # -1 => /\ MeantJob(p) # 0
                                /\ p.cursor = cursor[MeantJob(p)]

Begin ==
    /\ call = Unset
    /\ \E cmd \in session : \E p \in Inputs(cmd) :
          /\ Sensible(p) /\ call' = p
          /\ targets' = targets \cup
                (CASE cmd \in Cancels           -> {<<p.workspace_id, MeantJob(p)>>}
                   [] cmd = "destroy_workspace" -> {<<p.workspace_id, 0>>}
                   [] OTHER                     -> {})
    /\ UNCHANGED <<request, back, told, overtaken, late, daemonVars, session, got, cursor>>

\* The caller takes the answer, and what it says of a job's output: what is new,
\* or with no cursor all of it.
End ==
    /\ told # "none"
    /\ IF told = "success" /\ call.cmd \in Polls
       THEN LET j == MeantJob(call)
                heard == [i \in 1 .. (back.upto - back.from) |-> back.from + i]
            IN /\ got' = [got EXCEPT ![j] = IF call.cursor = -1 THEN heard
                                                               ELSE @ \o heard]
               /\ cursor' = [cursor EXCEPT ![j] = back.upto]
       ELSE UNCHANGED <<got, cursor>>
    /\ call' = Unset /\ told' = "none" /\ back' = NoReply /\ overtaken' = FALSE
    /\ UNCHANGED <<request, late, daemonVars, session, targets>>

-----------------------------------------------------------------------------
(* The plugin, and the client that gives up waiting.                       *)

SendRequest ==
    /\ call # Unset /\ told = "none" /\ request = NoRequest
    /\ Move(<<>>).do = "send"
    /\ LET sent == Move(<<>>).request
       IN request' = [effect |-> sent.effect, what |-> sent.what,
                      to |-> Details([call EXCEPT !.cmd = Canonical(@)], TimeoutOption)]
    /\ UNCHANGED <<call, back, told, overtaken, late, daemonVars, callerVars>>

Refuse ==
    /\ call # Unset /\ told = "none" /\ request = NoRequest
    /\ Move(<<>>).do = "answer" /\ told' = "refused"
    /\ UNCHANGED <<call, request, back, overtaken, late, daemonVars, callerVars>>

\* Wrong: the plugin goes on waiting for what has been answered.
DeliverKeepingRequest ==
    /\ request # NoRequest /\ back # NoReply
    /\ told' = Move(<<back>>).outcome
    /\ UNCHANGED <<call, request, back, overtaken, late, daemonVars, callerVars>>

Deliver ==
    /\ request # NoRequest /\ back # NoReply
    /\ told' = Move(<<back>>).outcome /\ request' = NoRequest
    /\ back' = IF told' = "success" THEN back ELSE NoReply
    /\ UNCHANGED <<call, overtaken, late, daemonVars, callerVars>>

TimeOut ==
    /\ request # NoRequest
    /\ told' = Move(<<Thrown>>).outcome
    /\ request' = NoRequest /\ back' = NoReply
    /\ late' \in {late} \cup
          (IF back = NoReply /\ Changes(request) /\ Cardinality(late) < MaxLate
           THEN {late \cup {request}} ELSE {})
    /\ UNCHANGED <<call, overtaken, daemonVars, callerVars>>

-----------------------------------------------------------------------------
(* The daemon.                                                             *)

Started(r) == Append(jobs, [ws |-> r.to.ws, state |-> "running", output |-> 0])

\* The request can be carried out.
Possible(r) ==
    CASE r.what = "new workspace" -> \E w \in Workspaces : spaces[w] = "unknown"
      [] r.what = "new job"       -> spaces[r.to.ws] = "live" /\ Len(jobs) < MaxJobs
      [] r.what \in {"job", "output"} ->
             spaces[r.to.ws] = "live" /\ r.to.job \in DOMAIN jobs /\ jobs[r.to.job].ws = r.to.ws
      [] r.what = "edit"          -> spaces[r.to.ws] = "live" /\ files[<<r.to.ws, r.to.path>>] # ""
      [] OTHER                    -> spaces[r.to.ws] = "live"

\* What it changes.  A command may take so long that it becomes a job.
Carried(r) ==
    /\ CASE r.what = "new workspace" ->
              \E w \in Workspaces : /\ spaces[w] = "unknown"
                                    /\ spaces' = [spaces EXCEPT ![w] = "live"]
         [] r.what = "workspace" -> spaces' = [spaces EXCEPT ![r.to.ws] = "destroyed"]
         [] OTHER -> spaces' = spaces
    /\ files' = IF r.what \in {"new file", "edit"}
                THEN [files EXCEPT ![<<r.to.ws, r.to.path>>] = r.to.text] ELSE files
    /\ CASE r.what = "new job" -> jobs' = Started(r)
         [] r.what = "command" ->
              jobs' \in {jobs} \cup (IF Len(jobs) < MaxJobs THEN {Started(r)} ELSE {})
         [] r.what \in {"job", "workspace"} ->
              jobs' = [j \in DOMAIN jobs |->
                         IF /\ jobs[j].ws = r.to.ws /\ jobs[j].state = "running"
                            /\ r.what = "job" => j = r.to.job
                         THEN [jobs[j] EXCEPT !.state = "cancelled"] ELSE jobs[j]]
         [] OTHER -> jobs' = jobs

Reply(r) ==
    IF r.what # "output" THEN [status |-> 200, from |-> 0, upto |-> 0]
    ELSE [status |-> 200, from |-> IF r.to.cursor = -1 THEN 0 ELSE r.to.cursor,
          upto |-> jobs[r.to.job].output]

Serve ==
    /\ request # NoRequest /\ back = NoReply
    /\ \/ Possible(request) /\ Carried(request) /\ back' = Reply(request)
       \/ UNCHANGED daemonVars /\ back' = [status |-> 500, from |-> 0, upto |-> 0]
    /\ UNCHANGED <<call, request, told, overtaken, late, callerVars>>

\* A late request is carried out, or lost.
ServeLate ==
    /\ \E r \in late :
          /\ late' = late \ {r}
          /\ \/ /\ Possible(r) /\ Carried(r)
                /\ overtaken' = (overtaken \/ (call # Unset /\ files' # files))
             \/ UNCHANGED <<daemonVars, overtaken>>
    /\ UNCHANGED <<call, request, back, told, callerVars>>

\* A job says something.  One that has ended is one that says no more.
Work ==
    /\ \E j \in DOMAIN jobs :
          /\ jobs[j].state = "running" /\ jobs[j].output < MaxOutput
          /\ jobs' = [jobs EXCEPT ![j].output = @ + 1]
    /\ UNCHANGED <<pluginVars, late, spaces, files, callerVars>>

-----------------------------------------------------------------------------
Init ==
    /\ session \in Sessions
    /\ call = Unset /\ request = NoRequest /\ back = NoReply /\ told = "none"
    /\ late = {} /\ overtaken = FALSE /\ jobs = <<>> /\ targets = {}
    /\ spaces = [w \in Workspaces |-> "unknown"]
    /\ files = [f \in Workspaces \X Paths |-> ""]
    /\ got = [j \in Job |-> <<>>] /\ cursor = [j \in Job |-> -1]

Next == \/ Begin \/ End \/ SendRequest \/ Refuse \/ Deliver \/ TimeOut
        \/ Serve \/ ServeLate \/ Work

Spec == Init /\ [][Next]_vars

-----------------------------------------------------------------------------
(* Properties.                                                             *)

Params == [cmd : Commands \cup {"none"}, workspace_id : WorkspaceOrNone,
           path : PathOrNone, file_path : PathOrNone,
           content : TextOrNone, job_id : JobOrNone,
           process_id : JobOrNone, cursor : Cursors,
           allow_network : {"yes", "no", "unset"}, timeout_seconds : Nat]

Subjects == {"new workspace", "workspace", "status", "command", "artifacts",
             "edit", "pull request", "files", "file", "new file", "new job",
             "job", "jobs", "output"}

Requests ==
    [effect : {"read", "change", "delete"}, what : Subjects,
     to : [ws : WorkspaceOrNone, path : PathOrNone,
           text : TextOrNone, job : JobOrNone, cursor : Cursors,
           net : {"yes", "no"}, limit : Nat]]

JobState == [ws : Workspaces, state : {"running", "cancelled"}, output : Outputs]

PluginTypeOK ==
    /\ call \in Params /\ call.cmd \in session \cup {"none"}
    /\ told \in {"none", "refused", "success", "failure"}
    /\ request \in Requests \cup {NoRequest}
    /\ request # NoRequest => call # Unset /\ told = "none"
    /\ told # "none" => call # Unset
    /\ back \in [status : {-1, 200, 500}, from : Outputs, upto : Outputs]
    /\ late \subseteq Requests /\ \A r \in late : Changes(r)
    /\ overtaken \in BOOLEAN

DaemonTypeOK ==
    /\ spaces \in [Workspaces -> {"unknown", "live", "destroyed"}]
    /\ files \in [Workspaces \X Paths -> TextOrNone]
    /\ jobs \in Seq(JobState) /\ Len(jobs) <= MaxJobs

CallerTypeOK ==
    /\ session \in Sessions
    /\ got \in [Job -> Seq(Outputs)] /\ cursor \in [Job -> Cursors]
    /\ targets \subseteq WorkspaceOrNone \X JobOrNone

\* Every variable has its type; a request is one of a call, and an answer ends
\* it.
WTypeOK == PluginTypeOK /\ DaemonTypeOK /\ CallerTypeOK

\* What the caller has put together of a job's output, with the cursors of the
\* replies that reached it, has every piece once and in order, however many
\* replies were lost ("Pass it back to receive only output produced since then").
OutputOnce == \A j \in Job : /\ got[j] = [i \in 1 .. Len(got[j]) |-> i]
                             /\ j \in DOMAIN jobs => Len(got[j]) <= jobs[j].output

\* Nothing ends but what the caller wanted ended: a job is cancelled when it was
\* named, or all of its workspace was, also by a request that came late or with
\* the legacy name.
OnlyNamedEnds ==
    /\ \A w \in Workspaces : spaces[w] = "destroyed" => <<w, 0>> \in targets
    /\ \A j \in DOMAIN jobs :
          jobs[j].state = "cancelled" => {<<jobs[j].ws, j>>, <<jobs[j].ws, 0>>}
                                         \cap targets # {}

\* A success is one: what the caller is told was cancelled does not run, what it
\* is told was destroyed is, and a file it is told was written has the new
\* text, under either name of the path, unless a late request has changed one since.
SuccessIsSo ==
    told = "success" =>
    /\ call.cmd \in Cancels =>
          \A j \in DOMAIN jobs : j = MeantJob(call) => jobs[j].state # "running"
    /\ call.cmd = "destroy_workspace" => spaces[call.workspace_id] = "destroyed"
    /\ call.cmd \in {"write_file", "safe_edit"} /\ ~overtaken =>
          files[<<call.workspace_id, MeantPath(call)>>] = call.content

\* No write that names its file is refused for the name ("so a naming mix-up
\* cannot silently drop a write").
NoWriteDropped ==
    call.cmd \in {"write_file", "safe_edit"} /\ told = "refused"
    => call.path = "" /\ call.file_path = ""

\* What is started has the network only when the caller said so, the limit that
\* the caller set, and as a command never an unlimited time.
StartedAsAsked ==
    request # NoRequest /\ request.what \in {"new job", "command"} =>
    /\ request.to.net = "yes" => call.allow_network = "yes"
    /\ call.timeout_seconds > 0 => request.to.limit = call.timeout_seconds
    /\ request.what = "command" => request.to.limit > 0

=============================================================================
