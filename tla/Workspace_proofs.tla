--------------------------- MODULE Workspace_proofs ---------------------------
(***************************************************************************)
(* A job's output is put together once and in order, and what the daemon   *)
(* does is what the caller asked for.                                      *)
(***************************************************************************)
EXTENDS Workspace, SequenceTheorems, TLAPS

-----------------------------------------------------------------------------
(* What the plugin makes of its parameters.                                *)

\* The caller gives parameters of their types, and a cursor only to get_job.
LEMMA InputsAreParams ==
  ASSUME NEW cmd \in Commands, NEW p \in Inputs(cmd)
  PROVE  /\ p \in Params /\ p.cmd = cmd
         /\ p.cursor # -1 => cmd \in Polls
<1>1. -1 \in Cursors
  <2>1. MaxOutput \in Nat
    BY WorkspaceAssumption
  <2>2. QED
    BY <2>1 DEF Cursors
<1>0. /\ "" \in PathOrNone /\ "" \in TextOrNone /\ 0 \in JobOrNone
      /\ Workspaces \subseteq WorkspaceOrNone /\ Texts \subseteq TextOrNone
  BY DEF PathOrNone, TextOrNone, JobOrNone, WorkspaceOrNone
<1>2. ASSUME NEW w \in Workspaces, NEW n \in {"yes", "no", "unset"},
             NEW t \in Nat, p = ToRun(cmd, w, n, t)
      PROVE  p \in Params /\ p.cmd = cmd /\ p.cursor = -1
  BY <1>1, <1>2, <1>0 DEF ToRun, Unset, Params
<1>3. ASSUME NEW w \in Workspaces, NEW f \in PathOrNone,
             NEW g \in PathOrNone, NEW x \in Texts, p = OnFile(cmd, w, f, g, x)
      PROVE  p \in Params /\ p.cmd = cmd /\ p.cursor = -1
  BY <1>1, <1>3, <1>0 DEF OnFile, Unset, Params
<1>4. ASSUME NEW w \in Workspaces, NEW i \in JobOrNone, NEW j \in JobOrNone,
             NEW c \in Cursors, p = OnJob(cmd, w, i, j, c)
      PROVE  p \in Params /\ p.cmd = cmd /\ p.cursor = c
  BY <1>1, <1>4, <1>0 DEF OnJob, Unset, Params
<1>5. ASSUME NEW w \in WorkspaceOrNone, p = OnWorkspace(cmd, w)
      PROVE  p \in Params /\ p.cmd = cmd /\ p.cursor = -1
  BY <1>1, <1>5, <1>0 DEF OnWorkspace, Unset, Params
<1>6. CASE cmd \in Runs
  <2>1. \E w \in Workspaces, n \in {"yes", "no", "unset"}, t \in Nat :
           p = ToRun(cmd, w, n, t)
    BY <1>6 DEF Inputs
  <2>2. QED
    BY <2>1, <1>2
<1>7. CASE cmd \notin Runs /\ cmd \in Edits
  <2>1. \E w \in Workspaces, f \in PathOrNone, g \in PathOrNone, x \in Texts :
           p = OnFile(cmd, w, f, g, x)
    BY <1>7 DEF Inputs
  <2>2. QED
    BY <2>1, <1>3
<1>8. CASE cmd \notin Runs /\ cmd \notin Edits /\ cmd \in Cancels
  <2>1. \E w \in Workspaces, i \in JobOrNone, j \in JobOrNone :
           p = OnJob(cmd, w, i, j, -1)
    BY <1>8 DEF Inputs
  <2>2. QED
    BY <2>1, <1>1, <1>4
<1>9. CASE cmd \notin Runs /\ cmd \notin Edits /\ cmd \notin Cancels /\ cmd \in Polls
  <2>1. \E w \in Workspaces, i \in JobOrNone, j \in JobOrNone, c \in Cursors :
           p = OnJob(cmd, w, i, j, c)
    BY <1>9 DEF Inputs
  <2>2. QED
    BY <2>1, <1>9, <1>4
<1>10. CASE cmd \notin Runs /\ cmd \notin Edits /\ cmd \notin Cancels /\ cmd \notin Polls
  <2>1. \E w \in WorkspaceOrNone : p = OnWorkspace(cmd, w)
    BY <1>10 DEF Inputs
  <2>2. QED
    BY <2>1, <1>5
<1>11. QED
  BY <1>6, <1>7, <1>8, <1>9, <1>10

\* A request says what the caller meant.
LEMMA DetailsAreMeant ==
  ASSUME NEW p \in Params, NEW cmd \in Commands \cup {"none"}
  PROVE  LET d == Details([p EXCEPT !.cmd = cmd], TimeoutOption)
         IN /\ d \in [ws : WorkspaceOrNone, path : PathOrNone,
                      text : TextOrNone, job : JobOrNone,
                      cursor : Cursors, net : {"yes", "no"}, limit : Nat]
            /\ d.ws = p.workspace_id /\ d.job = MeantJob(p) /\ d.cursor = p.cursor
<1> DEFINE q == [p EXCEPT !.cmd = cmd]
<1>1. /\ q \in Params /\ q.workspace_id = p.workspace_id /\ q.job_id = p.job_id
      /\ q.process_id = p.process_id /\ q.cursor = p.cursor
  BY DEF Params
<1> HIDE DEF q
<1>2. Path(q) \in PathOrNone
  BY <1>1 DEF Path, Params
<1>3. JobId(q) \in JobOrNone /\ JobId(q) = MeantJob(p)
  BY <1>1 DEF JobId, MeantJob, Params
<1>4. Network(q) \in {"yes", "no"}
  BY DEF Network
<1>5. Limit(q, TimeoutOption) \in Nat
  <2>1. TimeoutOption \in Int /\ q.timeout_seconds \in Nat
    BY <1>1, WorkspaceAssumption DEF Params
  <2>2. QED
    BY <2>1 DEF Limit
<1>6. QED
  BY <1>1, <1>2, <1>3, <1>4, <1>5 DEF Details, Cursor, Params, q

\* A call that is not refused sends one request, and answers from the reply.
LEMMA MoveIsOnce ==
  ASSUME call \in Params, Move(<<>>).do = "send", NEW x
  PROVE  /\ Move(<<>>).request.effect \in {"read", "change", "delete"}
         /\ Move(<<>>).request.what \in Subjects
         /\ Move(<<>>).request.what = "output" <=> call.cmd \in Polls
         /\ Move(<<>>).request.what = "job" <=> call.cmd \in Cancels
         /\ Move(<<>>).request.what = "workspace" <=> call.cmd = "destroy_workspace"
         /\ Move(<<>>).request.what = "command" <=> call.cmd = "exec_command"
         /\ Move(<<>>).request.what = "new file" <=> call.cmd = "write_file"
         /\ Move(<<>>).request.what = "edit" <=> call.cmd = "safe_edit"
         /\ Move(<<>>).request.what # "new workspace" => call.workspace_id \in Workspaces
         /\ Move(<<x>>).outcome = HandleResponse(x)
<1> DEFINE cmd == Canonical(call.cmd)
<1>1. /\ Require(cmd, Context.given)
      /\ Move(<<>>) = Handle(cmd, <<>>) /\ Move(<<x>>) = Handle(cmd, <<x>>)
  BY DEF Move, Call, Context, Answer
<1> HIDE DEF cmd
<1>2. cmd \in {"prepare_workspace", "exec_command", "get_artifacts", "safe_edit",
               "commit_and_pr", "workspace_status", "destroy_workspace",
               "list_files", "read_file", "write_file", "start_job", "list_jobs",
               "get_job", "cancel_job"}
  <2>1. SUFFICES ASSUME cmd \notin {"prepare_workspace", "exec_command",
               "get_artifacts", "safe_edit", "commit_and_pr", "workspace_status",
               "destroy_workspace", "list_files", "read_file", "write_file",
               "start_job", "list_jobs", "get_job", "cancel_job"}
                 PROVE  Handle(cmd, <<>>).do = "answer"
    BY <1>1
  <2>2. Handle(cmd, <<>>) = Answer("failure")
    BY <2>1 DEF Handle
  <2>3. QED
    BY <2>2 DEF Answer
<1>3. ASSUME NEW fn, NEW effect, NEW what,
             Handle(cmd, <<>>) = Once(Request(fn, effect, what), <<>>, HandleResponse(<<>>[1])),
             Handle(cmd, <<x>>) = Once(Request(fn, effect, what), <<x>>, HandleResponse(<<x>>[1]))
      PROVE  /\ Handle(cmd, <<>>).request.effect = effect
             /\ Handle(cmd, <<>>).request.what = what
             /\ Handle(cmd, <<x>>).outcome = HandleResponse(x)
  BY <1>3 DEF Once, Send, Answer, Request
<1> DEFINE Sends(effect, what) ==
      /\ Handle(cmd, <<>>).request.effect = effect
      /\ Handle(cmd, <<>>).request.what = what
      /\ Handle(cmd, <<x>>).outcome = HandleResponse(x)
<1> DEFINE Result == /\ Handle(cmd, <<x>>).outcome = HandleResponse(x)
                     /\ Handle(cmd, <<>>).request.effect \in {"read", "change", "delete"}
                     /\ Handle(cmd, <<>>).request.what \in Subjects
                     /\ Handle(cmd, <<>>).request.what = "output" <=> cmd = "get_job"
                     /\ Handle(cmd, <<>>).request.what = "job" <=> cmd = "cancel_job"
                     /\ Handle(cmd, <<>>).request.what = "workspace" <=> cmd = "destroy_workspace"
                     /\ Handle(cmd, <<>>).request.what = "command" <=> cmd = "exec_command"
                     /\ Handle(cmd, <<>>).request.what = "new file" <=> cmd = "write_file"
                     /\ Handle(cmd, <<>>).request.what = "edit" <=> cmd = "safe_edit"
                     /\ Handle(cmd, <<>>).request.what = "new workspace"
                          <=> cmd = "prepare_workspace"
<1>4. Result
  <2>1. \A rs : /\ Handle("prepare_workspace", rs) = Post("new workspace", rs)
               /\ Handle("exec_command", rs)      = Post("command", rs)
               /\ Handle("get_artifacts", rs)     = Get("artifacts", rs)
               /\ Handle("safe_edit", rs)         = Post("edit", rs)
               /\ Handle("commit_and_pr", rs)     = Post("pull request", rs)
               /\ Handle("workspace_status", rs)  = Get("status", rs)
               /\ Handle("destroy_workspace", rs) = Delete("workspace", rs)
               /\ Handle("list_files", rs)        = Get("files", rs)
               /\ Handle("read_file", rs)         = Get("file", rs)
               /\ Handle("write_file", rs)        = Put("new file", rs)
               /\ Handle("start_job", rs)         = Post("new job", rs)
               /\ Handle("list_jobs", rs)         = Get("jobs", rs)
               /\ Handle("get_job", rs)           = Get("output", rs)
               /\ Handle("cancel_job", rs)        = Delete("job", rs)
    BY DEF Handle
  <2>2. /\ \A what : Handle(cmd, <<>>) = Post(what, <<>>)
                                /\ Handle(cmd, <<x>>) = Post(what, <<x>>)
                              => Sends("change", what)
        /\ \A what : Handle(cmd, <<>>) = Put(what, <<>>)
                                /\ Handle(cmd, <<x>>) = Put(what, <<x>>)
                              => Sends("change", what)
        /\ \A what : Handle(cmd, <<>>) = Get(what, <<>>)
                                /\ Handle(cmd, <<x>>) = Get(what, <<x>>)
                              => Sends("read", what)
        /\ \A what : Handle(cmd, <<>>) = Delete(what, <<>>)
                                /\ Handle(cmd, <<x>>) = Delete(what, <<x>>)
                              => Sends("delete", what)
    BY <1>3 DEF Post, Put, Get, Delete
  <2> HIDE DEF Sends, Result, Subjects
  <2>3. CASE cmd = "prepare_workspace"
    <3>1. Sends("change", "new workspace")
      BY <2>3, <2>1, <2>2
    <3>2. QED
      BY <2>3, <3>1 DEF Sends, Result, Subjects
  <2>4. CASE cmd = "exec_command"
    <3>1. Sends("change", "command")
      BY <2>4, <2>1, <2>2
    <3>2. QED
      BY <2>4, <3>1 DEF Sends, Result, Subjects
  <2>5. CASE cmd = "get_artifacts"
    <3>1. Sends("read", "artifacts")
      BY <2>5, <2>1, <2>2
    <3>2. QED
      BY <2>5, <3>1 DEF Sends, Result, Subjects
  <2>6. CASE cmd = "safe_edit"
    <3>1. Sends("change", "edit")
      BY <2>6, <2>1, <2>2
    <3>2. QED
      BY <2>6, <3>1 DEF Sends, Result, Subjects
  <2>7. CASE cmd = "commit_and_pr"
    <3>1. Sends("change", "pull request")
      BY <2>7, <2>1, <2>2
    <3>2. QED
      BY <2>7, <3>1 DEF Sends, Result, Subjects
  <2>8. CASE cmd = "workspace_status"
    <3>1. Sends("read", "status")
      BY <2>8, <2>1, <2>2
    <3>2. QED
      BY <2>8, <3>1 DEF Sends, Result, Subjects
  <2>9. CASE cmd = "destroy_workspace"
    <3>1. Sends("delete", "workspace")
      BY <2>9, <2>1, <2>2
    <3>2. QED
      BY <2>9, <3>1 DEF Sends, Result, Subjects
  <2>10. CASE cmd = "list_files"
    <3>1. Sends("read", "files")
      BY <2>10, <2>1, <2>2
    <3>2. QED
      BY <2>10, <3>1 DEF Sends, Result, Subjects
  <2>11. CASE cmd = "read_file"
    <3>1. Sends("read", "file")
      BY <2>11, <2>1, <2>2
    <3>2. QED
      BY <2>11, <3>1 DEF Sends, Result, Subjects
  <2>12. CASE cmd = "write_file"
    <3>1. Sends("change", "new file")
      BY <2>12, <2>1, <2>2
    <3>2. QED
      BY <2>12, <3>1 DEF Sends, Result, Subjects
  <2>13. CASE cmd = "start_job"
    <3>1. Sends("change", "new job")
      BY <2>13, <2>1, <2>2
    <3>2. QED
      BY <2>13, <3>1 DEF Sends, Result, Subjects
  <2>14. CASE cmd = "list_jobs"
    <3>1. Sends("read", "jobs")
      BY <2>14, <2>1, <2>2
    <3>2. QED
      BY <2>14, <3>1 DEF Sends, Result, Subjects
  <2>15. CASE cmd = "get_job"
    <3>1. Sends("read", "output")
      BY <2>15, <2>1, <2>2
    <3>2. QED
      BY <2>15, <3>1 DEF Sends, Result, Subjects
  <2>16. CASE cmd = "cancel_job"
    <3>1. Sends("delete", "job")
      BY <2>16, <2>1, <2>2
    <3>2. QED
      BY <2>16, <3>1 DEF Sends, Result, Subjects
  <2>17. QED
    BY <1>2, <2>3, <2>4, <2>5, <2>6, <2>7, <2>8, <2>9, <2>10,
       <2>11, <2>12, <2>13, <2>14, <2>15, <2>16
<1>5. cmd # "prepare_workspace" => call.workspace_id \in Workspaces
  <2> SUFFICES ASSUME cmd # "prepare_workspace" PROVE call.workspace_id \in Workspaces
    OBVIOUS
  <2>1. {"workspace_id"} \in Fields(cmd)
    BY DEF Fields
  <2>2. "workspace_id" \in Given(call)
    BY <1>1, <2>1 DEF Require, Context
  <2>3. call.workspace_id \in WorkspaceOrNone
    BY DEF Params
  <2>4. QED
    BY <2>2, <2>3 DEF Given, Unset, WorkspaceOrNone
<1>6. /\ cmd = "get_job" <=> call.cmd \in Polls
      /\ cmd = "cancel_job" <=> call.cmd \in Cancels
      /\ \A same \in {"destroy_workspace", "exec_command", "write_file", "safe_edit"} :
            cmd = same <=> call.cmd = same
  BY DEF cmd, Canonical, Polls, Cancels
<1> HIDE DEF Subjects
<1>7. QED
  BY <1>1, <1>4, <1>5, <1>6

-----------------------------------------------------------------------------
(* What the daemon makes of a request.                                     *)

\* The request names a workspace, unless it asks for one.
Addressed(r) == r.what # "new workspace" => r.to.ws \in Workspaces

\* No job disappears, and none takes back what it has said.
Grows == /\ Len(jobs) <= Len(jobs')
         /\ \A j \in 1 .. Len(jobs) : jobs'[j].output >= jobs[j].output

\* The jobs, when those that r names have been cancelled.
Cancelled(r) == [j \in DOMAIN jobs |->
                   IF /\ jobs[j].ws = r.to.ws /\ jobs[j].state = "running"
                      /\ r.what = "job" => j = r.to.job
                   THEN [jobs[j] EXCEPT !.state = "cancelled"] ELSE jobs[j]]

\* No request makes more of the jobs than to start one, or to cancel some.
LEMMA JobsAfter ==
  ASSUME NEW r, Possible(r), Carried(r)
  PROVE  \/ jobs' = jobs
         \/ jobs' = Started(r) /\ r.what # "new workspace" /\ Len(jobs) < MaxJobs
         \/ jobs' = Cancelled(r) /\ r.what \in {"job", "workspace"}
<1>1. CASE r.what = "new job"
  BY <1>1 DEF Carried, Possible
<1>2. CASE r.what = "command"
  BY <1>2 DEF Carried, Possible
<1>3. CASE r.what \in {"job", "workspace"}
  BY <1>3 DEF Carried, Cancelled
<1>4. CASE r.what \notin {"new job", "command", "job", "workspace"}
  BY <1>4 DEF Carried
<1>5. QED
  BY <1>1, <1>2, <1>3, <1>4

\* Carrying a request out keeps the daemon's types, and the output of the jobs.
LEMMA CarriedKeeps ==
  ASSUME DaemonTypeOK, NEW r \in Requests, Addressed(r), Possible(r), Carried(r)
  PROVE  DaemonTypeOK' /\ Grows
<1>0. MaxOutput \in Nat /\ MaxJobs \in Nat
  BY WorkspaceAssumption
<1>1. /\ r.to.text \in TextOrNone
      /\ r.what # "new workspace" => r.to.ws \in Workspaces
  BY DEF Requests, Addressed
<1>2. spaces' \in [Workspaces -> {"unknown", "live", "destroyed"}]
  <2>1. CASE r.what = "new workspace"
    BY <2>1 DEF Carried, DaemonTypeOK
  <2>2. CASE r.what = "workspace"
    BY <2>2 DEF Carried, DaemonTypeOK
  <2>3. CASE r.what # "new workspace" /\ r.what # "workspace"
    BY <2>3 DEF Carried, DaemonTypeOK
  <2>4. QED
    BY <2>1, <2>2, <2>3
<1>3. files' \in [Workspaces \X Paths -> TextOrNone]
  <2>1. files' = files \/ files' = [files EXCEPT ![<<r.to.ws, r.to.path>>] = r.to.text]
    BY DEF Carried
  <2>2. QED
    BY <1>1, <2>1 DEF DaemonTypeOK
<1>4. /\ Len(jobs) \in Nat /\ DOMAIN jobs = 1 .. Len(jobs)
      /\ \A j \in 1 .. Len(jobs) : jobs[j] \in JobState /\ jobs[j].output \in Int
  <2>1. /\ Len(jobs) \in Nat /\ DOMAIN jobs = 1 .. Len(jobs)
        /\ \A j \in 1 .. Len(jobs) : jobs[j] \in JobState
    BY DEF DaemonTypeOK
  <2>2. \A s \in JobState : s.output \in Outputs
    BY DEF JobState
  <2>3. Outputs \subseteq Int
    BY <1>0 DEF Outputs
  <2>4. QED
    BY <2>1, <2>2, <2>3
<1>5. CASE jobs' = jobs
  BY <1>2, <1>3, <1>4, <1>5 DEF DaemonTypeOK, Grows
<1>6. CASE jobs' = Started(r) /\ r.what # "new workspace" /\ Len(jobs) < MaxJobs
  <2> DEFINE job == [ws |-> r.to.ws, state |-> "running", output |-> 0]
  <2>1. 0 \in Outputs
    BY <1>0 DEF Outputs
  <2>2. job \in JobState
    BY <1>1, <1>6, <2>1 DEF JobState
  <2> HIDE DEF job
  <2>3. /\ Append(jobs, job) \in Seq(JobState)
        /\ Len(Append(jobs, job)) = Len(jobs) + 1
        /\ \A j \in 1 .. Len(jobs) : Append(jobs, job)[j] = jobs[j]
    BY <2>2, AppendProperties DEF DaemonTypeOK
  <2>4. jobs' = Append(jobs, job)
    BY <1>6 DEF Started, job
  <2>5. Len(jobs') <= MaxJobs
    <3>1. Len(jobs) < MaxJobs
      BY <1>6
    <3>2. Len(jobs) + 1 <= MaxJobs
      BY <1>0, <1>4, <3>1
    <3>3. QED
      BY <2>3, <2>4, <3>2
  <2>6. Grows
    BY <1>4, <2>3, <2>4 DEF Grows
  <2>7. QED
    BY <1>2, <1>3, <2>3, <2>4, <2>5, <2>6 DEF DaemonTypeOK
<1>7. CASE jobs' = Cancelled(r)
  <2>1. \A j \in 1 .. Len(jobs) : jobs'[j] \in JobState /\ jobs'[j].output = jobs[j].output
    BY <1>4, <1>7 DEF Cancelled, JobState
  <2>2. jobs' = [j \in 1 .. Len(jobs) |-> jobs'[j]]
    BY <1>4, <1>7 DEF Cancelled
  <2>3. jobs' \in [1 .. Len(jobs) -> JobState]
    BY <2>1, <2>2
  <2>4. jobs' \in Seq(JobState) /\ Len(jobs') = Len(jobs)
    BY <1>4, <2>3
  <2>5. QED
    BY <1>2, <1>3, <1>4, <2>1, <2>4 DEF DaemonTypeOK, Grows
<1>8. QED
  BY <1>5, <1>6, <1>7, JobsAfter

-----------------------------------------------------------------------------
(* The invariant.                                                          *)

\* The first n pieces of an output.
Pieces(n) == [i \in 1 .. n |-> i]

\* How many pieces the caller has, when c is the cursor it holds.
Heard(c) == IF c = -1 THEN 0 ELSE c

\* A cursor is passed back unchanged, with the job it came with.
CursorIsBack ==
  call.cursor # -1 => /\ call.cmd \in Polls /\ MeantJob(call) \in Job
                      /\ call.cursor = cursor[MeantJob(call)]

\* The request that is waited for is the one that the call means.
RequestIsMeant ==
  request # NoRequest =>
    /\ Move(<<>>).do = "send" /\ request.what = Move(<<>>).request.what
    /\ request.to.job = MeantJob(call) /\ request.to.cursor = call.cursor

AllAddressed == /\ request # NoRequest => Addressed(request)
                /\ \A r \in late : Addressed(r)

\* A reply about the output of a job begins where the cursor is, and says
\* nothing but what the job has said.
Answered == told = "success" \/ (request # NoRequest /\ back # NoReply /\ back.status = 200)
ReplyContinues ==
  call.cmd \in Polls /\ Answered =>
    /\ MeantJob(call) \in 1 .. Len(jobs)
    /\ back.from = Heard(call.cursor) /\ back.from <= back.upto
    /\ back.upto <= jobs[MeantJob(call)].output

\* A call that has sent nothing has no reply.
NoReplyAhead == told = "none" /\ request = NoRequest => back = NoReply

\* What the caller has is what its cursor says, and has been said.
GotIsHeard ==
  \A j \in Job : /\ got[j] = Pieces(Heard(cursor[j]))
                 /\ cursor[j] > 0 => /\ j \in 1 .. Len(jobs)
                                     /\ cursor[j] <= jobs[j].output

\* No reply that is lost, and no request that is late, makes the caller miss a
\* piece of output or have it twice: what it holds, its cursor, the request and
\* the reply stay in step.
InStep == /\ CursorIsBack /\ RequestIsMeant /\ AllAddressed
          /\ ReplyContinues /\ NoReplyAhead /\ GotIsHeard

-----------------------------------------------------------------------------
(* Every step keeps the types.                                             *)

\* The bounds are numbers, and so are what they bound.
LEMMA BoundsAreNat ==
  /\ MaxOutput \in Nat /\ MaxJobs \in Nat
  /\ 0 \in Outputs /\ Outputs \subseteq Nat /\ Outputs \subseteq Cursors
  /\ -1 \in Cursors /\ Cursors \ {-1} \subseteq Outputs
  /\ Job \subseteq Nat \ {0} /\ 0 \in JobOrNone /\ JobOrNone \ {0} = Job
<1>1. MaxOutput \in Nat /\ MaxJobs \in Nat
  BY WorkspaceAssumption
<1>2. QED
  BY <1>1 DEF Outputs, Cursors, Job, JobOrNone

\* The caller begins in step, with nothing heard.
LEMMA InitTypes == Init => WTypeOK /\ InStep
<1> SUFFICES ASSUME Init PROVE WTypeOK /\ InStep
  OBVIOUS
<1> USE BoundsAreNat
<1>1. PluginTypeOK
  <2>1. Unset \in Params
    BY DEF Unset, Params, WorkspaceOrNone, PathOrNone, TextOrNone
  <2>2. NoReply \in [status : {-1, 200, 500}, from : Outputs, upto : Outputs]
    BY DEF NoReply
  <2>3. Unset.cmd = "none"
    BY DEF Unset
  <2>4. QED
    BY <2>1, <2>2, <2>3 DEF Init, PluginTypeOK
<1>2. DaemonTypeOK
  <2>1. spaces \in [Workspaces -> {"unknown", "live", "destroyed"}]
    BY DEF Init
  <2>2. files \in [Workspaces \X Paths -> TextOrNone]
    BY DEF Init, TextOrNone
  <2>3. jobs \in Seq(JobState) /\ Len(jobs) = 0
    BY EmptySeq DEF Init
  <2>4. QED
    BY <2>1, <2>2, <2>3 DEF DaemonTypeOK
<1>3. CallerTypeOK
  <2>1. got \in [Job -> Seq(Outputs)]
    BY EmptySeq DEF Init
  <2>2. QED
    BY <2>1 DEF Init, CallerTypeOK
<1>4. InStep
  <2>1. Pieces(0) = <<>>
    BY DEF Pieces
  <2>2. CursorIsBack
    BY DEF Init, CursorIsBack, Unset
  <2>3. RequestIsMeant /\ AllAddressed
    BY DEF Init, RequestIsMeant, AllAddressed
  <2>4. ReplyContinues
    <3>1. ~Answered
      BY DEF Init, Answered
    <3>2. QED
      BY <3>1 DEF ReplyContinues
  <2>5. GotIsHeard
    <3>1. \A j \in Job : got[j] = <<>> /\ cursor[j] = -1
      BY DEF Init
    <3>2. Heard(-1) = 0 /\ ~(-1 > 0)
      BY DEF Heard
    <3>3. QED
      BY <2>1, <3>1, <3>2 DEF GotIsHeard
  <2>6. NoReplyAhead
    BY DEF Init, NoReplyAhead
  <2>7. QED
    BY <2>2, <2>3, <2>4, <2>5, <2>6 DEF InStep
<1>5. QED
  BY <1>1, <1>2, <1>3, <1>4 DEF WTypeOK

\* What a call needs to know of the request it sends.
LEMMA SentIsMeant ==
  ASSUME PluginTypeOK, call # Unset, Move(<<>>).do = "send", SendRequest
  PROVE  /\ request' \in Requests /\ Addressed(request')
         /\ request'.what = Move(<<>>).request.what
         /\ request'.to.job = MeantJob(call) /\ request'.to.cursor = call.cursor
<1> DEFINE sent == Move(<<>>).request
           d    == Details([call EXCEPT !.cmd = Canonical(call.cmd)], TimeoutOption)
<1>1. call \in Params
  BY DEF PluginTypeOK
<1>2. Canonical(call.cmd) \in Commands \cup {"none"}
  BY <1>1 DEF Canonical, Commands, Params
<1>3. /\ d \in [ws : WorkspaceOrNone, path : PathOrNone, text : TextOrNone,
                job : JobOrNone, cursor : Cursors, net : {"yes", "no"}, limit : Nat]
      /\ d.ws = call.workspace_id /\ d.job = MeantJob(call) /\ d.cursor = call.cursor
  BY <1>1, <1>2, DetailsAreMeant
<1>4. /\ sent.effect \in {"read", "change", "delete"} /\ sent.what \in Subjects
      /\ sent.what # "new workspace" => call.workspace_id \in Workspaces
  BY <1>1, MoveIsOnce
<1>5. request' = [effect |-> sent.effect, what |-> sent.what, to |-> d]
  BY DEF SendRequest
<1> HIDE DEF sent, d
<1>6. QED
  BY <1>3, <1>4, <1>5 DEF Requests, Addressed, sent

\* Jobs that grow have said at least what they had.
LEMMA GrownJobs ==
  ASSUME DaemonTypeOK, DaemonTypeOK', Grows
  PROVE  /\ Len(jobs) \in Nat /\ Len(jobs') \in Nat /\ Len(jobs) <= Len(jobs')
         /\ \A j \in 1 .. Len(jobs) : /\ jobs[j].output \in Nat /\ jobs'[j].output \in Nat
                                     /\ jobs'[j].output >= jobs[j].output
<1>1. \A s \in JobState : s.output \in Nat
  BY BoundsAreNat DEF JobState
<1>2. /\ Len(jobs) \in Nat /\ Len(jobs') \in Nat
      /\ \A j \in 1 .. Len(jobs) : jobs[j] \in JobState
      /\ \A j \in 1 .. Len(jobs') : jobs'[j] \in JobState
  BY DEF DaemonTypeOK
<1>3. QED
  BY <1>1, <1>2 DEF Grows

\* What the caller has of them is still what they have said.
LEMMA HeardGrows ==
  ASSUME DaemonTypeOK, CallerTypeOK, GotIsHeard, DaemonTypeOK', Grows,
         UNCHANGED <<got, cursor>>
  PROVE  GotIsHeard'
<1>1. ASSUME NEW j \in Job
      PROVE  /\ got[j] = Pieces(Heard(cursor[j]))
             /\ cursor[j] > 0 => j \in 1 .. Len(jobs') /\ cursor[j] <= jobs'[j].output
  <2>1. cursor[j] \in Int
    BY DEF CallerTypeOK, Cursors
  <2>2. /\ got[j] = Pieces(Heard(cursor[j]))
        /\ cursor[j] > 0 => j \in 1 .. Len(jobs) /\ cursor[j] <= jobs[j].output
    BY DEF GotIsHeard
  <2>3. ASSUME cursor[j] > 0
        PROVE  j \in 1 .. Len(jobs') /\ cursor[j] <= jobs'[j].output
    <3>1. /\ j \in 1 .. Len(jobs') /\ jobs'[j].output >= jobs[j].output
          /\ jobs[j].output \in Nat /\ jobs'[j].output \in Nat
      BY GrownJobs, <2>2, <2>3
    <3>2. ASSUME NEW a \in Int, NEW b \in Nat, NEW c \in Nat, a <= b, c >= b
          PROVE  a <= c
      BY <3>2
    <3>3. QED
      BY <2>1, <2>2, <2>3, <3>1, <3>2
  <2>4. QED
    BY <2>2, <2>3
<1>2. QED
  BY <1>1 DEF GotIsHeard, Pieces, Heard

\* The daemon may do what it likes to everything but the output of the jobs.
LEMMA DaemonSteps ==
  ASSUME WTypeOK, InStep, DaemonTypeOK', Grows,
         UNCHANGED <<call, request, back, told, callerVars>>,
         late' \subseteq late, overtaken' \in BOOLEAN
  PROVE  WTypeOK' /\ InStep'
<1> USE BoundsAreNat
<1>1. /\ UNCHANGED <<call, request, back, told>>
      /\ UNCHANGED <<session, got, cursor, targets>>
  BY DEF callerVars
<1>2. PluginTypeOK'
  BY <1>1 DEF WTypeOK, PluginTypeOK
<1>3. CallerTypeOK'
  BY <1>1 DEF WTypeOK, CallerTypeOK
<1>4. CursorIsBack'
  BY <1>1 DEF InStep, CursorIsBack, MeantJob
<1>5. RequestIsMeant'
  BY <1>1 DEF InStep, RequestIsMeant, MeantJob, Move, Context
<1>6. AllAddressed'
  BY <1>1 DEF InStep, AllAddressed, Addressed
<1>7. /\ Len(jobs) \in Nat /\ Len(jobs') \in Nat /\ Len(jobs) <= Len(jobs')
      /\ \A j \in 1 .. Len(jobs) : /\ jobs[j].output \in Nat /\ jobs'[j].output \in Nat
                                  /\ jobs'[j].output >= jobs[j].output
  BY GrownJobs DEF WTypeOK
<1>8. ReplyContinues'
  <2>1. SUFFICES ASSUME call.cmd \in Polls, Answered
                 PROVE  /\ MeantJob(call) \in 1 .. Len(jobs')
                        /\ back.from = Heard(call.cursor) /\ back.from <= back.upto
                        /\ back.upto <= jobs'[MeantJob(call)].output
    BY <1>1 DEF ReplyContinues, Answered, MeantJob, Heard
  <2>2. /\ MeantJob(call) \in 1 .. Len(jobs)
        /\ back.from = Heard(call.cursor) /\ back.from <= back.upto
        /\ back.upto <= jobs[MeantJob(call)].output
    BY <2>1 DEF InStep, ReplyContinues
  <2>3. back.upto \in Outputs
    <3>1. back \in [status : {-1, 200, 500}, from : Outputs, upto : Outputs]
      BY DEF WTypeOK, PluginTypeOK
    <3>2. QED
      BY <3>1
  <2> DEFINE j == MeantJob(call)
  <2>4. /\ j \in 1 .. Len(jobs') /\ jobs'[j].output >= jobs[j].output
        /\ jobs[j].output \in Nat /\ jobs'[j].output \in Nat
    BY <1>7, <2>2
  <2>5. back.upto <= jobs[j].output
    BY <2>2
  <2> HIDE DEF j
  <2>7. ASSUME NEW a \in Nat, NEW b \in Nat, NEW c \in Nat, a <= b, c >= b
        PROVE  a <= c
    BY <2>7
  <2>8. back.upto <= jobs'[j].output
    BY <2>3, <2>4, <2>5, <2>7
  <2>6. QED
    BY <2>2, <2>4, <2>8 DEF j
<1>9. GotIsHeard'
  BY <1>1, HeardGrows DEF WTypeOK, InStep
<1>10. NoReplyAhead'
  BY <1>1 DEF InStep, NoReplyAhead
<1>11. QED
  BY <1>2, <1>3, <1>4, <1>5, <1>6, <1>8, <1>9, <1>10 DEF WTypeOK, InStep

\* A daemon that does nothing keeps what it has.
LEMMA NothingGrows ==
  ASSUME DaemonTypeOK, UNCHANGED <<spaces, files, jobs>>
  PROVE  DaemonTypeOK' /\ Grows
<1>1. \A s \in JobState : s.output \in Nat
  BY BoundsAreNat DEF JobState
<1>2. \A j \in 1 .. Len(jobs) : jobs[j].output \in Nat
  BY <1>1 DEF DaemonTypeOK
<1>3. QED
  BY <1>2 DEF DaemonTypeOK, Grows

\* A job that says something says one piece more.
LEMMA WorkGrows ==
  ASSUME WTypeOK, InStep, Work
  PROVE  WTypeOK' /\ InStep'
<1> USE BoundsAreNat
<1>1. PICK j \in DOMAIN jobs : /\ jobs[j].output < MaxOutput
                              /\ jobs' = [jobs EXCEPT ![j].output = @ + 1]
  BY DEF Work
<1>2. /\ Len(jobs) \in Nat /\ DOMAIN jobs = 1 .. Len(jobs) /\ Len(jobs) <= MaxJobs
      /\ \A i \in 1 .. Len(jobs) : jobs[i] \in JobState
  BY DEF WTypeOK, DaemonTypeOK
<1>3. \A s \in JobState : s.output \in Outputs
  BY DEF JobState
<1>4. jobs[j].output + 1 \in Outputs
  <2>1. jobs[j].output \in Outputs
    BY <1>2, <1>3
  <2>2. QED
    BY <1>1, <2>1 DEF Outputs
<1>5. [jobs[j] EXCEPT !.output = jobs[j].output + 1] \in JobState
  BY <1>2, <1>4 DEF JobState
<1>6. jobs' = [jobs EXCEPT ![j] = [jobs[j] EXCEPT !.output = jobs[j].output + 1]]
  BY <1>1
<1>7. jobs' \in Seq(JobState) /\ Len(jobs') = Len(jobs)
  BY <1>2, <1>5, <1>6, ExceptSeq DEF WTypeOK, DaemonTypeOK
<1>8. Grows
  <2>1. \A i \in 1 .. Len(jobs) : jobs[i].output \in Nat
    BY <1>2, <1>3
  <2>2. jobs'[j].output = jobs[j].output + 1
    BY <1>1, <1>2, <1>5, <1>6 DEF JobState
  <2>3. \A i \in 1 .. Len(jobs) : i # j => jobs'[i] = jobs[i]
    BY <1>2, <1>6
  <2>4. QED
    BY <1>2, <1>7, <2>1, <2>2, <2>3 DEF Grows
<1>9. DaemonTypeOK'
  BY <1>2, <1>7 DEF Work, WTypeOK, DaemonTypeOK
<1>10. /\ UNCHANGED <<call, request, back, told, callerVars>>
       /\ late' \subseteq late /\ overtaken' \in BOOLEAN
  BY DEF Work, pluginVars, WTypeOK, PluginTypeOK
<1>11. QED
  BY <1>8, <1>9, <1>10, DaemonSteps

\* A late request that is carried out, or lost.
LEMMA ServeLateKeeps ==
  ASSUME WTypeOK, InStep, ServeLate
  PROVE  WTypeOK' /\ InStep'
<1>1. PICK r \in late :
        /\ late' = late \ {r}
        /\ \/ /\ Possible(r) /\ Carried(r)
              /\ overtaken' = (overtaken \/ (call # Unset /\ files' # files))
           \/ UNCHANGED <<daemonVars, overtaken>>
  BY DEF ServeLate
<1>2. r \in Requests /\ Addressed(r)
  BY DEF WTypeOK, PluginTypeOK, InStep, AllAddressed
<1>3. DaemonTypeOK' /\ Grows
  <2>1. CASE Possible(r) /\ Carried(r)
    BY <1>2, <2>1, CarriedKeeps DEF WTypeOK
  <2>2. CASE UNCHANGED daemonVars
    BY <2>2, NothingGrows DEF WTypeOK, daemonVars
  <2>3. QED
    BY <1>1, <2>1, <2>2
<1>4. /\ UNCHANGED <<call, request, back, told, callerVars>>
      /\ late' \subseteq late
  BY <1>1 DEF ServeLate
<1>5. overtaken' \in BOOLEAN
  BY <1>1 DEF WTypeOK, PluginTypeOK
<1>6. QED
  BY <1>3, <1>4, <1>5, DaemonSteps

-----------------------------------------------------------------------------
(* The steps of the caller and of the plugin.                              *)

\* The caller begins a call.
LEMMA BeginKeeps ==
  ASSUME WTypeOK, InStep, Begin
  PROVE  WTypeOK' /\ InStep'
<1>1. /\ told = "none" /\ request = NoRequest
      /\ UNCHANGED <<request, back, told, overtaken, late>>
      /\ UNCHANGED <<spaces, files, jobs>> /\ UNCHANGED <<session, got, cursor>>
  BY DEF Begin, WTypeOK, PluginTypeOK, daemonVars
<1>2. PICK cmd \in session : \E p \in Inputs(cmd) :
         /\ Sensible(p) /\ call' = p
         /\ targets' = targets \cup
               (CASE cmd \in Cancels           -> {<<p.workspace_id, MeantJob(p)>>}
                  [] cmd = "destroy_workspace" -> {<<p.workspace_id, 0>>}
                  [] OTHER                     -> {})
  BY DEF Begin
<1>3. PICK p \in Inputs(cmd) :
         /\ Sensible(p) /\ call' = p
         /\ targets' = targets \cup
               (CASE cmd \in Cancels           -> {<<p.workspace_id, MeantJob(p)>>}
                  [] cmd = "destroy_workspace" -> {<<p.workspace_id, 0>>}
                  [] OTHER                     -> {})
  BY <1>2
<1>4. cmd \in Commands
  BY WorkspaceAssumption DEF WTypeOK, CallerTypeOK
<1>5. p \in Params /\ p.cmd = cmd /\ (p.cursor # -1 => cmd \in Polls)
  BY <1>4, InputsAreParams
<1>6. p.workspace_id \in WorkspaceOrNone /\ MeantJob(p) \in JobOrNone
  BY <1>5 DEF Params, MeantJob
<1>7. PluginTypeOK'
  BY <1>1, <1>3, <1>5 DEF WTypeOK, PluginTypeOK
<1>8. DaemonTypeOK'
  BY <1>1 DEF WTypeOK, DaemonTypeOK
<1>9. CallerTypeOK'
  <2>1. targets' \subseteq targets \cup {<<p.workspace_id, MeantJob(p)>>, <<p.workspace_id, 0>>}
    BY <1>3
  <2>2. <<p.workspace_id, MeantJob(p)>> \in WorkspaceOrNone \X JobOrNone
    BY <1>6
  <2>3. <<p.workspace_id, 0>> \in WorkspaceOrNone \X JobOrNone
    BY <1>6, BoundsAreNat
  <2>4. QED
    BY <1>1, <2>1, <2>2, <2>3 DEF WTypeOK, CallerTypeOK
<1>10. CursorIsBack'
  <2>1. SUFFICES ASSUME p.cursor # -1
                 PROVE  /\ p.cmd \in Polls /\ MeantJob(p) \in Job
                        /\ p.cursor = cursor[MeantJob(p)]
    BY <1>1, <1>3 DEF CursorIsBack, MeantJob
  <2>2. QED
    BY <2>1, <1>3, <1>5, <1>6, BoundsAreNat DEF Sensible
<1>11. RequestIsMeant' /\ AllAddressed' /\ NoReplyAhead'
  BY <1>1 DEF InStep, RequestIsMeant, AllAddressed, NoReplyAhead, Addressed
<1>12. ReplyContinues'
  BY <1>1 DEF ReplyContinues, Answered
<1>13. GotIsHeard'
  BY <1>1 DEF InStep, GotIsHeard
<1>14. QED
  BY <1>7, <1>8, <1>9, <1>10, <1>11, <1>12, <1>13 DEF WTypeOK, InStep

\* The plugin sends the call's request.
LEMMA SendRequestKeeps ==
  ASSUME WTypeOK, InStep, SendRequest
  PROVE  WTypeOK' /\ InStep'
<1>1. /\ call # Unset /\ told = "none" /\ request = NoRequest
      /\ Move(<<>>).do = "send" /\ back = NoReply
      /\ UNCHANGED <<call, back, told, overtaken, late>>
      /\ UNCHANGED <<spaces, files, jobs>> /\ UNCHANGED <<session, got, cursor, targets>>
  BY DEF SendRequest, InStep, NoReplyAhead, daemonVars, callerVars
<1>2. /\ request' \in Requests /\ Addressed(request')
      /\ request'.what = Move(<<>>).request.what
      /\ request'.to.job = MeantJob(call) /\ request'.to.cursor = call.cursor
  BY <1>1, SentIsMeant DEF WTypeOK
<1>3. WTypeOK'
  BY <1>1, <1>2 DEF WTypeOK, PluginTypeOK, DaemonTypeOK, CallerTypeOK
<1>4. CursorIsBack'
  BY <1>1 DEF InStep, CursorIsBack, MeantJob
<1>5. RequestIsMeant'
  BY <1>1, <1>2 DEF RequestIsMeant, MeantJob, Move, Context
<1>6. AllAddressed'
  BY <1>1, <1>2 DEF InStep, AllAddressed, Addressed
<1>7. ReplyContinues' /\ NoReplyAhead'
  BY <1>1 DEF ReplyContinues, NoReplyAhead, Answered
<1>8. GotIsHeard'
  BY <1>1 DEF InStep, GotIsHeard
<1>9. QED
  BY <1>3, <1>4, <1>5, <1>6, <1>7, <1>8 DEF InStep

\* The plugin refuses the call.
LEMMA RefuseKeeps ==
  ASSUME WTypeOK, InStep, Refuse
  PROVE  WTypeOK' /\ InStep'
<1>1. /\ call # Unset /\ told = "none" /\ request = NoRequest /\ told' = "refused"
      /\ UNCHANGED <<call, request, back, overtaken, late>>
      /\ UNCHANGED <<spaces, files, jobs>> /\ UNCHANGED <<session, got, cursor, targets>>
  BY DEF Refuse, daemonVars, callerVars
<1>2. WTypeOK'
  BY <1>1 DEF WTypeOK, PluginTypeOK, DaemonTypeOK, CallerTypeOK
<1>3. CursorIsBack'
  BY <1>1 DEF InStep, CursorIsBack, MeantJob
<1>4. RequestIsMeant' /\ AllAddressed'
  BY <1>1 DEF InStep, RequestIsMeant, AllAddressed, Addressed
<1>5. ReplyContinues' /\ NoReplyAhead'
  BY <1>1 DEF ReplyContinues, NoReplyAhead, Answered
<1>6. GotIsHeard'
  BY <1>1 DEF InStep, GotIsHeard
<1>7. QED
  BY <1>2, <1>3, <1>4, <1>5, <1>6 DEF InStep

\* What a reply, or none, makes of the call.
LEMMA OutcomeIsOfReply ==
  ASSUME WTypeOK, InStep, request # NoRequest, NEW x
  PROVE  /\ Move(<<x>>).outcome \in {"success", "failure"}
         /\ Move(<<x>>).outcome = "success" <=> x.status \in 200 .. 299
<1>1. Move(<<>>).do = "send" /\ call \in Params
  BY DEF InStep, RequestIsMeant, WTypeOK, PluginTypeOK
<1>2. Move(<<x>>).outcome = HandleResponse(x)
  BY <1>1, MoveIsOnce
<1>3. QED
  BY <1>2 DEF HandleResponse, Is2xx

\* The client gives up.
LEMMA TimeOutKeeps ==
  ASSUME WTypeOK, InStep, TimeOut
  PROVE  WTypeOK' /\ InStep'
<1>1. /\ request # NoRequest /\ request' = NoRequest /\ back' = NoReply
      /\ UNCHANGED <<call, overtaken>> /\ call # Unset
      /\ UNCHANGED <<spaces, files, jobs>> /\ UNCHANGED <<session, got, cursor, targets>>
  BY DEF TimeOut, daemonVars, callerVars, WTypeOK, PluginTypeOK
<1>2. told' = "failure"
  <2>1. told' = Move(<<Thrown>>).outcome
    BY DEF TimeOut
  <2>2. Thrown.status \notin 200 .. 299
    BY DEF Thrown
  <2>3. QED
    BY <1>1, <2>1, <2>2, OutcomeIsOfReply
<1>3. late' = late \/ (late' = late \cup {request} /\ Changes(request))
  BY DEF TimeOut
<1>4. request \in Requests
  BY <1>1 DEF WTypeOK, PluginTypeOK
<1>5. late' \subseteq Requests /\ \A r \in late' : Changes(r)
  BY <1>3, <1>4 DEF WTypeOK, PluginTypeOK
<1>6. NoReply \in [status : {-1, 200, 500}, from : Outputs, upto : Outputs]
  BY BoundsAreNat DEF NoReply
<1>7. PluginTypeOK'
  BY <1>1, <1>2, <1>5, <1>6 DEF WTypeOK, PluginTypeOK
<1>8. DaemonTypeOK' /\ CallerTypeOK'
  BY <1>1 DEF WTypeOK, DaemonTypeOK, CallerTypeOK
<1>9. CursorIsBack'
  BY <1>1 DEF InStep, CursorIsBack, MeantJob
<1>10. RequestIsMeant' /\ NoReplyAhead'
  BY <1>1 DEF RequestIsMeant, NoReplyAhead
<1>11. AllAddressed'
  BY <1>1, <1>3 DEF InStep, AllAddressed, Addressed
<1>12. ReplyContinues'
  BY <1>1, <1>2 DEF ReplyContinues, Answered
<1>13. GotIsHeard'
  BY <1>1 DEF InStep, GotIsHeard
<1>14. QED
  BY <1>7, <1>8, <1>9, <1>10, <1>11, <1>12, <1>13 DEF WTypeOK, InStep

\* The plugin answers from the reply.
LEMMA DeliverKeeps ==
  ASSUME WTypeOK, InStep, Deliver
  PROVE  WTypeOK' /\ InStep'
<1>1. /\ request # NoRequest /\ back # NoReply /\ request' = NoRequest
      /\ UNCHANGED <<call, overtaken, late>> /\ call # Unset
      /\ UNCHANGED <<spaces, files, jobs>> /\ UNCHANGED <<session, got, cursor, targets>>
  BY DEF Deliver, daemonVars, callerVars, WTypeOK, PluginTypeOK
<1>2. /\ told' \in {"success", "failure"}
      /\ told' = "success" <=> back.status \in 200 .. 299
      /\ back' = IF told' = "success" THEN back ELSE NoReply
  BY <1>1, OutcomeIsOfReply DEF Deliver
<1>3. /\ back \in [status : {-1, 200, 500}, from : Outputs, upto : Outputs]
      /\ NoReply \in [status : {-1, 200, 500}, from : Outputs, upto : Outputs]
  BY BoundsAreNat DEF NoReply, WTypeOK, PluginTypeOK
<1>4. told' = "success" => back' = back /\ Answered
  <2>1. back.status \in {-1, 200, 500}
    BY <1>3
  <2>2. back.status \in 200 .. 299 => back.status = 200
    BY <2>1
  <2>3. QED
    BY <1>1, <1>2, <2>2 DEF Answered
<1>5. PluginTypeOK'
  <2>1. back' \in [status : {-1, 200, 500}, from : Outputs, upto : Outputs]
    BY <1>2, <1>3
  <2>2. QED
    BY <1>1, <1>2, <2>1 DEF WTypeOK, PluginTypeOK
<1>6. DaemonTypeOK' /\ CallerTypeOK'
  BY <1>1 DEF WTypeOK, DaemonTypeOK, CallerTypeOK
<1>7. CursorIsBack'
  BY <1>1 DEF InStep, CursorIsBack, MeantJob
<1>8. RequestIsMeant' /\ AllAddressed' /\ NoReplyAhead'
  BY <1>1, <1>2 DEF InStep, RequestIsMeant, AllAddressed, NoReplyAhead, Addressed
<1>9. ReplyContinues'
  <2>1. ASSUME Answered', call.cmd \in Polls
        PROVE  back' = back /\ Answered
    BY <1>1, <1>4, <2>1 DEF Answered
  <2>2. QED
    BY <1>1, <2>1 DEF InStep, ReplyContinues, MeantJob, Heard
<1>10. GotIsHeard'
  BY <1>1 DEF InStep, GotIsHeard
<1>11. QED
  BY <1>5, <1>6, <1>7, <1>8, <1>9, <1>10 DEF WTypeOK, InStep

\* The daemon's reply to get_job goes on where the cursor is.
LEMMA ReplyIsNext ==
  ASSUME WTypeOK, InStep, request # NoRequest, Possible(request), Carried(request)
  PROVE  /\ Reply(request) \in [status : {-1, 200, 500}, from : Outputs, upto : Outputs]
         /\ call.cmd \in Polls =>
              /\ MeantJob(call) \in 1 .. Len(jobs')
              /\ Reply(request).from = Heard(call.cursor)
              /\ Reply(request).from <= Reply(request).upto
              /\ Reply(request).upto <= jobs'[MeantJob(call)].output
<1> DEFINE j == MeantJob(call)
<1>1. /\ Move(<<>>).do = "send" /\ request.what = Move(<<>>).request.what
      /\ request.to.job = j /\ request.to.cursor = call.cursor
  BY DEF InStep, RequestIsMeant
<1>2. call \in Params /\ call.cursor \in Cursors
  BY DEF WTypeOK, PluginTypeOK, Params
<1>3. request.what = "output" <=> call.cmd \in Polls
  BY <1>1, <1>2, MoveIsOnce
<1> HIDE DEF j
<1>4. CASE request.what # "output"
  <2>1. Reply(request) = [status |-> 200, from |-> 0, upto |-> 0]
    BY <1>4 DEF Reply
  <2>2. QED
    BY <1>3, <1>4, <2>1, BoundsAreNat
<1>5. CASE request.what = "output"
  <2>1. j \in DOMAIN jobs
    BY <1>1, <1>5 DEF Possible
  <2>2. jobs' = jobs
    BY <1>5 DEF Carried
  <2>3. /\ DOMAIN jobs = 1 .. Len(jobs) /\ Len(jobs) \in Nat /\ Len(jobs) <= MaxJobs
        /\ jobs[j] \in JobState
    BY <2>1 DEF WTypeOK, DaemonTypeOK
  <2>4. jobs[j].output \in Outputs /\ jobs[j].output \in Nat
    BY <2>3, BoundsAreNat DEF JobState
  <2>5. j \in Job
    BY <2>1, <2>3, BoundsAreNat DEF Job
  <2>6. /\ Heard(call.cursor) \in Outputs
        /\ Heard(call.cursor) <= jobs[j].output
    <3>1. CASE call.cursor = -1
      BY <3>1, <2>4, BoundsAreNat DEF Heard
    <3>2. CASE call.cursor # -1
      <4>1. call.cursor \in Outputs /\ call.cursor \in Nat
        BY <1>2, <3>2, BoundsAreNat
      <4>2. call.cursor = cursor[j]
        BY <3>2 DEF InStep, CursorIsBack, j
      <4>3. cursor[j] > 0 => cursor[j] <= jobs[j].output
        BY <2>5 DEF InStep, GotIsHeard
      <4>4. call.cursor <= jobs[j].output
        BY <2>4, <4>1, <4>2, <4>3
      <4>5. QED
        BY <3>2, <4>1, <4>4 DEF Heard
    <3>3. QED
      BY <3>1, <3>2
  <2>7. Reply(request) = [status |-> 200, from |-> Heard(call.cursor),
                          upto |-> jobs[j].output]
    BY <1>1, <1>5 DEF Reply, Heard
  <2>8. jobs[j].output <= jobs[j].output
    BY <2>4
  <2>9. QED
    BY <2>1, <2>2, <2>3, <2>4, <2>6, <2>7, <2>8 DEF j
<1>6. QED
  BY <1>4, <1>5

\* The daemon carries the request out, or fails.
LEMMA ServeKeeps ==
  ASSUME WTypeOK, InStep, Serve
  PROVE  WTypeOK' /\ InStep'
<1>1. /\ request # NoRequest /\ call # Unset /\ told = "none"
      /\ UNCHANGED <<call, request, told, overtaken, late>>
      /\ UNCHANGED <<session, got, cursor, targets>>
  BY DEF Serve, callerVars, WTypeOK, PluginTypeOK
<1>2. \/ Possible(request) /\ Carried(request) /\ back' = Reply(request)
      \/ UNCHANGED <<spaces, files, jobs>> /\ back' = [status |-> 500, from |-> 0, upto |-> 0]
  BY DEF Serve, daemonVars
<1>3. request \in Requests /\ Addressed(request)
  BY <1>1 DEF WTypeOK, PluginTypeOK, InStep, AllAddressed
<1>4. DaemonTypeOK' /\ Grows
  BY <1>2, <1>3, CarriedKeeps, NothingGrows DEF WTypeOK
<1>5. back' \in [status : {-1, 200, 500}, from : Outputs, upto : Outputs]
  BY <1>1, <1>2, ReplyIsNext, BoundsAreNat
<1>6. WTypeOK'
  BY <1>1, <1>4, <1>5 DEF WTypeOK, PluginTypeOK, CallerTypeOK
<1>7. CursorIsBack'
  BY <1>1 DEF InStep, CursorIsBack, MeantJob
<1>8. RequestIsMeant'
  BY <1>1 DEF InStep, RequestIsMeant, MeantJob, Move, Context
<1>9. AllAddressed' /\ NoReplyAhead'
  BY <1>1 DEF InStep, AllAddressed, NoReplyAhead, Addressed
<1>10. ReplyContinues'
  <2>1. CASE Possible(request) /\ Carried(request) /\ back' = Reply(request)
    <3>1. call.cmd \in Polls =>
              /\ MeantJob(call) \in 1 .. Len(jobs')
              /\ Reply(request).from = Heard(call.cursor)
              /\ Reply(request).from <= Reply(request).upto
              /\ Reply(request).upto <= jobs'[MeantJob(call)].output
      BY <1>1, <2>1, ReplyIsNext
    <3>2. QED
      BY <1>1, <2>1, <3>1 DEF ReplyContinues, MeantJob, Heard
  <2>2. CASE back' = [status |-> 500, from |-> 0, upto |-> 0]
    BY <1>1, <2>2 DEF ReplyContinues, Answered
  <2>3. QED
    BY <1>2, <2>1, <2>2
<1>11. GotIsHeard'
  BY <1>1, <1>4, HeardGrows DEF WTypeOK, InStep
<1>12. QED
  BY <1>6, <1>7, <1>8, <1>9, <1>10, <1>11 DEF InStep

\* Pieces are put together by number.
LEMMA PiecesGoOn ==
  ASSUME NEW n \in Nat, NEW m \in Nat, n <= m
  PROVE  /\ Pieces(n) \o [i \in 1 .. (m - n) |-> n + i] = Pieces(m)
         /\ n = 0 => [i \in 1 .. (m - n) |-> n + i] = Pieces(m)
         /\ m \in Outputs => Pieces(m) \in Seq(Outputs)
         /\ Len(Pieces(m)) = m
<1> DEFINE more == [i \in 1 .. (m - n) |-> n + i]
<1>1. /\ Pieces(n) \in Seq(Nat) /\ Len(Pieces(n)) = n
      /\ Pieces(m) \in Seq(Nat) /\ Len(Pieces(m)) = m
  BY DEF Pieces
<1>2. more \in Seq(Nat) /\ Len(more) = m - n
  <2>1. m - n \in Nat
    OBVIOUS
  <2>2. more \in [1 .. (m - n) -> Nat]
    OBVIOUS
  <2>3. QED
    BY <2>1, <2>2
<1>3. /\ Pieces(n) \o more \in Seq(Nat) /\ Len(Pieces(n) \o more) = m
      /\ \A i \in 1 .. m : (Pieces(n) \o more)[i] = IF i <= n THEN Pieces(n)[i] ELSE more[i - n]
  <2>1. n + (m - n) = m
    OBVIOUS
  <2> HIDE DEF more
  <2> DEFINE first == Pieces(n)
  <2>2. first \in Seq(Nat) /\ Len(first) = n
    BY <1>1
  <2> HIDE DEF first
  <2>3. /\ first \o more \in Seq(Nat)
        /\ Len(first \o more) = Len(first) + Len(more)
        /\ \A i \in 1 .. Len(first) + Len(more) : (first \o more)[i] =
               IF i <= Len(first) THEN first[i] ELSE more[i - Len(first)]
    BY <1>2, <2>2, ConcatProperties
  <2>4. Len(first) + Len(more) = m
    BY <1>2, <2>1, <2>2
  <2>5. QED
    BY <2>2, <2>3, <2>4 DEF first
<1>4. \A i \in 1 .. m : (Pieces(n) \o more)[i] = Pieces(m)[i]
  <2>1. SUFFICES ASSUME NEW i \in 1 .. m
                 PROVE  (IF i <= n THEN Pieces(n)[i] ELSE more[i - n]) = Pieces(m)[i]
    BY <1>3
  <2>2. QED
    BY DEF Pieces
<1>5. Pieces(n) \o more = Pieces(m)
  <2> HIDE DEF more
  <2>1. QED
    BY <1>1, <1>3, <1>4, SeqEqual
<1>6. n = 0 => more = Pieces(m)
  BY DEF Pieces
<1>7. m \in Outputs => Pieces(m) \in Seq(Outputs)
  <2>1. ASSUME m \in Outputs PROVE \A i \in 1 .. m : i \in Outputs
    BY <2>1, BoundsAreNat DEF Outputs
  <2>2. QED
    BY <2>1 DEF Pieces
<1>8. QED
  BY <1>1, <1>5, <1>6, <1>7

\* The caller takes the answer.
LEMMA EndKeeps ==
  ASSUME WTypeOK, InStep, End
  PROVE  WTypeOK' /\ InStep'
<1>1. /\ told # "none" /\ request = NoRequest
      /\ call' = Unset /\ told' = "none" /\ back' = NoReply /\ overtaken' = FALSE
      /\ UNCHANGED <<request, late, session, targets>> /\ UNCHANGED <<spaces, files, jobs>>
  BY DEF End, WTypeOK, PluginTypeOK, daemonVars
<1>2. PluginTypeOK'
  <2>1. Unset \in Params /\ Unset.cmd = "none"
    BY BoundsAreNat DEF Unset, Params, WorkspaceOrNone, PathOrNone, TextOrNone
  <2>2. NoReply \in [status : {-1, 200, 500}, from : Outputs, upto : Outputs]
    BY BoundsAreNat DEF NoReply
  <2>3. QED
    BY <1>1, <2>1, <2>2 DEF WTypeOK, PluginTypeOK
<1>3. DaemonTypeOK'
  BY <1>1 DEF WTypeOK, DaemonTypeOK
<1>4. /\ CursorIsBack' /\ RequestIsMeant' /\ AllAddressed' /\ NoReplyAhead'
  BY <1>1 DEF InStep, CursorIsBack, RequestIsMeant, AllAddressed, NoReplyAhead, Addressed, Unset
<1>5. ReplyContinues'
  BY <1>1 DEF ReplyContinues, Answered
<1>6. CASE UNCHANGED <<got, cursor>>
  <2>1. CallerTypeOK' /\ GotIsHeard'
    BY <1>1, <1>6 DEF WTypeOK, InStep, CallerTypeOK, GotIsHeard
  <2>2. QED
    BY <1>2, <1>3, <1>4, <1>5, <2>1 DEF WTypeOK, InStep
<1>7. CASE told = "success" /\ call.cmd \in Polls
  <2> DEFINE j     == MeantJob(call)
             n     == back.from
             m     == back.upto
             heard == [i \in 1 .. (m - n) |-> n + i]
  <2>1. /\ j \in 1 .. Len(jobs) /\ n = Heard(call.cursor) /\ n <= m
        /\ m <= jobs[j].output
    BY <1>7 DEF InStep, ReplyContinues, Answered
  <2>2. n \in Outputs /\ m \in Outputs /\ n \in Nat /\ m \in Nat
    <3>1. back \in [status : {-1, 200, 500}, from : Outputs, upto : Outputs]
      BY DEF WTypeOK, PluginTypeOK
    <3>2. QED
      BY <3>1, BoundsAreNat
  <2>3. j \in Job
    <3>1. Len(jobs) \in Nat /\ Len(jobs) <= MaxJobs
      BY DEF WTypeOK, DaemonTypeOK
    <3>2. QED
      BY <2>1, <3>1, BoundsAreNat DEF Job
  <2>4. /\ got' = [got EXCEPT ![j] = IF call.cursor = -1 THEN heard ELSE got[j] \o heard]
        /\ cursor' = [cursor EXCEPT ![j] = m]
    BY <1>7 DEF End
  <2>5. /\ got \in [Job -> Seq(Outputs)] /\ cursor \in [Job -> Cursors]
    BY DEF WTypeOK, CallerTypeOK
  <2>6. got'[j] = Pieces(m)
    <3>1. CASE call.cursor = -1
      <4>1. n = 0
        BY <2>1, <3>1 DEF Heard
      <4>2. heard = Pieces(m)
        BY <2>1, <2>2, <4>1, PiecesGoOn
      <4> HIDE DEF heard, j
      <4>3. QED
        BY <2>3, <2>4, <2>5, <3>1, <4>2
    <3>2. CASE call.cursor # -1
      <4>1. n = call.cursor /\ call.cursor = cursor[j]
        BY <2>1, <3>2 DEF Heard, InStep, CursorIsBack
      <4>2. got[j] = Pieces(Heard(cursor[j]))
        BY <2>3 DEF InStep, GotIsHeard
      <4>3. got[j] = Pieces(n)
        BY <3>2, <4>1, <4>2 DEF Heard
      <4>4. Pieces(n) \o heard = Pieces(m)
        BY <2>1, <2>2, PiecesGoOn
      <4> HIDE DEF heard, j, n
      <4>5. QED
        BY <2>3, <2>4, <2>5, <3>2, <4>3, <4>4
    <3>3. QED
      BY <3>1, <3>2
  <2> HIDE DEF j, n, m, heard
  <2>7. cursor'[j] = m /\ Heard(m) = m
    BY <2>2, <2>3, <2>4, <2>5 DEF Heard
  <2>8. \A i \in Job : i # j => got'[i] = got[i] /\ cursor'[i] = cursor[i]
    BY <2>4, <2>5
  <2>9. Pieces(m) \in Seq(Outputs)
    BY <2>2, PiecesGoOn
  <2>10. CallerTypeOK'
    <3>1. got' \in [Job -> Seq(Outputs)]
      <4>1. DOMAIN got' = Job /\ \A i \in Job : got'[i] \in Seq(Outputs)
        BY <2>4, <2>5, <2>6, <2>8, <2>9
      <4>2. got' = [i \in Job |-> got'[i]]
        BY <2>4, <2>5
      <4>3. QED
        BY <4>1, <4>2
    <3>2. cursor' \in [Job -> Cursors]
      <4>1. m \in Cursors
        BY <2>2, BoundsAreNat
      <4>2. QED
        BY <2>4, <2>5, <4>1
    <3>3. QED
      BY <1>1, <3>1, <3>2 DEF WTypeOK, CallerTypeOK
  <2>11. GotIsHeard'
    <3>1. ASSUME NEW i \in Job
          PROVE  /\ got'[i] = Pieces(Heard(cursor'[i]))
                 /\ cursor'[i] > 0 => i \in 1 .. Len(jobs) /\ cursor'[i] <= jobs[i].output
      <4>1. CASE i = j
        BY <2>1, <2>6, <2>7, <4>1 DEF m, j
      <4>2. CASE i # j
        BY <2>8, <4>2 DEF InStep, GotIsHeard
      <4>3. QED
        BY <4>1, <4>2
    <3>2. QED
      BY <1>1, <3>1 DEF GotIsHeard, Pieces, Heard
  <2>12. QED
    BY <1>2, <1>3, <1>4, <1>5, <2>10, <2>11 DEF WTypeOK, InStep
<1>8. QED
  BY <1>6, <1>7 DEF End

-----------------------------------------------------------------------------
(* The theorems.                                                           *)

\* Every step keeps the types and the caller in step.
LEMMA NextKeeps == WTypeOK /\ InStep /\ [Next]_vars => WTypeOK' /\ InStep'
<1> SUFFICES ASSUME WTypeOK, InStep, [Next]_vars PROVE WTypeOK' /\ InStep'
  OBVIOUS
<1>1. CASE UNCHANGED vars
  <2>1. /\ UNCHANGED <<call, request, back, told, overtaken, late, spaces, files, jobs>>
        /\ UNCHANGED callerVars
    BY <1>1 DEF vars, pluginVars, daemonVars
  <2>2. DaemonTypeOK' /\ Grows
    BY <2>1, NothingGrows DEF WTypeOK
  <2>3. overtaken' \in BOOLEAN
    BY <2>1 DEF WTypeOK, PluginTypeOK
  <2>4. QED
    BY <2>1, <2>2, <2>3, DaemonSteps
<1>2. QED
  BY <1>1, BeginKeeps, EndKeeps, SendRequestKeeps, RefuseKeeps, DeliverKeeps,
     TimeOutKeeps, ServeKeeps, ServeLateKeeps, WorkGrows DEF Next

\* Every variable has its type, for any sessions, workspaces, files and
\* bounds: a request is one of a call, and an answer ends it.
THEOREM WorkspaceTypeCorrect == Spec => []WTypeOK
<1>1. Init => WTypeOK /\ InStep
  BY InitTypes
<1>2. WTypeOK /\ InStep /\ [Next]_vars => WTypeOK' /\ InStep'
  BY NextKeeps
<1>3. QED
  BY <1>1, <1>2, PTL DEF Spec

\* However many replies are lost, and whatever late requests do, a caller that
\* passes the cursor back with the job it came with, under either name, has
\* each piece of the job's output once and in order.
THEOREM OutputIsOnce == Spec => []OutputOnce
<1>1. Init => WTypeOK /\ InStep
  BY InitTypes
<1>2. WTypeOK /\ InStep /\ [Next]_vars => WTypeOK' /\ InStep'
  BY NextKeeps
<1>3. WTypeOK /\ InStep => OutputOnce
  <2> SUFFICES ASSUME WTypeOK, InStep, NEW j \in Job
               PROVE  /\ got[j] = [i \in 1 .. Len(got[j]) |-> i]
                      /\ j \in DOMAIN jobs => Len(got[j]) <= jobs[j].output
    BY DEF OutputOnce
  <2> DEFINE n == Heard(cursor[j])
  <2>1. /\ got[j] = Pieces(n)
        /\ cursor[j] > 0 => j \in 1 .. Len(jobs) /\ cursor[j] <= jobs[j].output
    BY DEF InStep, GotIsHeard
  <2>2. cursor[j] \in Cursors /\ n \in Nat
    BY BoundsAreNat DEF WTypeOK, CallerTypeOK, Heard
  <2>3. cursor[j] # -1 => cursor[j] \in Nat
    BY <2>2, BoundsAreNat
  <2>4. Len(got[j]) = n
    <3> HIDE DEF n
    <3>1. n <= n
      BY <2>2
    <3>2. QED
      BY <2>1, <2>2, <3>1, PiecesGoOn
  <2>5. got[j] = [i \in 1 .. Len(got[j]) |-> i]
    <3> HIDE DEF n
    <3>1. QED
      BY <2>1, <2>4 DEF Pieces
  <2>6. j \in DOMAIN jobs => Len(got[j]) <= jobs[j].output
    <3>1. SUFFICES ASSUME j \in DOMAIN jobs PROVE Len(got[j]) <= jobs[j].output
      OBVIOUS
    <3>2. jobs[j].output \in Nat
      <4>1. jobs[j] \in JobState
        BY <3>1 DEF WTypeOK, DaemonTypeOK
      <4>2. QED
        BY <4>1, BoundsAreNat DEF JobState
    <3>3. CASE cursor[j] > 0
      BY <2>1, <2>3, <2>4, <3>3 DEF Heard
    <3>4. CASE ~(cursor[j] > 0)
      <4>1. n = 0
        BY <2>3, <3>4 DEF Heard
      <4>2. QED
        BY <2>4, <3>2, <4>1
    <3>5. QED
      BY <3>3, <3>4
  <2>7. QED
    BY <2>5, <2>6
<1>4. QED
  BY <1>1, <1>2, <1>3, PTL DEF Spec

-----------------------------------------------------------------------------
(* What the daemon does is what the caller asked for.                      *)

\* The request of the call that goes on.
TheRequest ==
  [effect |-> Move(<<>>).request.effect, what |-> Move(<<>>).request.what,
   to |-> Details([call EXCEPT !.cmd = Canonical(call.cmd)], TimeoutOption)]

RequestIsTheCalls == request # NoRequest => request = TheRequest

\* A call is refused by the plugin, for its parameters.
RefusedForReason == told = "refused" => Move(<<>>).do = "answer"

EditsNameWorkspace == call.cmd \in Edits => call.workspace_id \in Workspaces

\* What the call is to end is among what the caller wanted ended, and so is
\* what a request is to end that came late.
CallIsWanted ==
  /\ call.cmd \in Cancels => <<call.workspace_id, MeantJob(call)>> \in targets
  /\ call.cmd = "destroy_workspace" => <<call.workspace_id, 0>> \in targets

Wanted(r) == /\ r.what = "job" => <<r.to.ws, r.to.job>> \in targets
             /\ r.what = "workspace" => <<r.to.ws, 0>> \in targets
LateIsWanted == \A r \in late : Wanted(r)

\* From the daemon's reply on, and until the caller takes the answer, what the
\* call was to do is done and stays so.
CancelHolds == call.cmd \in Cancels /\ Answered =>
                 /\ MeantJob(call) \in 1 .. Len(jobs)
                 /\ jobs[MeantJob(call)].state = "cancelled"
DestroyHolds == call.cmd = "destroy_workspace" /\ Answered =>
                  /\ call.workspace_id \in Workspaces
                  /\ spaces[call.workspace_id] = "destroyed"
WriteHolds == call.cmd \in {"write_file", "safe_edit"} /\ ~overtaken /\ Answered =>
                files[<<call.workspace_id, MeantPath(call)>>] = call.content

AsMeant == /\ RequestIsTheCalls /\ RefusedForReason /\ EditsNameWorkspace
           /\ CallIsWanted /\ LateIsWanted /\ OnlyNamedEnds
           /\ CancelHolds /\ DestroyHolds /\ WriteHolds

-----------------------------------------------------------------------------

\* A call about a file names its workspace.
LEMMA EditsAreInWorkspace ==
  ASSUME NEW cmd \in Edits, NEW p \in Inputs(cmd)
  PROVE  p.workspace_id \in Workspaces
<1>1. PICK w \in Workspaces, f \in PathOrNone, g \in PathOrNone, x \in Texts :
         p = OnFile(cmd, w, f, g, x)
  BY DEF Inputs, Edits, Runs
<1>2. QED
  BY <1>1 DEF OnFile, Unset

\* The request of a call on a file writes where the caller meant it, and the
\* call is refused when neither name of the path is given.
LEMMA FileIsMeant ==
  ASSUME call \in Params, call.cmd \in {"write_file", "safe_edit"}
  PROVE  /\ TheRequest.to.path = MeantPath(call) /\ TheRequest.to.text = call.content
         /\ Move(<<>>).do = "send" => MeantPath(call) \in Paths
         /\ Move(<<>>).do = "answer" /\ call.workspace_id \in Workspaces
              => call.path = "" /\ call.file_path = ""
<1> DEFINE q == [call EXCEPT !.cmd = Canonical(call.cmd)]
<1>1. Canonical(call.cmd) = call.cmd
  BY DEF Canonical
<1>2. q = call
  BY <1>1 DEF Params
<1>3. Path(call) = MeantPath(call)
  BY DEF Path, MeantPath
<1>4. TheRequest.to.path = MeantPath(call) /\ TheRequest.to.text = call.content
  BY <1>2, <1>3 DEF TheRequest, Details
<1> DEFINE named == "path" \in Context.given \/ "file_path" \in Context.given
<1>5. /\ "path" \in Context.given <=> call.path # ""
      /\ "file_path" \in Context.given <=> call.file_path # ""
      /\ "workspace_id" \in Context.given <=> call.workspace_id # ""
      /\ "pattern" \in Context.given
  BY DEF Context, Given, Unset
<1>6. Require(call.cmd, Context.given) <=> "workspace_id" \in Context.given /\ named
  <2>1. {"path", "file_path"} \in Fields(call.cmd) /\ {"workspace_id"} \in Fields(call.cmd)
    BY DEF Fields
  <2>2. \A alike \in Fields(call.cmd) :
           alike \in {{"path", "file_path"}, {"workspace_id"}, {"pattern"}}
    BY DEF Fields
  <2> DEFINE given == Context.given
  <2> HIDE DEF Context
  <2>3. /\ {"path", "file_path"} \cap given # {} <=> named
        /\ {"workspace_id"} \cap given # {} <=> "workspace_id" \in given
        /\ {"pattern"} \cap given # {}
    BY <1>5
  <2>4. Require(call.cmd, given) <=> \A alike \in Fields(call.cmd) : alike \cap given # {}
    BY DEF Require
  <2> HIDE DEF given, named
  <2>5. QED
    BY <2>1, <2>2, <2>3, <2>4 DEF given
<1>7. /\ Require(call.cmd, Context.given) => Move(<<>>).do = "send"
      /\ ~Require(call.cmd, Context.given) => Move(<<>>).do = "answer"
  <2>1. Move(<<>>) = IF Require(call.cmd, Context.given) THEN Handle(call.cmd, <<>>)
                     ELSE Answer("failure")
    <3>1. Context.cmd = call.cmd /\ Settings \subseteq Context.cfg
      BY DEF Context
    <3> HIDE DEF Context
    <3>2. QED
      BY <1>1, <3>1 DEF Move, Call
  <2>2. Handle(call.cmd, <<>>).do = "send"
    BY DEF Handle, Post, Put, Once, Send
  <2>3. QED
    BY <2>1, <2>2 DEF Answer
<1>8. Move(<<>>).do = "send" => MeantPath(call) \in Paths
  <2>1. ASSUME Move(<<>>).do = "send" PROVE call.path # "" \/ call.file_path # ""
    BY <1>5, <1>6, <1>7, <2>1
  <2>2. QED
    BY <2>1 DEF MeantPath, Params, PathOrNone
<1>9. ASSUME Move(<<>>).do = "answer", call.workspace_id \in Workspaces
      PROVE  call.path = "" /\ call.file_path = ""
  <2>1. call.workspace_id # ""
    BY <1>9, WorkspaceAssumption
  <2>2. QED
    BY <1>9, <2>1, <1>5, <1>6, <1>7
<1>10. QED
  BY <1>4, <1>8, <1>9

\* What ends for the call's request is what the caller wanted ended.
LEMMA RequestIsWanted ==
  ASSUME WTypeOK, InStep, AsMeant, request # NoRequest
  PROVE  /\ Wanted(request) /\ call \in Params /\ Move(<<>>).do = "send"
         /\ request.to.ws = call.workspace_id
         /\ request.what = "job" <=> call.cmd \in Cancels
         /\ request.what = "workspace" <=> call.cmd = "destroy_workspace"
         /\ request.what = "new file" <=> call.cmd = "write_file"
         /\ request.what = "edit" <=> call.cmd = "safe_edit"
         /\ request.what = "command" <=> call.cmd = "exec_command"
<1>1. /\ call \in Params /\ Move(<<>>).do = "send"
      /\ request.what = Move(<<>>).request.what /\ request.to.job = MeantJob(call)
  BY DEF WTypeOK, PluginTypeOK, InStep, RequestIsMeant
<1>2. request.to.ws = call.workspace_id
  <2>1. Canonical(call.cmd) \in Commands \cup {"none"}
    BY <1>1 DEF Canonical, Commands, Params
  <2>2. TheRequest.to.ws = call.workspace_id
    BY <1>1, <2>1, DetailsAreMeant DEF TheRequest
  <2>3. QED
    BY <2>2 DEF AsMeant, RequestIsTheCalls
<1>3. /\ request.what = "job" <=> call.cmd \in Cancels
      /\ request.what = "workspace" <=> call.cmd = "destroy_workspace"
      /\ request.what = "new file" <=> call.cmd = "write_file"
      /\ request.what = "edit" <=> call.cmd = "safe_edit"
      /\ request.what = "command" <=> call.cmd = "exec_command"
  BY <1>1, MoveIsOnce
<1>4. Wanted(request)
  BY <1>1, <1>2, <1>3 DEF AsMeant, CallIsWanted, Wanted
<1>5. QED
  BY <1>1, <1>2, <1>3, <1>4

-----------------------------------------------------------------------------
(* What ends, stays so.                                                    *)

\* What has ended stays ended, and no job disappears.
Lasts == /\ \A w \in Workspaces : spaces[w] = "destroyed" => spaces'[w] = "destroyed"
         /\ \A j \in 1 .. Len(jobs) :
               /\ j \in 1 .. Len(jobs')
               /\ jobs[j].state = "cancelled" => jobs'[j].state = "cancelled"

\* What ends is what r names.
EndsOnly(r) ==
  /\ \A w \in Workspaces : spaces'[w] = "destroyed" =>
        spaces[w] = "destroyed" \/ (r.what = "workspace" /\ w = r.to.ws)
  /\ \A j \in 1 .. Len(jobs') : jobs'[j].state = "cancelled" =>
        \/ /\ j \in 1 .. Len(jobs) /\ jobs[j].state = "cancelled"
           /\ jobs'[j].ws = jobs[j].ws
        \/ /\ jobs'[j].ws = r.to.ws
           /\ r.what = "workspace" \/ (r.what = "job" /\ j = r.to.job)

\* A request that is carried out ends what it names, for good.
LEMMA CarriedEnds ==
  ASSUME DaemonTypeOK, NEW r \in Requests, Addressed(r), Possible(r), Carried(r)
  PROVE  Lasts /\ EndsOnly(r)
<1>1. /\ spaces \in [Workspaces -> {"unknown", "live", "destroyed"}]
      /\ Len(jobs) \in Nat /\ DOMAIN jobs = 1 .. Len(jobs) /\ jobs \in Seq(JobState)
      /\ \A j \in 1 .. Len(jobs) : jobs[j] \in JobState
  BY DEF DaemonTypeOK
<1>2. \A w \in Workspaces :
         /\ spaces[w] = "destroyed" => spaces'[w] = "destroyed"
         /\ spaces'[w] = "destroyed" =>
              spaces[w] = "destroyed" \/ (r.what = "workspace" /\ w = r.to.ws)
  <2>1. CASE r.what = "new workspace"
    BY <1>1, <2>1 DEF Carried
  <2>2. CASE r.what = "workspace"
    BY <1>1, <2>2 DEF Carried
  <2>3. CASE r.what # "new workspace" /\ r.what # "workspace"
    BY <2>3 DEF Carried
  <2>4. QED
    BY <2>1, <2>2, <2>3
<1>3. CASE jobs' = jobs
  BY <1>1, <1>2, <1>3 DEF Lasts, EndsOnly
<1>4. CASE jobs' = Started(r) /\ r.what # "new workspace"
  <2> DEFINE job == [ws |-> r.to.ws, state |-> "running", output |-> 0]
  <2>1. jobs' = Append(jobs, job) /\ job.state # "cancelled"
    BY <1>4 DEF Started
  <2>2. job \in JobState
    <3>1. r.to.ws \in Workspaces
      BY <1>4 DEF Addressed
    <3>2. QED
      BY <3>1, BoundsAreNat DEF JobState
  <2> HIDE DEF job
  <2>3. /\ Len(jobs') = Len(jobs) + 1 /\ jobs'[Len(jobs) + 1] = job
        /\ \A j \in 1 .. Len(jobs) : jobs'[j] = jobs[j]
    BY <1>1, <2>1, <2>2, AppendProperties
  <2>4. \A j \in 1 .. Len(jobs') : j \in 1 .. Len(jobs) \/ j = Len(jobs) + 1
    BY <1>1, <2>3
  <2>5. \A j \in 1 .. Len(jobs) : j \in 1 .. Len(jobs')
    BY <1>1, <2>3
  <2>6. QED
    BY <1>2, <2>1, <2>3, <2>4, <2>5 DEF Lasts, EndsOnly
<1>5. CASE jobs' = Cancelled(r) /\ r.what \in {"job", "workspace"}
  <2>1. ASSUME NEW j \in 1 .. Len(jobs)
        PROVE  /\ jobs'[j].ws = jobs[j].ws
               /\ jobs[j].state = "cancelled" => jobs'[j].state = "cancelled"
               /\ jobs'[j].state = "cancelled" =>
                    \/ jobs[j].state = "cancelled"
                    \/ /\ jobs[j].ws = r.to.ws
                       /\ r.what = "workspace" \/ (r.what = "job" /\ j = r.to.job)
    <3>1. jobs[j] \in JobState
      BY <1>1
    <3>2. jobs'[j] = IF /\ jobs[j].ws = r.to.ws /\ jobs[j].state = "running"
                        /\ r.what = "job" => j = r.to.job
                     THEN [jobs[j] EXCEPT !.state = "cancelled"] ELSE jobs[j]
      BY <1>1, <1>5 DEF Cancelled
    <3>3. QED
      BY <1>5, <3>1, <3>2 DEF JobState
  <2>2. Len(jobs') = Len(jobs)
    BY <1>1, <1>5 DEF Cancelled
  <2>3. QED
    BY <1>2, <2>1, <2>2 DEF Lasts, EndsOnly
<1>6. QED
  BY <1>3, <1>4, <1>5, JobsAfter

\* When the caller wanted ended what r names, that is all that ends.
LEMMA EndsAreNamed ==
  ASSUME DaemonTypeOK, DaemonTypeOK', OnlyNamedEnds, NEW r, EndsOnly(r), Wanted(r),
         targets' = targets
  PROVE  OnlyNamedEnds'
<1>1. DOMAIN jobs = 1 .. Len(jobs) /\ DOMAIN jobs' = 1 .. Len(jobs')
  BY DEF DaemonTypeOK
<1>2. \A w \in Workspaces : spaces'[w] = "destroyed" => <<w, 0>> \in targets
  BY DEF EndsOnly, OnlyNamedEnds, Wanted
<1>3. ASSUME NEW j \in 1 .. Len(jobs'), jobs'[j].state = "cancelled"
      PROVE  <<jobs'[j].ws, j>> \in targets \/ <<jobs'[j].ws, 0>> \in targets
  <2>1. CASE j \in 1 .. Len(jobs) /\ jobs[j].state = "cancelled" /\ jobs'[j].ws = jobs[j].ws
    <3>1. {<<jobs[j].ws, j>>, <<jobs[j].ws, 0>>} \cap targets # {}
      BY <1>1, <2>1 DEF OnlyNamedEnds
    <3>2. QED
      BY <2>1, <3>1
  <2>2. CASE jobs'[j].ws = r.to.ws /\ (r.what = "workspace" \/ (r.what = "job" /\ j = r.to.job))
    BY <2>2 DEF Wanted
  <2>3. QED
    BY <1>3, <2>1, <2>2 DEF EndsOnly
<1>4. ASSUME NEW j \in DOMAIN jobs', jobs'[j].state = "cancelled"
      PROVE  {<<jobs'[j].ws, j>>, <<jobs'[j].ws, 0>>} \cap targets' # {}
  BY <1>1, <1>3, <1>4
<1>5. QED
  BY <1>2, <1>4 DEF OnlyNamedEnds

\* As long as nothing is undone, what the call was to do is done.
LEMMA DoneStays ==
  ASSUME WTypeOK, AsMeant, Lasts, UNCHANGED <<call, request, back, told, targets>>,
         late' \subseteq late, OnlyNamedEnds', WriteHolds'
  PROVE  AsMeant'
<1>1. UNCHANGED <<Context, TheRequest, Move(<<>>)>> /\ MeantJob(call') = MeantJob(call)
      /\ (Answered' <=> Answered)
  BY DEF Context, TheRequest, Move, Answered
<1>2. /\ RequestIsTheCalls' /\ RefusedForReason' /\ EditsNameWorkspace'
  BY <1>1 DEF AsMeant, RequestIsTheCalls, RefusedForReason, EditsNameWorkspace
<1>3. CallIsWanted' /\ LateIsWanted'
  BY <1>1 DEF AsMeant, CallIsWanted, LateIsWanted, Wanted
<1>4. CancelHolds'
  BY <1>1 DEF AsMeant, CancelHolds, Lasts
<1>5. DestroyHolds'
  <2>1. SUFFICES ASSUME call.cmd = "destroy_workspace", Answered
                 PROVE  /\ call.workspace_id \in Workspaces
                        /\ spaces'[call.workspace_id] = "destroyed"
    BY <1>1 DEF DestroyHolds
  <2>2. call.workspace_id \in Workspaces /\ spaces[call.workspace_id] = "destroyed"
    BY <2>1 DEF AsMeant, DestroyHolds
  <2>3. QED
    BY <2>2 DEF Lasts
<1>6. QED
  BY <1>2, <1>3, <1>4, <1>5 DEF AsMeant

-----------------------------------------------------------------------------
(* Every step keeps what the daemon does as it was asked for.              *)

\* The daemon carries the request out, or fails.
LEMMA ServeMeans ==
  ASSUME WTypeOK, InStep, AsMeant, Serve
  PROVE  AsMeant'
<1>1. /\ request # NoRequest /\ told = "none" /\ call # Unset /\ back = NoReply
      /\ UNCHANGED <<call, request, told, overtaken, late, targets>>
  BY DEF Serve, callerVars, WTypeOK, PluginTypeOK
<1>2. /\ RequestIsTheCalls' /\ RefusedForReason' /\ EditsNameWorkspace'
      /\ CallIsWanted' /\ LateIsWanted'
  BY <1>1 DEF AsMeant, RequestIsTheCalls, RefusedForReason, EditsNameWorkspace,
              CallIsWanted, LateIsWanted, Wanted, TheRequest, Move, Context, MeantJob
<1>3. /\ Wanted(request) /\ call \in Params /\ Move(<<>>).do = "send"
      /\ request.to.ws = call.workspace_id
      /\ request.what = "job" <=> call.cmd \in Cancels
      /\ request.what = "workspace" <=> call.cmd = "destroy_workspace"
      /\ request.what = "new file" <=> call.cmd = "write_file"
      /\ request.what = "edit" <=> call.cmd = "safe_edit"
  BY <1>1, RequestIsWanted
<1>4. CASE UNCHANGED daemonVars /\ back' = [status |-> 500, from |-> 0, upto |-> 0]
  <2>1. ~Answered'
    BY <1>1, <1>4 DEF Answered
  <2>2. OnlyNamedEnds'
    BY <1>1, <1>4 DEF AsMeant, OnlyNamedEnds, daemonVars
  <2>3. QED
    BY <1>2, <2>1, <2>2 DEF AsMeant, CancelHolds, DestroyHolds, WriteHolds
<1>5. CASE Possible(request) /\ Carried(request) /\ back' = Reply(request)
  <2>1. request \in Requests /\ Addressed(request) /\ DaemonTypeOK
    BY <1>1 DEF WTypeOK, PluginTypeOK, InStep, AllAddressed
  <2>2. DaemonTypeOK' /\ Lasts /\ EndsOnly(request)
    BY <1>5, <2>1, CarriedKeeps, CarriedEnds
  <2>3. OnlyNamedEnds'
    BY <1>1, <1>3, <2>1, <2>2, EndsAreNamed DEF AsMeant
  <2>4. CancelHolds'
    <3>1. SUFFICES ASSUME call.cmd \in Cancels
                   PROVE  /\ MeantJob(call) \in 1 .. Len(jobs')
                          /\ jobs'[MeantJob(call)].state = "cancelled"
      BY <1>1 DEF CancelHolds, MeantJob
    <3> DEFINE j == MeantJob(call)
    <3>2. request.to.job = j /\ request.what = "job"
      BY <1>1, <1>3, <3>1 DEF InStep, RequestIsMeant
    <3> HIDE DEF j
    <3>3. j \in DOMAIN jobs /\ jobs[j].ws = request.to.ws
      BY <1>5, <3>2 DEF Possible
    <3>4. /\ DOMAIN jobs = 1 .. Len(jobs) /\ jobs[j] \in JobState
      BY <2>1, <3>3 DEF DaemonTypeOK
    <3>5. jobs' = Cancelled(request)
      BY <1>5, <3>2 DEF Carried, Cancelled
    <3>6. jobs'[j] = IF jobs[j].state = "running"
                     THEN [jobs[j] EXCEPT !.state = "cancelled"] ELSE jobs[j]
      BY <3>2, <3>3, <3>5 DEF Cancelled
    <3>7. jobs'[j].state = "cancelled"
      BY <3>4, <3>6 DEF JobState
    <3>8. QED
      BY <2>2, <3>3, <3>4, <3>7 DEF Lasts, j
  <2>5. DestroyHolds'
    <3>1. SUFFICES ASSUME call.cmd = "destroy_workspace"
                   PROVE  /\ call.workspace_id \in Workspaces
                          /\ spaces'[call.workspace_id] = "destroyed"
      BY <1>1 DEF DestroyHolds
    <3>2. request.what = "workspace" /\ request.to.ws \in Workspaces
      BY <1>3, <2>1, <3>1 DEF Addressed
    <3>3. spaces' = [spaces EXCEPT ![request.to.ws] = "destroyed"]
      BY <1>5, <3>2 DEF Carried
    <3>4. QED
      BY <1>3, <2>1, <3>2, <3>3 DEF DaemonTypeOK
  <2>6. WriteHolds'
    <3>1. SUFFICES ASSUME call.cmd \in {"write_file", "safe_edit"}
                   PROVE  files'[<<call.workspace_id, MeantPath(call)>>] = call.content
      BY <1>1 DEF WriteHolds, MeantPath
    <3>2. /\ request.to.path = MeantPath(call) /\ request.to.text = call.content
          /\ MeantPath(call) \in Paths
      BY <1>1, <1>3, <3>1, FileIsMeant DEF AsMeant, RequestIsTheCalls
    <3>3. request.what \in {"new file", "edit"} /\ request.to.ws \in Workspaces
      BY <1>3, <2>1, <3>1 DEF Addressed
    <3>4. files' = [files EXCEPT ![<<request.to.ws, request.to.path>>] = request.to.text]
      BY <1>5, <3>3 DEF Carried
    <3>5. <<request.to.ws, request.to.path>> \in Workspaces \X Paths
      BY <3>2, <3>3
    <3>6. QED
      BY <1>3, <2>1, <3>2, <3>4, <3>5 DEF DaemonTypeOK
  <2>7. QED
    BY <1>2, <2>3, <2>4, <2>5, <2>6 DEF AsMeant
<1>6. QED
  BY <1>4, <1>5 DEF Serve

\* A late request ends nothing but what was wanted ended, and when it changes a
\* file during a call, the call has been overtaken.
LEMMA ServeLateMeans ==
  ASSUME WTypeOK, InStep, AsMeant, ServeLate
  PROVE  AsMeant'
<1>1. PICK r \in late :
        /\ late' = late \ {r}
        /\ \/ /\ Possible(r) /\ Carried(r)
              /\ overtaken' = (overtaken \/ (call # Unset /\ files' # files))
           \/ UNCHANGED <<daemonVars, overtaken>>
  BY DEF ServeLate
<1>2. UNCHANGED <<call, request, back, told, targets>> /\ late' \subseteq late
  BY <1>1 DEF ServeLate, callerVars
<1>3. r \in Requests /\ Addressed(r) /\ Wanted(r) /\ DaemonTypeOK
  BY DEF WTypeOK, PluginTypeOK, InStep, AllAddressed, AsMeant, LateIsWanted
<1>4. CASE Possible(r) /\ Carried(r)
            /\ overtaken' = (overtaken \/ (call # Unset /\ files' # files))
  <2>1. DaemonTypeOK' /\ Lasts /\ EndsOnly(r)
    BY <1>3, <1>4, CarriedKeeps, CarriedEnds
  <2>2. OnlyNamedEnds'
    BY <1>2, <1>3, <2>1, EndsAreNamed DEF AsMeant
  <2>3. WriteHolds'
    <3>1. Answered' => Answered /\ call # Unset
      BY <1>2 DEF Answered, WTypeOK, PluginTypeOK
    <3>2. ~overtaken' /\ Answered' => ~overtaken /\ files' = files
      BY <1>4, <3>1
    <3>3. QED
      BY <1>2, <3>1, <3>2 DEF AsMeant, WriteHolds, MeantPath
  <2>4. QED
    BY <1>2, <2>1, <2>2, <2>3, DoneStays
<1>5. CASE UNCHANGED <<daemonVars, overtaken>>
  <2>1. UNCHANGED <<spaces, files, jobs>> /\ overtaken' = overtaken
    BY <1>5 DEF daemonVars
  <2>2. Lasts /\ OnlyNamedEnds'
    BY <1>2, <2>1 DEF Lasts, AsMeant, OnlyNamedEnds
  <2>3. WriteHolds'
    BY <1>2, <2>1 DEF AsMeant, WriteHolds, MeantPath, Answered
  <2>4. QED
    BY <1>2, <2>2, <2>3, DoneStays
<1>6. QED
  BY <1>1, <1>4, <1>5

\* A job that says something is one that runs, and goes on.
LEMMA WorkMeans ==
  ASSUME WTypeOK, AsMeant, Work
  PROVE  AsMeant'
<1>1. /\ UNCHANGED <<call, request, back, told, overtaken>>
      /\ UNCHANGED <<late, spaces, files>> /\ UNCHANGED targets
  BY DEF Work, pluginVars, callerVars
<1>2. PICK j \in DOMAIN jobs : /\ jobs[j].state = "running"
                              /\ jobs' = [jobs EXCEPT ![j].output = @ + 1]
  BY DEF Work
<1>3. /\ Len(jobs) \in Nat /\ DOMAIN jobs = 1 .. Len(jobs)
      /\ \A i \in 1 .. Len(jobs) : jobs[i] \in JobState
  BY DEF WTypeOK, DaemonTypeOK
<1>4. DOMAIN jobs' = DOMAIN jobs /\ Len(jobs') = Len(jobs)
  BY <1>2, <1>3
<1>5. ASSUME NEW i \in DOMAIN jobs
      PROVE  jobs'[i].ws = jobs[i].ws /\ jobs'[i].state = jobs[i].state
  <2>1. jobs[i] \in JobState
    BY <1>3
  <2>2. CASE i = j
    <3>1. jobs'[i] = [jobs[i] EXCEPT !.output = @ + 1]
      BY <1>2, <2>2
    <3>2. QED
      BY <2>1, <3>1 DEF JobState
  <2>3. CASE i # j
    BY <1>2, <2>3
  <2>4. QED
    BY <2>2, <2>3
<1>6. Lasts
  BY <1>1, <1>3, <1>4, <1>5 DEF Lasts
<1>7. OnlyNamedEnds'
  BY <1>1, <1>4, <1>5 DEF AsMeant, OnlyNamedEnds
<1>8. WriteHolds'
  BY <1>1 DEF AsMeant, WriteHolds, MeantPath, Answered
<1>9. QED
  BY <1>1, <1>6, <1>7, <1>8, DoneStays

\* The caller begins a call: what it is to end is wanted from now on.
LEMMA BeginMeans ==
  ASSUME WTypeOK, AsMeant, Begin
  PROVE  AsMeant'
<1>1. /\ told = "none" /\ request = NoRequest
      /\ UNCHANGED <<request, back, told, overtaken, late>>
      /\ UNCHANGED <<spaces, files, jobs>>
  BY DEF Begin, WTypeOK, PluginTypeOK, daemonVars
<1>2. PICK cmd \in session : \E p \in Inputs(cmd) :
         /\ call' = p
         /\ targets' = targets \cup
               (CASE cmd \in Cancels           -> {<<p.workspace_id, MeantJob(p)>>}
                  [] cmd = "destroy_workspace" -> {<<p.workspace_id, 0>>}
                  [] OTHER                     -> {})
  BY DEF Begin
<1>3. PICK p \in Inputs(cmd) :
         /\ call' = p
         /\ targets' = targets \cup
               (CASE cmd \in Cancels           -> {<<p.workspace_id, MeantJob(p)>>}
                  [] cmd = "destroy_workspace" -> {<<p.workspace_id, 0>>}
                  [] OTHER                     -> {})
  BY <1>2
<1>4. cmd \in Commands
  BY WorkspaceAssumption DEF WTypeOK, CallerTypeOK
<1>5. p.cmd = cmd
  BY <1>4, InputsAreParams
<1>6. targets \subseteq targets'
  BY <1>3
<1>7. RequestIsTheCalls' /\ RefusedForReason' /\ ~Answered'
  BY <1>1 DEF RequestIsTheCalls, RefusedForReason, Answered
<1>8. EditsNameWorkspace'
  <2>1. cmd \in Edits => p.workspace_id \in Workspaces
    BY EditsAreInWorkspace
  <2>2. QED
    BY <1>3, <1>5, <2>1 DEF EditsNameWorkspace
<1>9. CallIsWanted'
  <2>1. cmd \in Cancels => <<p.workspace_id, MeantJob(p)>> \in targets'
    BY <1>3 DEF Cancels
  <2>2. cmd = "destroy_workspace" => <<p.workspace_id, 0>> \in targets'
    BY <1>3 DEF Cancels
  <2>3. QED
    BY <1>3, <1>5, <2>1, <2>2 DEF CallIsWanted, MeantJob
<1>10. LateIsWanted'
  BY <1>1, <1>6 DEF AsMeant, LateIsWanted, Wanted
<1>11. OnlyNamedEnds'
  BY <1>1, <1>6 DEF AsMeant, OnlyNamedEnds
<1>12. QED
  BY <1>7, <1>8, <1>9, <1>10, <1>11 DEF AsMeant, CancelHolds, DestroyHolds, WriteHolds

\* The plugin sends the call's request.
LEMMA SendRequestMeans ==
  ASSUME WTypeOK, InStep, AsMeant, SendRequest
  PROVE  AsMeant'
<1>1. /\ told = "none" /\ request = NoRequest /\ back = NoReply
      /\ UNCHANGED <<call, back, told, overtaken, late>>
      /\ UNCHANGED <<spaces, files, jobs>> /\ UNCHANGED targets
  BY DEF SendRequest, InStep, NoReplyAhead, daemonVars, callerVars
<1>2. request' = TheRequest
  BY DEF SendRequest, TheRequest
<1>3. RequestIsTheCalls' /\ RefusedForReason' /\ EditsNameWorkspace' /\ ~Answered'
  BY <1>1, <1>2 DEF AsMeant, RequestIsTheCalls, RefusedForReason, EditsNameWorkspace,
                    Answered, TheRequest, Move, Context
<1>4. CallIsWanted' /\ LateIsWanted' /\ OnlyNamedEnds'
  BY <1>1 DEF AsMeant, CallIsWanted, LateIsWanted, Wanted, OnlyNamedEnds, MeantJob
<1>5. QED
  BY <1>3, <1>4 DEF AsMeant, CancelHolds, DestroyHolds, WriteHolds

\* The plugin refuses the call.
LEMMA RefuseMeans ==
  ASSUME WTypeOK, AsMeant, Refuse
  PROVE  AsMeant'
<1>1. /\ request = NoRequest /\ told' = "refused" /\ Move(<<>>).do = "answer"
      /\ UNCHANGED <<call, request, back, overtaken, late>>
      /\ UNCHANGED <<spaces, files, jobs>> /\ UNCHANGED targets
  BY DEF Refuse, daemonVars, callerVars
<1>2. RequestIsTheCalls' /\ RefusedForReason' /\ EditsNameWorkspace' /\ ~Answered'
  BY <1>1 DEF AsMeant, RequestIsTheCalls, RefusedForReason, EditsNameWorkspace,
              Answered, Move, Context
<1>3. CallIsWanted' /\ LateIsWanted' /\ OnlyNamedEnds'
  BY <1>1 DEF AsMeant, CallIsWanted, LateIsWanted, Wanted, OnlyNamedEnds, MeantJob
<1>4. QED
  BY <1>2, <1>3 DEF AsMeant, CancelHolds, DestroyHolds, WriteHolds

\* The plugin answers: a success says what the daemon's reply said.
LEMMA DeliverMeans ==
  ASSUME WTypeOK, InStep, AsMeant, Deliver
  PROVE  AsMeant'
<1>1. /\ request # NoRequest /\ back # NoReply /\ request' = NoRequest
      /\ UNCHANGED <<call, overtaken, late>>
      /\ UNCHANGED <<spaces, files, jobs>> /\ UNCHANGED targets
  BY DEF Deliver, daemonVars, callerVars
<1>2. /\ told' \in {"success", "failure"}
      /\ told' = "success" => back.status \in 200 .. 299
  BY <1>1, OutcomeIsOfReply DEF Deliver
<1>3. Answered' => Answered
  <2>1. back.status \in {-1, 200, 500}
    BY DEF WTypeOK, PluginTypeOK
  <2>2. back.status \in 200 .. 299 => back.status = 200
    BY <2>1
  <2>3. QED
    BY <1>1, <1>2, <2>2 DEF Answered
<1>4. RequestIsTheCalls' /\ RefusedForReason' /\ EditsNameWorkspace'
  BY <1>1, <1>2 DEF AsMeant, RequestIsTheCalls, RefusedForReason, EditsNameWorkspace
<1>5. CallIsWanted' /\ LateIsWanted' /\ OnlyNamedEnds'
  BY <1>1 DEF AsMeant, CallIsWanted, LateIsWanted, Wanted, OnlyNamedEnds, MeantJob
<1>6. CancelHolds' /\ DestroyHolds' /\ WriteHolds'
  BY <1>1, <1>3 DEF AsMeant, CancelHolds, DestroyHolds, WriteHolds, MeantJob, MeantPath
<1>7. QED
  BY <1>4, <1>5, <1>6 DEF AsMeant

\* The client gives up: the request may be late, and is still one the caller made.
LEMMA TimeOutMeans ==
  ASSUME WTypeOK, InStep, AsMeant, TimeOut
  PROVE  AsMeant'
<1>1. /\ request # NoRequest /\ request' = NoRequest /\ UNCHANGED <<call, overtaken>>
      /\ UNCHANGED <<spaces, files, jobs>> /\ UNCHANGED targets
  BY DEF TimeOut, daemonVars, callerVars
<1>2. told' = "failure"
  <2>1. told' = Move(<<Thrown>>).outcome
    BY DEF TimeOut
  <2>2. Thrown.status \notin 200 .. 299
    BY DEF Thrown
  <2>3. QED
    BY <1>1, <2>1, <2>2, OutcomeIsOfReply
<1>3. late' = late \/ late' = late \cup {request}
  BY DEF TimeOut
<1>4. LateIsWanted'
  <2>1. Wanted(request)
    BY <1>1, RequestIsWanted
  <2>2. QED
    BY <1>1, <1>3, <2>1 DEF AsMeant, LateIsWanted, Wanted
<1>5. RequestIsTheCalls' /\ RefusedForReason' /\ EditsNameWorkspace' /\ ~Answered'
  BY <1>1, <1>2 DEF AsMeant, RequestIsTheCalls, RefusedForReason, EditsNameWorkspace,
                    Answered
<1>6. CallIsWanted' /\ OnlyNamedEnds'
  BY <1>1 DEF AsMeant, CallIsWanted, OnlyNamedEnds, MeantJob
<1>7. QED
  BY <1>4, <1>5, <1>6 DEF AsMeant, CancelHolds, DestroyHolds, WriteHolds

\* The caller takes the answer.
LEMMA EndMeans ==
  ASSUME WTypeOK, AsMeant, End
  PROVE  AsMeant'
<1>1. /\ call' = Unset /\ told' = "none" /\ back' = NoReply /\ request = NoRequest
      /\ UNCHANGED <<request, late, targets>> /\ UNCHANGED <<spaces, files, jobs>>
  BY DEF End, daemonVars, WTypeOK, PluginTypeOK
<1>2. call'.cmd = "none"
  BY <1>1 DEF Unset
<1>3. /\ RequestIsTheCalls' /\ RefusedForReason' /\ EditsNameWorkspace' /\ ~Answered'
      /\ CallIsWanted'
  BY <1>1, <1>2 DEF RequestIsTheCalls, RefusedForReason, EditsNameWorkspace, Answered,
                    CallIsWanted, Edits, Cancels
<1>4. LateIsWanted' /\ OnlyNamedEnds'
  BY <1>1 DEF AsMeant, LateIsWanted, Wanted, OnlyNamedEnds
<1>5. QED
  BY <1>3, <1>4 DEF AsMeant, CancelHolds, DestroyHolds, WriteHolds

\* Every step keeps what the daemon does as it was asked for.
LEMMA NextMeans ==
  WTypeOK /\ InStep /\ AsMeant /\ [Next]_vars => AsMeant'
<1> SUFFICES ASSUME WTypeOK, InStep, AsMeant, [Next]_vars PROVE AsMeant'
  OBVIOUS
<1>1. CASE UNCHANGED vars
  <2>1. /\ UNCHANGED <<call, request, back, told, targets, late, overtaken>>
        /\ UNCHANGED <<spaces, files, jobs>>
    BY <1>1 DEF vars, pluginVars, daemonVars, callerVars
  <2>2. Lasts /\ OnlyNamedEnds'
    BY <2>1 DEF Lasts, AsMeant, OnlyNamedEnds
  <2>3. WriteHolds'
    BY <2>1 DEF AsMeant, WriteHolds, MeantPath, Answered
  <2>4. QED
    BY <2>1, <2>2, <2>3, DoneStays
<1>2. QED
  BY <1>1, BeginMeans, EndMeans, SendRequestMeans, RefuseMeans, DeliverMeans,
     TimeOutMeans, ServeMeans, ServeLateMeans, WorkMeans DEF Next

\* The caller begins with nothing asked for and nothing ended.
LEMMA InitMeans == Init => AsMeant
<1> SUFFICES ASSUME Init PROVE AsMeant
  OBVIOUS
<1>1. call.cmd = "none" /\ request = NoRequest /\ told = "none" /\ late = {}
  BY DEF Init, Unset
<1>2. /\ RequestIsTheCalls /\ RefusedForReason /\ EditsNameWorkspace /\ CallIsWanted
      /\ LateIsWanted /\ ~Answered
  BY <1>1 DEF RequestIsTheCalls, RefusedForReason, EditsNameWorkspace, CallIsWanted,
              LateIsWanted, Answered, Edits, Cancels
<1>3. OnlyNamedEnds
  <2>1. Len(jobs) = 0 /\ \A w \in Workspaces : spaces[w] = "unknown"
    BY EmptySeq DEF Init
  <2>2. DOMAIN jobs = 1 .. Len(jobs)
    BY InitTypes DEF WTypeOK, DaemonTypeOK
  <2>3. QED
    BY <2>1, <2>2 DEF OnlyNamedEnds
<1>4. QED
  BY <1>2, <1>3 DEF AsMeant, CancelHolds, DestroyHolds, WriteHolds

\* The invariant holds in every state that can be reached.
THEOREM AllInStep == Spec => [](WTypeOK /\ InStep /\ AsMeant)
<1>1. Init => WTypeOK /\ InStep /\ AsMeant
  BY InitTypes, InitMeans
<1>2. WTypeOK /\ InStep /\ AsMeant /\ [Next]_vars => (WTypeOK /\ InStep /\ AsMeant)'
  BY NextKeeps, NextMeans
<1>3. QED
  BY <1>1, <1>2, PTL DEF Spec

\* Nothing ends but what the caller named: neither a job nor a workspace, also
\* when a request is carried out long after its call.
THEOREM OnlyNamedEnd == Spec => []OnlyNamedEnds
<1>1. WTypeOK /\ InStep /\ AsMeant => OnlyNamedEnds
  BY DEF AsMeant
<1>2. QED
  BY <1>1, AllInStep, PTL

\* What the caller is told was done is done, unless a late request of its own
\* has changed the file since.
THEOREM SuccessIsMeant == Spec => []SuccessIsSo
<1>1. WTypeOK /\ InStep /\ AsMeant => SuccessIsSo
  <2> SUFFICES ASSUME WTypeOK, AsMeant, told = "success"
               PROVE  /\ call.cmd \in Cancels =>
                           \A j \in DOMAIN jobs : j = MeantJob(call) => jobs[j].state # "running"
                      /\ call.cmd = "destroy_workspace" => spaces[call.workspace_id] = "destroyed"
                      /\ call.cmd \in {"write_file", "safe_edit"} /\ ~overtaken =>
                           files[<<call.workspace_id, MeantPath(call)>>] = call.content
    BY DEF SuccessIsSo
  <2>1. Answered
    BY DEF Answered
  <2>2. QED
    BY <2>1 DEF AsMeant, CancelHolds, DestroyHolds, WriteHolds
<1>2. QED
  BY <1>1, AllInStep, PTL

\* A write that names its file is not refused, under whichever name it has the path.
THEOREM NoWriteIsDropped == Spec => []NoWriteDropped
<1>1. WTypeOK /\ InStep /\ AsMeant => NoWriteDropped
  <2> SUFFICES ASSUME WTypeOK, AsMeant, told = "refused",
                      call.cmd \in {"write_file", "safe_edit"}
               PROVE  call.path = "" /\ call.file_path = ""
    BY DEF NoWriteDropped
  <2>1. call \in Params /\ Move(<<>>).do = "answer" /\ call.workspace_id \in Workspaces
    BY DEF WTypeOK, PluginTypeOK, AsMeant, RefusedForReason, EditsNameWorkspace, Edits
  <2>2. QED
    BY <2>1, FileIsMeant
<1>2. QED
  BY <1>1, AllInStep, PTL

\* What is started has the network and the time that the caller gave it.
THEOREM StartsAsAsked == Spec => []StartedAsAsked
<1>1. WTypeOK /\ InStep /\ AsMeant => StartedAsAsked
  <2> SUFFICES ASSUME WTypeOK, InStep, AsMeant, request # NoRequest
               PROVE  /\ request.to.net = "yes" => call.allow_network = "yes"
                      /\ call.timeout_seconds > 0 => request.to.limit = call.timeout_seconds
                      /\ request.what = "command" => request.to.limit > 0
    BY DEF StartedAsAsked
  <2> DEFINE q == [call EXCEPT !.cmd = Canonical(call.cmd)]
  <2>1. /\ call \in Params
        /\ request.what = "command" <=> call.cmd = "exec_command"
    BY RequestIsWanted
  <2>2. /\ q.allow_network = call.allow_network /\ q.timeout_seconds = call.timeout_seconds
        /\ q.cmd = Canonical(call.cmd)
    BY <2>1 DEF Params
  <2>3. call.timeout_seconds \in Nat /\ TimeoutOption \in Int
    <3>1. TimeoutOption \in Int
      BY WorkspaceAssumption
    <3>2. QED
      BY <2>1, <3>1 DEF Params
  <2>4. request.to = Details(q, TimeoutOption)
    BY DEF AsMeant, RequestIsTheCalls, TheRequest
  <2> HIDE DEF q
  <2>5. request.to.net = Network(q) /\ request.to.limit = Limit(q, TimeoutOption)
    BY <2>4 DEF Details
  <2>6. request.to.net = "yes" => call.allow_network = "yes"
    BY <2>2, <2>5 DEF Network
  <2>7. call.timeout_seconds > 0 => request.to.limit = call.timeout_seconds
    BY <2>2, <2>3, <2>5 DEF Limit
  <2>8. ASSUME request.what = "command" PROVE request.to.limit > 0
    <3>1. call.cmd = "exec_command"
      BY <2>1, <2>8
    <3>2. q.cmd = "exec_command"
      BY <2>2, <3>1 DEF Canonical
    <3>3. QED
      BY <2>2, <2>3, <2>5, <3>2 DEF Limit
  <2>9. QED
    BY <2>6, <2>7, <2>8
<1>2. QED
  BY <1>1, AllInStep, PTL

=============================================================================
