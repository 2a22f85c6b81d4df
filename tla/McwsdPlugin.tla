------------------------------ MODULE McwsdPlugin ------------------------------
(***************************************************************************)
(* The mcwsd tool, the client of a workspace daemon: required parameters,  *)
(* then one request.  Parameters have two spellings where models mix them  *)
(* up.  A parameter that is not given has the value it has in Unset, which *)
(* the code treats alike.                                                  *)
(***************************************************************************)
EXTENDS HostHttp

Commands == {"prepare_workspace", "exec_command", "get_artifacts", "safe_edit",
             "commit_and_pr", "workspace_status", "destroy_workspace",
             "list_files", "read_file", "write_file", "start_job", "list_jobs",
             "get_job", "cancel_job", "start_process", "list_processes",
             "get_process_status", "send_process_input", "kill_process"}

\* The commands that other ones are deprecated names of.
Canonical(cmd) == CASE cmd = "start_process"      -> "start_job"
                    [] cmd = "list_processes"     -> "list_jobs"
                    [] cmd = "get_process_status" -> "get_job"
                    [] cmd = "kill_process"       -> "cancel_job"
                    [] OTHER                      -> cmd

\* The parameters a command is refused without, of each set one.
Fields(cmd) ==
    LET also == CASE cmd = "exec_command"  -> {{"command"}, {"allow_network"}}
                  [] cmd = "start_job"     -> {{"command"}}
                  [] cmd = "safe_edit"     -> {{"pattern"}, {"path", "file_path"}}
                  [] cmd = "commit_and_pr" -> {{"commit_message"}, {"pr_title"}}
                  [] cmd \in {"list_files", "read_file", "write_file"} ->
                         {{"path", "file_path"}}
                  [] cmd \in {"get_job", "cancel_job"} ->
                         {{"job_id", "process_id"}}
                  [] OTHER                 -> {}
    IN IF cmd = "prepare_workspace" THEN {} ELSE {{"workspace_id"}} \cup also

\* Wrong: what is documented with "path" has to be given as "path".
RequireCanonical(cmd, given) ==
    \A alike \in Fields(cmd) : (alike \ {"file_path", "process_id"}) \cap given # {}

Require(cmd, given) == \A alike \in Fields(cmd) : alike \cap given # {}

Settings == {"readable", "token"}

\* Any reply with 2xx is a success: the body is passed on, parsed or not.
HandleResponse(reply) == IF Is2xx(reply) THEN "success" ELSE "failure"

Post(what, rs) == Once(Request("post", "change", what), rs, HandleResponse(rs[1]))
Put(what, rs)  == Once(Request("put", "change", what), rs, HandleResponse(rs[1]))
Get(what, rs)  == Once(Request("get", "read", what), rs, HandleResponse(rs[1]))

\* Wrong: an answer of the daemon is a success, whichever it is.
DeleteUnchecked(what, rs) ==
    Once(Request("delete", "delete", what), rs,
         IF rs[1] = Thrown THEN "failure" ELSE "success")

Delete(what, rs) == Once(Request("delete", "delete", what), rs, HandleResponse(rs[1]))

Handle(cmd, rs) ==
    CASE cmd = "prepare_workspace" -> Post("new workspace", rs)
      [] cmd = "exec_command"      -> Post("command", rs)
      [] cmd = "get_artifacts"     -> Get("artifacts", rs)
      [] cmd = "safe_edit"         -> Post("edit", rs)
      [] cmd = "commit_and_pr"     -> Post("pull request", rs)
      [] cmd = "workspace_status"  -> Get("status", rs)
      [] cmd = "destroy_workspace" -> Delete("workspace", rs)
      [] cmd = "list_files"        -> Get("files", rs)
      [] cmd = "read_file"         -> Get("file", rs)
      [] cmd = "write_file"        -> Put("new file", rs)
      [] cmd = "start_job"         -> Post("new job", rs)
      [] cmd = "list_jobs"         -> Get("jobs", rs)
      [] cmd = "get_job"           -> Get("output", rs)
      [] cmd = "cancel_job"        -> Delete("job", rs)
      [] OTHER                     -> Answer("failure")

Call(c, rs) ==
    LET cmd == Canonical(c.cmd)
    IN IF Settings \subseteq c.cfg /\ Require(cmd, c.given)
       THEN Handle(cmd, rs) ELSE Answer("failure")

-----------------------------------------------------------------------------
(* What a request says.                                                    *)

Unset == [cmd |-> "none", workspace_id |-> "", path |-> "", file_path |-> "",
          content |-> "", job_id |-> 0, process_id |-> 0, cursor |-> -1,
          allow_network |-> "unset", timeout_seconds |-> 0]

Given(p) == {f \in DOMAIN Unset : p[f] # Unset[f]}

\* The files that "path" is documented for; safe_edit has it the other way.
Path(p) == IF p.file_path # "" /\ (p.cmd = "safe_edit" \/ p.path = "")
           THEN p.file_path ELSE p.path

\* Wrong: the legacy name of a job comes first.
JobIdLegacyFirst(p) == IF p.process_id # 0 THEN p.process_id ELSE p.job_id

JobId(p) == IF p.job_id # 0 THEN p.job_id ELSE p.process_id

\* Wrong: the output of a job always begins at its beginning.
CursorDropped(p) == Unset.cursor

Cursor(p) == p.cursor

\* Wrong: a job has network access unless it is denied.
NetworkUnlessDenied(p) == IF p.allow_network = "no" THEN "no" ELSE "yes"

\* exec_command is refused without allow_network, a job goes without network.
Network(p) == IF p.allow_network = "yes" THEN "yes" ELSE "no"

\* The limit on the time a command runs, of which options.timeout_seconds is
\* the default; with 0 the daemon has the choice.
Limit(p, option) == IF p.timeout_seconds > 0 THEN p.timeout_seconds
                    ELSE IF p.cmd # "exec_command" THEN 0
                    ELSE IF option > 0 THEN option ELSE 180

Details(p, option) ==
    [ws |-> p.workspace_id, path |-> Path(p), text |-> p.content,
     job |-> JobId(p), cursor |-> Cursor(p), net |-> Network(p),
     limit |-> Limit(p, option)]

=============================================================================
