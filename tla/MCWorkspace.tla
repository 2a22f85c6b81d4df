------------------------------ MODULE MCWorkspace ------------------------------
(* Instances of Workspace for TLC. *)
EXTENDS Workspace

OneWorkspace == {"w1"}
TwoPaths     == {"p1", "p2"}
TwoTexts     == {"x1", "x2"}

\* Files and jobs meet in nothing but a workspace.  A job can be listened to
\* while it is cancelled, or while the workspace is destroyed, and be cancelled
\* while that is.
FilesAndJobs ==
    {{"prepare_workspace", "destroy_workspace", "read_file", "write_file", "safe_edit"},
     {"prepare_workspace", "start_process", "get_job", "kill_process"},
     {"prepare_workspace", "destroy_workspace", "exec_command", "get_job"},
     {"prepare_workspace", "destroy_workspace", "exec_command", "start_process",
      "kill_process"}}

=============================================================================
