----------------------------- MODULE GitLabPlugin -----------------------------
(* The gitlab tool: a call is one request, and its answer what came of it. *)
EXTENDS HostHttp

Commands == {"create_or_update_file", "push_files", "search_repositories",
             "create_repository", "list_project_files", "get_file_contents",
             "create_issue", "create_merge_request", "fork_repository",
             "create_branch", "search_projects", "search_issues",
             "search_merge_requests", "update_file"}

\* What a caller may leave out, and the plugin notices.
Fields(cmd) == CASE cmd = "push_files" -> {"files"}
                 [] cmd \in {"search_projects", "search_issues",
                             "search_merge_requests"} -> {"search"}
                 [] OTHER -> {}

Settings == {"readable", "token"}

\* Success takes a status of 2xx and a body that parses.
Judged(reply) == IF Is2xx(reply) /\ HasJson(reply) THEN "success" ELSE "failure"

Get(what, rs)  == Once(Request("request", "read", what), rs, Judged(rs[1]))
Post(what, rs) == Once(Request("httpPost", "change", what), rs, Judged(rs[1]))
Put(what, rs)  == Once(Request("httpPut", "change", what), rs, Judged(rs[1]))

\* The searches refuse an empty query.
Search(what, given, rs) ==
    IF "search" \in given THEN Get(what, rs) ELSE Answer("failure")

-----------------------------------------------------------------------------
(* The handlers.  Parameters that are missing go into the request as such. *)

CreateOrUpdateFile(rs) == Put("file", rs)

\* files.map stands outside of the try.
PushFiles(given, rs) ==
    IF "files" \in given THEN Post("commit", rs) ELSE Answer("throws")

SearchRepositories(rs) == Get("repositories", rs)
CreateRepository(rs)   == Post("repository", rs)
ListProjectFiles(rs)   == Get("tree", rs)
GetFileContents(rs)    == Get("file", rs)
CreateIssue(rs)        == Post("issue", rs)
CreateMergeRequest(rs) == Post("merge request", rs)
ForkRepository(rs)     == Post("fork", rs)
CreateBranch(rs)       == Post("branch", rs)

SearchProjects(given, rs)      == Search("projects", given, rs)
SearchIssues(given, rs)        == Search("issues", given, rs)
SearchMergeRequests(given, rs) == Search("merge requests", given, rs)

Handle(cmd, given, rs) ==
    CASE cmd \in {"create_or_update_file", "update_file"} -> CreateOrUpdateFile(rs)
      [] cmd = "push_files"            -> PushFiles(given, rs)
      [] cmd = "search_repositories"   -> SearchRepositories(rs)
      [] cmd = "create_repository"     -> CreateRepository(rs)
      [] cmd = "list_project_files"    -> ListProjectFiles(rs)
      [] cmd = "get_file_contents"     -> GetFileContents(rs)
      [] cmd = "create_issue"          -> CreateIssue(rs)
      [] cmd = "create_merge_request"  -> CreateMergeRequest(rs)
      [] cmd = "fork_repository"       -> ForkRepository(rs)
      [] cmd = "create_branch"         -> CreateBranch(rs)
      [] cmd = "search_projects"       -> SearchProjects(given, rs)
      [] cmd = "search_issues"         -> SearchIssues(given, rs)
      [] cmd = "search_merge_requests" -> SearchMergeRequests(given, rs)
      [] OTHER                         -> Answer("failure")

Call(c, rs) == IF Settings \subseteq c.cfg THEN Handle(c.cmd, c.given, rs)
                                           ELSE Answer("failure")

=============================================================================
