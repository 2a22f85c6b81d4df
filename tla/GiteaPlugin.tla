------------------------------ MODULE GiteaPlugin ------------------------------
(***************************************************************************)
(* The gitea tool.  Nothing is caught, the status of a reply is never      *)
(* looked at: an answer is a success when the text of the body has "ok"    *)
(* somewhere.  The headers of every GET are a string, which the host       *)
(* drops, and the request carries no token.                                *)
(***************************************************************************)
EXTENDS HostHttp

Commands == {"create_or_update_file", "push_files", "search_repositories",
             "create_repository", "list_project_files", "get_file_contents",
             "create_issue", "create_merge_request", "fork_repository",
             "create_branch", "search_projects", "search_issues",
             "search_merge_requests"}

Fields(cmd) == IF cmd = "push_files" THEN {"files"} ELSE {}

Settings == {"readable", "token"}

\* The body is empty, or it does not parse (a failed request throws as well),
\* or it parses.
Judged(reply) == IF reply = Thrown THEN "throws"
                 ELSE IF "text" \notin reply.body THEN "failure"
                 ELSE IF ~HasJson(reply) THEN "throws"
                 ELSE IF "ok" \in reply.body THEN "success" ELSE "failure"

Get(what, rs) ==
    Once(WithoutToken(Request("request", "read", what)), rs, Judged(rs[1]))
Post(what, rs) == Once(Request("request", "change", what), rs, Judged(rs[1]))

\* Wrong: the headers of the PUT are made a string as well.
WriteFileAnonymously(read) == WithoutToken(Request("request", "change", "file"))

\* The PUT, with the sha of the file if the body that was read has one.
WriteFile(read) ==
    Request("request", "change", IF "sha" \in read.body THEN "old file" ELSE "new file")

ReadFile == WithoutToken(Request("request", "read", "file"))

\* Wrong: the write is sent a second time when the first is not answered.
CreateOrUpdateFileAgain(rs) ==
    CASE Len(rs) = 0 -> Send(ReadFile)
      [] Len(rs) = 1 \/ (Len(rs) = 2 /\ rs[2] = Thrown) -> Send(WriteFile(rs[1]))
      [] OTHER       -> Answer(Judged(rs[Len(rs)]))

\* Whatever the GET came to, unless it threw or its body does not parse, the
\* PUT follows.
CreateOrUpdateFile(rs) ==
    CASE Len(rs) = 0 -> Send(ReadFile)
      [] Len(rs) = 1 -> IF \/ rs[1] = Thrown
                           \/ "text" \in rs[1].body /\ ~HasJson(rs[1])
                        THEN Answer("throws") ELSE Send(WriteFile(rs[1]))
      [] OTHER       -> Answer(Judged(rs[2]))

\* files.length is first asked for after the request.
PushFiles(given, rs) ==
    Once(Request("request", "change", "files"), rs,
         IF Judged(rs[1]) = "success" /\ "files" \notin given
         THEN "throws" ELSE Judged(rs[1]))

SearchRepositories(rs)  == Get("repositories", rs)
CreateRepository(rs)    == Post("repository", rs)
ListProjectFiles(rs)    == Get("contents", rs)
GetFileContents(rs)     == Get("file", rs)
CreateIssue(rs)         == Post("issue", rs)
CreateMergeRequest(rs)  == Post("pull", rs)
ForkRepository(rs)      == Post("fork", rs)
CreateBranch(rs)        == Post("branch", rs)
SearchProjects(rs)      == Get("repositories", rs)
SearchIssues(rs)        == Get("issues", rs)
SearchMergeRequests(rs) == Get("pulls", rs)

Handle(cmd, given, rs) ==
    CASE cmd = "create_or_update_file" -> CreateOrUpdateFile(rs)
      [] cmd = "push_files"            -> PushFiles(given, rs)
      [] cmd = "search_repositories"   -> SearchRepositories(rs)
      [] cmd = "create_repository"     -> CreateRepository(rs)
      [] cmd = "list_project_files"    -> ListProjectFiles(rs)
      [] cmd = "get_file_contents"     -> GetFileContents(rs)
      [] cmd = "create_issue"          -> CreateIssue(rs)
      [] cmd = "create_merge_request"  -> CreateMergeRequest(rs)
      [] cmd = "fork_repository"       -> ForkRepository(rs)
      [] cmd = "create_branch"         -> CreateBranch(rs)
      [] cmd = "search_projects"       -> SearchProjects(rs)
      [] cmd = "search_issues"         -> SearchIssues(rs)
      [] cmd = "search_merge_requests" -> SearchMergeRequests(rs)
      [] OTHER                         -> Answer("failure")

\* Reading the configuration is not caught either.
Call(c, rs) == IF "readable" \notin c.cfg THEN Answer("throws")
               ELSE IF "token" \notin c.cfg THEN Answer("failure")
               ELSE Handle(c.cmd, c.given, rs)

=============================================================================
