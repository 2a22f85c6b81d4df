------------------------- MODULE ServicePlugin_proofs -------------------------
(***************************************************************************)
(* The tools that work on a remote service, whichever of them there are    *)
(* and whatever the timeouts.                                              *)
(***************************************************************************)
EXTENDS ServicePlugin, TLAPS

\* Everything that is said of the body of a reply.
Marks == {"text", "json", "ok", "sha", "error", "found", "titled", "ambiguous",
          "refers", "extract", "1st", "2nd"}

Reply == [status : Int, body : SUBSET Marks]

Outcomes == {"success", "failure", "throws", "text", "ambiguous"}

\* How many replies a tool has had when it asks for its change.
WriteAt(c) == IF c.tool = "gitea" /\ c.cmd = "create_or_update_file" THEN 1 ELSE 0

\* A reply that says that a change was made.
Granted(r) == r.status \in {200, 204} /\ "error" \notin r.body

\* A tool sends a request or it answers.
IsMove(m) == /\ m.do \in {"send", "answer"}
             /\ m.do = "answer" => m.outcome \in Outcomes

\* A change is what the command is for, carries the token, and is the last
\* thing that the tool asks for.
ChangesOnce(c, rs, m) ==
    /\ m.do = "send" => Len(rs) <= WriteAt(c)
    /\ m.do = "send" /\ Changes(m.request) => /\ Len(rs) = WriteAt(c)
                                              /\ c.cmd \in Writes(c.tool)
                                              /\ "token" \in c.cfg => m.request.auth

\* A tool other than gitea, asked for a change, asks for nothing else, and its
\* answer is what the reply says, unless it throws whatever the reply says.
TellsWhatIsSaid(c, rs, m, first) ==
    /\ m.do = "send" => Changes(m.request)
    /\ m.do = "answer" /\ m.outcome = "success" =>
          /\ rs # <<>>
          /\ rs[1] \notin Refusals(c.tool) \cup {Thrown}
    /\ /\ first.do = "send" /\ rs # <<>> /\ Granted(rs[1])
       /\ c.tool \notin ThrowsAfterwards
       /\ HasJson(rs[1]) \/ c.tool \in {"home_assistant", "mcwsd"}
       => m.do = "answer" /\ m.outcome \in {"success", "text"}

Contract(c, rs, m, first) ==
    /\ IsMove(m)
    /\ ChangesOnce(c, rs, m)
    /\ c.cmd \in Writes(c.tool) /\ c.tool # "gitea" => TellsWhatIsSaid(c, rs, m, first)

\* There is no reply yet, or there is a first one.
LEMMA Counting == ASSUME NEW rs \in Seq(Reply)
                  PROVE  /\ Len(rs) \in Nat
                         /\ rs = <<>> <=> Len(rs) = 0
                         /\ rs # <<>> => rs[1] \in Reply
OBVIOUS

\* A refusal has a status of an error or says that there was one.
LEMMA RefusalsSay ==
  ASSUME NEW tool, NEW r \in Refusals(tool)
  PROVE  /\ r \in Reply
         /\ r.status \in {404, 500} \/ (tool \in {"zabbix", "wikijs"} /\ "error" \in r.body)
<1> DEFINE Said == {{}, {"text"}, Json \cup {"error"}, Json \cup {"error", "ok"}}
           Errors == [status : {404, 500}, body : Said]
           Admitted == [status |-> 200, body |-> Json \cup {"error"}]
           Says == /\ r \in Reply
                   /\ \/ r.status \in {404, 500}
                      \/ tool \in {"zabbix", "wikijs"} /\ "error" \in r.body
<1>1. \A b \in Said : b \subseteq Marks
  <2>1. {} \subseteq Marks /\ {"text"} \subseteq Marks
    BY DEF Marks
  <2>2. Json \cup {"error"} \subseteq Marks /\ Json \cup {"error", "ok"} \subseteq Marks
    BY DEF Json, Marks
  <2>3. QED
    BY <2>1, <2>2
<1>2. Json \cup {"error"} \in Said
  OBVIOUS
<1>3. Refusals(tool) = Errors \cup (IF tool \in {"zabbix", "wikijs"} THEN {Admitted} ELSE {})
  BY DEF Refusals
<1> HIDE DEF Said
<1>4. ASSUME r \in Errors PROVE Says
  BY <1>4, <1>1 DEF Reply
<1>5. ASSUME r = Admitted, tool \in {"zabbix", "wikijs"} PROVE Says
  <2>1. r.status = 200 /\ r.body = Json \cup {"error"}
    BY <1>5
  <2>2. r.body \subseteq Marks /\ "error" \in r.body
    BY <2>1, <1>1, <1>2
  <2>3. r \in Reply
    BY <2>1, <2>2, <1>5 DEF Reply
  <2>4. QED
    BY <2>2, <2>3, <1>5
<1> HIDE DEF Errors, Admitted
<1>6. QED
  BY <1>3, <1>4, <1>5

\* An answer that is a failure keeps the contract, whatever it answers.
LEMMA RefusingKeeps ==
  ASSUME NEW c, NEW rs \in Seq(Reply), NEW o \in {"failure", "throws"}, NEW first,
         first.do = "answer"
  PROVE  Contract(c, rs, Answer(o), first)
BY DEF Contract, IsMove, ChangesOnce, TellsWhatIsSaid, Answer, Outcomes

\* Of a command that is there to change something, what makes an answer to
\* one reply the right one.
Tells(c, r, o) ==
    /\ o = "success" => r \notin Refusals(c.tool) \cup {Thrown}
    /\ /\ c.tool \notin ThrowsAfterwards /\ Granted(r)
       /\ HasJson(r) \/ c.tool \in {"home_assistant", "mcwsd"}
       => o \in {"success", "text"}

\* So does one request and an answer to it, for a change when it is asked for.
LEMMA AskingOnceKeeps ==
  ASSUME NEW c, NEW rs \in Seq(Reply), NEW first, NEW o \in Outcomes,
         NEW fn, NEW effect \in {"read", "change", "delete"}, NEW what,
         NEW auth \in BOOLEAN,
         WriteAt(c) = 0,
         effect # "read" <=> c.cmd \in Writes(c.tool),
         effect # "read" /\ "token" \in c.cfg => auth,
         rs # <<>> /\ c.cmd \in Writes(c.tool) /\ c.tool # "gitea" => Tells(c, rs[1], o)
  PROVE  Contract(c, rs, Once([fn |-> fn, effect |-> effect, what |-> what,
                               auth |-> auth], rs, o), first)
<1> DEFINE rq == [fn |-> fn, effect |-> effect, what |-> what, auth |-> auth]
<1>1. CASE rs = <<>>
  <2>1. Once(rq, rs, o) = Send(rq)
    BY <1>1 DEF Once
  <2>2. QED
    BY <2>1, <1>1, Counting DEF Contract, IsMove, ChangesOnce, TellsWhatIsSaid, Send,
       Answer, Changes
<1>2. CASE rs # <<>>
  <2>1. Once(rq, rs, o) = Answer(o)
    BY <1>2 DEF Once
  <2>2. QED
    BY <2>1, <1>2 DEF Contract, IsMove, ChangesOnce, TellsWhatIsSaid, Answer, Tells
<1>3. QED
  BY <1>1, <1>2

-----------------------------------------------------------------------------
(* The contract of each tool.                                              *)

\* How gitlab judges the reply to a change: a refusal is no success, and a
\* change that is confirmed with a JSON body is one (its request functions).
LEMMA GitLabJudges ==
  ASSUME NEW c, c.tool = "gitlab", NEW r \in Reply
  PROVE  GitLab!Judged(r) \in Outcomes /\ Tells(c, r, GitLab!Judged(r))
BY RefusalsSay DEF GitLab!Judged, GitLab!Is2xx, GitLab!HasJson, Tells, Outcomes,
   Granted, HasJson, Thrown, Reply

\* Every command of gitlab asks once for what it does, with the token, and
\* answers what it makes of the reply.
LEMMA GitLabContract ==
  ASSUME NEW c, c.tool = "gitlab", NEW rs \in Seq(Reply)
  PROVE  Contract(c, rs, GitLab!Call(c, rs), GitLab!Call(c, <<>>))
<1> DEFINE first == GitLab!Call(c, <<>>)
           C(m) == Contract(c, rs, m, first)
           W == Writes(c.tool)
           o == GitLab!Judged(rs[1])
           Asks(fn, effect, what) ==
               Once([fn |-> fn, effect |-> effect, what |-> what, auth |-> TRUE], rs, o)
<1>1. o \in Outcomes /\ WriteAt(c) = 0 /\ (rs # <<>> => Tells(c, rs[1], o))
  BY Counting, GitLabJudges DEF WriteAt, GitLab!Judged, Outcomes
<1>2. ASSUME NEW fn, NEW effect \in {"read", "change", "delete"}, NEW what,
             effect # "read" <=> c.cmd \in W
      PROVE  C(Asks(fn, effect, what))
  BY <1>1, <1>2, AskingOnceKeeps
<1>3. \A what : /\ GitLab!Get(what, rs)  = Asks("request", "read", what)
                /\ GitLab!Post(what, rs) = Asks("httpPost", "change", what)
                /\ GitLab!Put(what, rs)  = Asks("httpPut", "change", what)
  BY DEF GitLab!Get, GitLab!Post, GitLab!Put, GitLab!Once, GitLab!Request, GitLab!Send,
     GitLab!Answer, Once, Send, Answer
<1>4. \A what : c.cmd \notin W => C(GitLab!Get(what, rs))
  BY <1>2, <1>3
<1>5. \A what : c.cmd \in W => C(GitLab!Post(what, rs)) /\ C(GitLab!Put(what, rs))
  BY <1>2, <1>3
<1>6. first.do = "answer" => C(GitLab!Answer("failure")) /\ C(GitLab!Answer("throws"))
  BY RefusingKeeps DEF GitLab!Answer, Answer
<1>7. W = {"create_or_update_file", "update_file", "push_files", "create_repository",
           "create_issue", "create_merge_request", "fork_repository", "create_branch"}
  BY DEF Writes
<1> HIDE DEF C, W, first, o
<1>8. ASSUME GitLab!Settings \subseteq c.cfg PROVE C(GitLab!Call(c, rs))
  <2>1. GitLab!Call(c, rs) = GitLab!Handle(c.cmd, c.given, rs)
    BY <1>8 DEF GitLab!Call
  <2>2. first = GitLab!Handle(c.cmd, c.given, <<>>)
    BY <1>8 DEF GitLab!Call, first
  <2>3. C(GitLab!Handle(c.cmd, c.given, rs))
    BY <1>4, <1>5, <1>6, <1>7, <2>2 DEF GitLab!Handle, GitLab!CreateOrUpdateFile,
      GitLab!PushFiles, GitLab!SearchRepositories, GitLab!CreateRepository,
      GitLab!ListProjectFiles, GitLab!GetFileContents, GitLab!CreateIssue,
      GitLab!CreateMergeRequest, GitLab!ForkRepository, GitLab!CreateBranch,
      GitLab!SearchProjects, GitLab!SearchIssues, GitLab!SearchMergeRequests,
      GitLab!Search, GitLab!Answer
  <2>4. QED
    BY <2>1, <2>3
<1>9. ASSUME ~(GitLab!Settings \subseteq c.cfg) PROVE C(GitLab!Call(c, rs))
  <2>1. GitLab!Call(c, rs) = GitLab!Answer("failure")
    BY <1>9 DEF GitLab!Call
  <2>2. first = GitLab!Answer("failure")
    BY <1>9 DEF GitLab!Call, first
  <2>3. QED
    BY <2>1, <2>2, <1>6 DEF GitLab!Answer
<1>10. QED
  BY <1>8, <1>9 DEF C, first

\* How home_assistant judges the reply to a change (handleResponse).
LEMMA HomeAssistantJudges ==
  ASSUME NEW c, c.tool = "home_assistant", NEW r \in Reply
  PROVE  Tells(c, r, HomeAssistant!HandleResponse(r))
BY RefusalsSay DEF HomeAssistant!HandleResponse, HomeAssistant!Is2xx, Tells, Granted,
   Thrown, Reply

\* Every command of home_assistant asks once, for a change only to call a
\* service, and answers what handleResponse says.
LEMMA HomeAssistantContract ==
  ASSUME NEW c, c.tool = "home_assistant", NEW rs \in Seq(Reply)
  PROVE  Contract(c, rs, HomeAssistant!Call(c, rs), HomeAssistant!Call(c, <<>>))
<1> DEFINE first == HomeAssistant!Call(c, <<>>)
           o == HomeAssistant!HandleResponse(rs[1])
           effect == HomeAssistant!Effect(c.cmd)
           rq == [fn |-> "request", effect |-> effect, what |-> c.cmd, auth |-> TRUE]
<1>1. o \in Outcomes /\ WriteAt(c) = 0 /\ (rs # <<>> => Tells(c, rs[1], o))
  BY Counting, HomeAssistantJudges DEF WriteAt, HomeAssistant!HandleResponse, Outcomes
<1>2. effect \in {"read", "change", "delete"} /\ (effect # "read" <=> c.cmd \in Writes(c.tool))
  BY DEF HomeAssistant!Effect, Writes
<1>3. \/ HomeAssistant!Call(c, rs) = Once(rq, rs, o)
      \/ HomeAssistant!Call(c, rs) = Answer("failure") /\ first = Answer("failure")
  BY DEF HomeAssistant!Call, HomeAssistant!Dispatch, HomeAssistant!Once, Once,
     HomeAssistant!Request, HomeAssistant!Send, HomeAssistant!Answer, Send, Answer
<1> HIDE DEF first, o, effect
<1>4. Contract(c, rs, Once(rq, rs, o), first)
  BY <1>1, <1>2, AskingOnceKeeps
<1>5. first = Answer("failure") => Contract(c, rs, Answer("failure"), first)
  BY RefusingKeeps DEF Answer
<1>6. QED
  BY <1>3, <1>4, <1>5 DEF first

\* How zabbix judges the reply to a change: by the status and by the error
\* that the body may report (rpc).
LEMMA ZabbixJudges ==
  ASSUME NEW c, c.tool = "zabbix", NEW r \in Reply
  PROVE  Tells(c, r, Zabbix!RpcResult(r))
BY RefusalsSay DEF Zabbix!RpcResult, Zabbix!Is2xx, Zabbix!HasJson, HasJson, Tells, Granted,
   Thrown, Reply

\* Every command of zabbix makes one call of its JSON-RPC interface, with the
\* token unless there is none; login changes nothing.
LEMMA ZabbixContract ==
  ASSUME NEW c, c.tool = "zabbix", NEW rs \in Seq(Reply)
  PROVE  Contract(c, rs, Zabbix!Call(c, rs), Zabbix!Call(c, <<>>))
<1> DEFINE first == Zabbix!Call(c, <<>>)
           o == Zabbix!RpcResult(rs[1])
           W == Writes(c.tool)
           AsTheTokenIs(s) == IF "token" \in c.cfg
                              THEN Zabbix!Rpc(c.cmd, Zabbix!Effect(c.cmd), TRUE, s)
                              ELSE Zabbix!Rpc(c.cmd, Zabbix!Effect(c.cmd), FALSE, s)
           Asks(effect, what, auth) ==
               Once([fn |-> "request", effect |-> effect, what |-> what, auth |-> auth], rs, o)
<1>1. o \in Outcomes /\ WriteAt(c) = 0 /\ (rs # <<>> => Tells(c, rs[1], o))
  BY Counting, ZabbixJudges DEF WriteAt, Zabbix!RpcResult, Outcomes
<1>2. ASSUME NEW effect \in {"read", "change", "delete"}, NEW what, NEW auth \in BOOLEAN,
             effect # "read" <=> c.cmd \in W, "token" \in c.cfg => auth
      PROVE  Contract(c, rs, Asks(effect, what, auth), first)
  BY <1>1, <1>2, AskingOnceKeeps
<1>3. \A what, effect : \A auth \in BOOLEAN :
         Zabbix!Rpc(what, effect, auth, rs) = Asks(effect, what, auth)
  BY DEF Zabbix!Rpc, Zabbix!Once, Once, Zabbix!Request, Zabbix!WithoutToken, Zabbix!Send,
     Zabbix!Answer, Send, Answer
<1>4. W = {"create_host", "update_host", "delete_host", "create_item", "update_item",
           "create_trigger", "update_trigger"}
  BY DEF Writes
<1>5. first = Answer("failure") => Contract(c, rs, Answer("failure"), first)
  BY RefusingKeeps DEF Answer
<1>6. \/ Zabbix!Call(c, rs) = Answer("failure") /\ first = Answer("failure")
      \/ /\ c.cmd = "login" /\ "token" \notin c.cfg
         /\ Zabbix!Call(c, rs) = Zabbix!Rpc("user.login", "read", FALSE, rs)
      \/ /\ c.cmd \in Zabbix!Commands \ {"login"}
         /\ Zabbix!Call(c, rs) = AsTheTokenIs(rs)
  <2> DEFINE Ready == {"readable", "url"} \subseteq c.cfg
             Loud == Zabbix!Call(c, rs) = Answer("failure") /\ first = Answer("failure")
  <2>1. ~Ready => Loud
    BY DEF Zabbix!Call, Zabbix!Answer, Answer
  <2>2. Ready => /\ Zabbix!Call(c, rs) = Zabbix!Dispatch(c, rs)
                 /\ first = Zabbix!Dispatch(c, <<>>)
    BY DEF Zabbix!Call
  <2>3. \A s : c.cmd \notin Zabbix!Commands => Zabbix!Dispatch(c, s) = Answer("failure")
    BY DEF Zabbix!Dispatch, Zabbix!Rpc, Zabbix!Commands, Zabbix!Answer, Answer
  <2>4. \A s : c.cmd = "login" => Zabbix!Dispatch(c, s) = Zabbix!DoLogin(c.cfg, s)
    BY DEF Zabbix!Dispatch, Zabbix!Rpc, Zabbix!Commands, Zabbix!Fields
  <2>5. \A s : Zabbix!DoLogin(c.cfg, s) = IF "user" \in c.cfg /\ "token" \notin c.cfg
                                         THEN Zabbix!Rpc("user.login", "read", FALSE, s)
                                         ELSE Answer("failure")
    BY DEF Zabbix!DoLogin, Zabbix!Answer, Answer
  <2>6. \A s : c.cmd \in Zabbix!Commands \ {"login"} =>
          Zabbix!Dispatch(c, s) =
             IF Zabbix!Fields(c.cmd) \subseteq c.given
             THEN AsTheTokenIs(s)
             ELSE Answer("failure")
    BY DEF Zabbix!Dispatch, Zabbix!Rpc, Zabbix!Answer, Answer
  <2> HIDE DEF Ready, first, AsTheTokenIs
  <2>7. CASE ~Ready \/ c.cmd \notin Zabbix!Commands
    BY <2>1, <2>2, <2>3, <2>7
  <2>8. CASE Ready /\ c.cmd = "login"
    BY <2>2, <2>4, <2>5, <2>8
  <2>9. CASE Ready /\ c.cmd \in Zabbix!Commands \ {"login"}
    BY <2>2, <2>6, <2>9
  <2>10. QED
    BY <2>7, <2>8, <2>9
<1>7. c.cmd \in Zabbix!Commands \ {"login"} =>
         /\ Zabbix!Effect(c.cmd) \in {"read", "change", "delete"}
         /\ Zabbix!Effect(c.cmd) # "read" <=> c.cmd \in W
  BY <1>4 DEF Zabbix!Commands, Zabbix!Effect
<1> HIDE DEF first, o, W, Asks
<1>8. CASE c.cmd = "login" /\ "token" \notin c.cfg
           /\ Zabbix!Call(c, rs) = Zabbix!Rpc("user.login", "read", FALSE, rs)
  BY <1>8, <1>2, <1>3, <1>4 DEF first
<1>9. CASE c.cmd \in Zabbix!Commands \ {"login"} /\ Zabbix!Call(c, rs) = AsTheTokenIs(rs)
  <2>1. CASE "token" \in c.cfg
    <3>1. Zabbix!Call(c, rs) = Asks(Zabbix!Effect(c.cmd), c.cmd, TRUE)
      BY <2>1, <1>3, <1>9 DEF AsTheTokenIs
    <3>2. QED
      BY <3>1, <1>2, <1>7, <1>9 DEF first
  <2>2. CASE "token" \notin c.cfg
    <3>1. Zabbix!Call(c, rs) = Asks(Zabbix!Effect(c.cmd), c.cmd, FALSE)
      BY <2>2, <1>3, <1>9 DEF AsTheTokenIs
    <3>2. QED
      BY <2>2, <3>1, <1>2, <1>7, <1>9 DEF first
  <2>3. QED
    BY <2>1, <2>2
<1>10. QED
  BY <1>5, <1>6, <1>8, <1>9 DEF first

\* Every command of wikijs makes one GraphQL request, and hands on as a text
\* whatever was replied.
LEMMA WikiJsContract ==
  ASSUME NEW c, c.tool = "wikijs", NEW rs \in Seq(Reply)
  PROVE  Contract(c, rs, WikiJs!Call(c, rs), WikiJs!Call(c, <<>>))
<1> DEFINE first == WikiJs!Call(c, <<>>)
           C(m) == Contract(c, rs, m, first)
           o == IF rs[1] = Thrown THEN "failure" ELSE "text"
           W == Writes(c.tool)
           Asks(effect, what) == WikiJs!GraphqlRequest(effect, what, c.cfg, rs)
           Fails == first = Answer("failure")
<1>1. o \in Outcomes /\ WriteAt(c) = 0 /\ (rs # <<>> => Tells(c, rs[1], o))
  BY Counting DEF WriteAt, Outcomes, Tells, Granted, Thrown
<1>2. Fails => C(Answer("failure"))
  BY RefusingKeeps DEF Answer
<1>3. ASSUME NEW effect \in {"read", "change", "delete"}, NEW what,
             effect # "read" <=> c.cmd \in W,
             "token" \notin c.cfg => Fails
      PROVE  C(Asks(effect, what))
  <2> DEFINE rq == [fn |-> "request", effect |-> effect, what |-> what, auth |-> TRUE]
  <2>1. Contract(c, rs, Once(rq, rs, o), first)
    BY <1>1, <1>3, AskingOnceKeeps
  <2>2. CASE "token" \in c.cfg
    <3>1. Asks(effect, what) = Once(rq, rs, o)
      BY <2>2 DEF WikiJs!GraphqlRequest, WikiJs!Once, Once, WikiJs!Request, WikiJs!Send,
         WikiJs!Answer, Send, Answer, WikiJs!Thrown, Thrown
    <3>2. QED
      BY <2>1, <3>1
  <2>3. CASE "token" \notin c.cfg
    <3>1. Asks(effect, what) = Answer("failure")
      BY <2>3 DEF WikiJs!GraphqlRequest, WikiJs!Answer, Answer
    <3>2. QED
      BY <2>3, <3>1, <1>2, <1>3
  <2>4. QED
    BY <2>2, <2>3
<1>4. W = {"create_page", "update_page", "delete_page", "restore_page"}
  BY DEF Writes
<1>5. "token" \notin c.cfg \/ "readable" \notin c.cfg => Fails
  BY DEF WikiJs!Call, WikiJs!Handle, WikiJs!SearchPages, WikiJs!GetPage, WikiJs!CreatePage,
     WikiJs!UpdatePage, WikiJs!DeletePage, WikiJs!GetPageHistory, WikiJs!RestorePage,
     WikiJs!GraphqlRequest, WikiJs!Answer, Answer
<1>6. "readable" \notin c.cfg => WikiJs!Call(c, rs) = Answer("failure")
  BY DEF WikiJs!Call, WikiJs!Answer, Answer
<1>7. "readable" \in c.cfg =>
        /\ WikiJs!Call(c, rs) = WikiJs!Handle(c.cmd, c.cfg, rs)
        /\ first = WikiJs!Handle(c.cmd, c.cfg, <<>>)
  BY DEF WikiJs!Call
<1>8. c.cmd \notin WikiJs!Commands =>
        WikiJs!Handle(c.cmd, c.cfg, rs) = Answer("failure")
        /\ WikiJs!Handle(c.cmd, c.cfg, <<>>) = Answer("failure")
  BY DEF WikiJs!Commands, WikiJs!Handle, WikiJs!Answer, Answer
<1>9. c.cmd \in WikiJs!Commands =>
        \E what : \E effect \in {"read", "change", "delete"} :
           /\ WikiJs!Handle(c.cmd, c.cfg, rs) = Asks(effect, what)
           /\ effect # "read" <=> c.cmd \in W
  BY <1>4 DEF WikiJs!Commands, WikiJs!Handle, WikiJs!SearchPages, WikiJs!GetPage,
     WikiJs!CreatePage, WikiJs!UpdatePage, WikiJs!DeletePage, WikiJs!GetPageHistory,
     WikiJs!RestorePage
<1> HIDE DEF C, W, o, first, Asks, Fails
<1>10. C(WikiJs!Call(c, rs))
  BY <1>2, <1>3, <1>5, <1>6, <1>7, <1>8, <1>9 DEF Fails
<1>11. QED
  BY <1>10 DEF C, first

\* How mcwsd judges the reply to a change: by its status alone.
LEMMA McwsdJudges ==
  ASSUME NEW c, c.tool = "mcwsd", NEW r \in Reply
  PROVE  Tells(c, r, Mcwsd!HandleResponse(r))
BY RefusalsSay DEF Mcwsd!HandleResponse, Mcwsd!Is2xx, Tells, Granted, Thrown, Reply

\* Every command of mcwsd asks once for what it does and judges the reply.
LEMMA McwsdContract ==
  ASSUME NEW c, c.tool = "mcwsd", NEW rs \in Seq(Reply)
  PROVE  Contract(c, rs, Mcwsd!Call(c, rs), Mcwsd!Call(c, <<>>))
<1> DEFINE first == Mcwsd!Call(c, <<>>)
           C(m) == Contract(c, rs, m, first)
           cmd == Mcwsd!Canonical(c.cmd)
           o == Mcwsd!HandleResponse(rs[1])
           Asks(fn, effect, what) ==
               Once([fn |-> fn, effect |-> effect, what |-> what, auth |-> TRUE], rs, o)
           Writing == {"prepare_workspace", "exec_command", "safe_edit", "commit_and_pr",
                       "destroy_workspace", "write_file", "start_job", "cancel_job"}
           Reading == {"get_artifacts", "workspace_status", "list_files", "read_file",
                       "list_jobs", "get_job"}
           Fails == first = Answer("failure")
<1>1. o \in Outcomes /\ WriteAt(c) = 0 /\ (rs # <<>> => Tells(c, rs[1], o))
  BY Counting, McwsdJudges DEF WriteAt, Mcwsd!HandleResponse, Outcomes
<1>2. cmd \in Writing <=> c.cmd \in Writes(c.tool)
  BY DEF Writes, Mcwsd!Canonical
<1>3. ASSUME NEW fn, NEW effect \in {"read", "change", "delete"}, NEW what,
             effect # "read" <=> cmd \in Writing
      PROVE  C(Asks(fn, effect, what))
  BY <1>1, <1>2, <1>3, AskingOnceKeeps
<1>4. \A what : /\ Mcwsd!Get(what, rs)    = Asks("get", "read", what)
                /\ Mcwsd!Post(what, rs)   = Asks("post", "change", what)
                /\ Mcwsd!Put(what, rs)    = Asks("put", "change", what)
                /\ Mcwsd!Delete(what, rs) = Asks("delete", "delete", what)
  BY DEF Mcwsd!Get, Mcwsd!Post, Mcwsd!Put, Mcwsd!Delete, Mcwsd!Once, Mcwsd!Request,
     Mcwsd!Send, Mcwsd!Answer, Once, Send, Answer
<1>5. Fails => C(Answer("failure"))
  BY RefusingKeeps DEF Answer
<1>6. \/ Mcwsd!Call(c, rs) = Answer("failure") /\ Fails
      \/ Mcwsd!Call(c, rs) = Mcwsd!Handle(cmd, rs) /\ first = Mcwsd!Handle(cmd, <<>>)
  BY DEF Mcwsd!Call, Mcwsd!Answer, Answer
<1>7. cmd \in Reading => \E what : Mcwsd!Handle(cmd, rs) = Mcwsd!Get(what, rs)
  BY DEF Mcwsd!Handle
<1>8. cmd \in Writing => \E what : \/ Mcwsd!Handle(cmd, rs) = Mcwsd!Post(what, rs)
                                   \/ Mcwsd!Handle(cmd, rs) = Mcwsd!Put(what, rs)
                                   \/ Mcwsd!Handle(cmd, rs) = Mcwsd!Delete(what, rs)
  BY DEF Mcwsd!Handle
<1>9. cmd \notin Reading \cup Writing => \A s : Mcwsd!Handle(cmd, s) = Answer("failure")
  BY DEF Mcwsd!Handle, Mcwsd!Answer, Answer
<1>10. cmd \in Reading => cmd \notin Writing
  OBVIOUS
<1> HIDE DEF C, cmd, o, first, Asks, Reading, Writing
<1>11. CASE cmd \in Reading
  <2>1. PICK what : Mcwsd!Handle(cmd, rs) = Mcwsd!Get(what, rs)
    BY <1>11, <1>7
  <2>2. C(Mcwsd!Handle(cmd, rs))
    BY <2>1, <1>11, <1>3, <1>4, <1>10
  <2>3. QED
    BY <2>2, <1>5, <1>6 DEF C, first
<1>12. CASE cmd \in Writing
  <2>1. PICK what : \/ Mcwsd!Handle(cmd, rs) = Mcwsd!Post(what, rs)
                    \/ Mcwsd!Handle(cmd, rs) = Mcwsd!Put(what, rs)
                    \/ Mcwsd!Handle(cmd, rs) = Mcwsd!Delete(what, rs)
    BY <1>12, <1>8
  <2>2. /\ C(Asks("post", "change", what))
        /\ C(Asks("put", "change", what))
        /\ C(Asks("delete", "delete", what))
    BY <1>12, <1>3
  <2>3. C(Mcwsd!Handle(cmd, rs))
    BY <2>1, <2>2, <1>4
  <2>4. QED
    BY <2>3, <1>5, <1>6 DEF C, first
<1>13. CASE cmd \notin Reading \cup Writing
  BY <1>13, <1>5, <1>6, <1>9 DEF C, first
<1>14. QED
  BY <1>11, <1>12, <1>13

\* A command of gitea asks at most once for a change; only
\* create_or_update_file asks for something before that, the file that is there.
LEMMA GiteaContract ==
  ASSUME NEW c, c.tool = "gitea", NEW rs \in Seq(Reply)
  PROVE  Contract(c, rs, Gitea!Call(c, rs), Gitea!Call(c, <<>>))
<1> DEFINE first == Gitea!Call(c, <<>>)
           C(m) == Contract(c, rs, m, first)
           Asks(effect, what, auth, o) ==
               Once([fn |-> "request", effect |-> effect, what |-> what, auth |-> auth], rs, o)
           Writing == {"push_files", "create_repository", "create_issue",
                       "create_merge_request", "fork_repository", "create_branch"}
           Reading == {"search_repositories", "list_project_files", "get_file_contents",
                       "search_projects", "search_issues", "search_merge_requests"}
<1>1. \A r : Gitea!Judged(r) \in Outcomes
  BY DEF Gitea!Judged, Outcomes
<1>2. \A o \in Outcomes : C(Answer(o))
  BY DEF Contract, IsMove, ChangesOnce, Answer
<1>3. c.cmd \in Writes(c.tool) <=> c.cmd \in Writing \cup {"create_or_update_file",
                                                           "update_file"}
  BY DEF Writes
<1>4. \/ Gitea!Call(c, rs) \in {Answer("throws"), Answer("failure")}
      \/ Gitea!Call(c, rs) = Gitea!Handle(c.cmd, c.given, rs)
  BY DEF Gitea!Call, Gitea!Answer, Answer
<1>5. \A what : Gitea!WithoutToken(Gitea!Request("request", "read", what))
                 = [fn |-> "request", effect |-> "read", what |-> what, auth |-> FALSE]
  <2>1. PICK b \in BOOLEAN : b = FALSE
    OBVIOUS
  <2>2. \A what : (IF b THEN Gitea!Request("request", "read", what)
                        ELSE Gitea!WithoutToken(Gitea!Request("request", "read", what)))
                  = [fn |-> "request", effect |-> "read", what |-> what, auth |-> b]
    BY DEF Gitea!Request, Gitea!WithoutToken
  <2>3. QED
    BY <2>1, <2>2
<1>6. c.cmd \in Reading =>
         \E what : Gitea!Handle(c.cmd, c.given, rs) = Asks("read", what, FALSE, Gitea!Judged(rs[1]))
  <2>1. \A what : Gitea!Get(what, rs) = Asks("read", what, FALSE, Gitea!Judged(rs[1]))
    <3>1. QED
      BY <1>5 DEF Gitea!Get, Gitea!Once, Once, Gitea!Send, Gitea!Answer, Send, Answer
  <2> HIDE DEF Asks
  <2>2. c.cmd \in Reading => \E what : Gitea!Handle(c.cmd, c.given, rs) = Gitea!Get(what, rs)
    BY DEF Gitea!Handle, Gitea!SearchRepositories, Gitea!ListProjectFiles,
     Gitea!GetFileContents, Gitea!SearchProjects, Gitea!SearchIssues,
     Gitea!SearchMergeRequests
  <2>3. QED
    BY <2>1, <2>2
<1>7. c.cmd \in Writing =>
         \E what : \E o \in Outcomes :
            Gitea!Handle(c.cmd, c.given, rs) = Asks("change", what, TRUE, o)
  <2>1. \A what, o : Gitea!Once(Gitea!Request("request", "change", what), rs, o)
                     = Asks("change", what, TRUE, o)
    BY DEF Gitea!Once, Once, Gitea!Request, Gitea!Send, Gitea!Answer, Send, Answer
  <2>2. \A what : Gitea!Post(what, rs) = Asks("change", what, TRUE, Gitea!Judged(rs[1]))
    BY <2>1 DEF Gitea!Post
  <2>3. \E o \in Outcomes : Gitea!PushFiles(c.given, rs) = Asks("change", "files", TRUE, o)
    BY <1>1, <2>1 DEF Gitea!PushFiles, Outcomes
  <2> HIDE DEF Asks
  <2>4. c.cmd \in Writing \ {"push_files"} =>
           \E what : Gitea!Handle(c.cmd, c.given, rs) = Gitea!Post(what, rs)
    BY DEF Gitea!Handle, Gitea!CreateRepository, Gitea!CreateIssue,
       Gitea!CreateMergeRequest, Gitea!ForkRepository, Gitea!CreateBranch
  <2>5. c.cmd = "push_files" => Gitea!Handle(c.cmd, c.given, rs) = Gitea!PushFiles(c.given, rs)
    BY DEF Gitea!Handle
  <2>6. QED
    BY <1>1, <2>2, <2>3, <2>4, <2>5
<1> HIDE DEF first
<1>8. ASSUME C(Gitea!Handle(c.cmd, c.given, rs)) PROVE C(Gitea!Call(c, rs))
  BY <1>4, <1>2, <1>8 DEF Outcomes
<1>9. ASSUME c.cmd \in Reading \cup Writing
      PROVE  C(Gitea!Handle(c.cmd, c.given, rs))
  <2>1. WriteAt(c) = 0
    BY <1>9 DEF WriteAt
  <2>2. CASE c.cmd \in Reading
    <3>1. c.cmd \notin Writes(c.tool)
      BY <2>2, <1>3
    <3>2. PICK what : Gitea!Handle(c.cmd, c.given, rs)
                      = Asks("read", what, FALSE, Gitea!Judged(rs[1]))
      BY <2>2, <1>6
    <3>3. QED
      BY <3>1, <3>2, <2>1, <1>1, AskingOnceKeeps
  <2>3. CASE c.cmd \in Writing
    <3>1. c.cmd \in Writes(c.tool)
      BY <2>3, <1>3
    <3>2. PICK what : \E o \in Outcomes :
             Gitea!Handle(c.cmd, c.given, rs) = Asks("change", what, TRUE, o)
      BY <2>3, <1>7
    <3>3. QED
      BY <3>1, <3>2, <2>1, AskingOnceKeeps
  <2>4. QED
    BY <2>2, <2>3, <1>9
<1>10. ASSUME c.cmd = "create_or_update_file"
      PROVE  C(Gitea!Handle(c.cmd, c.given, rs))
  <2>1. Gitea!Handle(c.cmd, c.given, rs) = Gitea!CreateOrUpdateFile(rs)
    BY <1>10 DEF Gitea!Handle
  <2>2. WriteAt(c) = 1 /\ c.cmd \in Writes(c.tool)
    BY <1>3, <1>10 DEF WriteAt
  <2>3. CASE Len(rs) = 0
    <3>1. Gitea!CreateOrUpdateFile(rs) = Send([fn |-> "request", effect |-> "read",
                                               what |-> "file", auth |-> FALSE])
      <4>1. Gitea!CreateOrUpdateFile(rs) = Gitea!Send(Gitea!ReadFile)
        BY <2>3 DEF Gitea!CreateOrUpdateFile
      <4>2. Gitea!ReadFile = [fn |-> "request", effect |-> "read", what |-> "file",
                              auth |-> FALSE]
        BY <1>5 DEF Gitea!ReadFile
      <4>3. QED
        BY <4>1, <4>2 DEF Gitea!Send, Send
    <3>2. C(Send([fn |-> "request", effect |-> "read", what |-> "file", auth |-> FALSE]))
      <4> DEFINE m == Send([fn |-> "request", effect |-> "read", what |-> "file", auth |-> FALSE])
      <4>1. m.do = "send" /\ ~Changes(m.request)
        BY DEF Send, Changes
      <4>2. QED
        BY <4>1, <2>2, <2>3 DEF Contract, IsMove, ChangesOnce
    <3>3. QED
      BY <3>1, <3>2, <2>1
  <2>4. CASE Len(rs) = 1
    <3>1. \/ Gitea!CreateOrUpdateFile(rs) = Answer("throws")
          \/ \E what : Gitea!CreateOrUpdateFile(rs) =
                Send([fn |-> "request", effect |-> "change", what |-> what, auth |-> TRUE])
      <4>1. \/ Gitea!CreateOrUpdateFile(rs) = Gitea!Answer("throws")
            \/ Gitea!CreateOrUpdateFile(rs) = Gitea!Send(Gitea!WriteFile(rs[1]))
        BY <2>4 DEF Gitea!CreateOrUpdateFile
      <4>2. \E what : Gitea!WriteFile(rs[1]) = [fn |-> "request", effect |-> "change",
                                                what |-> what, auth |-> TRUE]
        BY DEF Gitea!WriteFile, Gitea!Request
      <4>3. QED
        BY <4>1, <4>2 DEF Gitea!Send, Gitea!Answer, Send, Answer
    <3>2. ASSUME NEW what
          PROVE  C(Send([fn |-> "request", effect |-> "change", what |-> what,
                         auth |-> TRUE]))
      <4> DEFINE m == Send([fn |-> "request", effect |-> "change", what |-> what,
                            auth |-> TRUE])
      <4>1. m.do = "send" /\ Changes(m.request) /\ m.request.auth
        BY DEF Send, Changes
      <4>2. QED
        BY <4>1, <2>2, <2>4 DEF Contract, IsMove, ChangesOnce
    <3>3. C(Answer("throws"))
      BY <1>2 DEF Outcomes
    <3>4. QED
      BY <3>1, <3>2, <3>3, <2>1
  <2>5. CASE Len(rs) \notin {0, 1}
    <3>1. Gitea!CreateOrUpdateFile(rs) = Answer(Gitea!Judged(rs[2]))
      BY <2>5 DEF Gitea!CreateOrUpdateFile, Gitea!Answer, Answer
    <3>2. QED
      BY <3>1, <2>1, <1>1, <1>2
  <2>6. QED
    BY <2>3, <2>4, <2>5
<1>11. ASSUME c.cmd \notin Reading \cup Writing \cup {"create_or_update_file"}
      PROVE  C(Gitea!Handle(c.cmd, c.given, rs))
  <2>1. Gitea!Handle(c.cmd, c.given, rs) = Answer("failure")
    BY <1>11 DEF Gitea!Handle, Gitea!Answer, Answer
  <2>2. QED
    BY <2>1, <1>2 DEF Outcomes
<1>12. QED
  BY <1>9, <1>10, <1>11, <1>8 DEF first

\* Every other plugin makes one request, which changes something only when it is
\* of http_request_post, http_request_put or http_request_delete, which have no
\* token.
LEMMA QueryContract ==
  ASSUME NEW c, c.tool \in Query!Tools, c.cfg \subseteq Query!Settings(c.tool),
         c.cmd \in Query!Commands(c.tool) \cup {"unknown"}, NEW rs \in Seq(Reply)
  PROVE  Contract(c, rs, Query!Call(c, rs), Query!Call(c, <<>>))
<1> DEFINE first == Query!Call(c, <<>>)
           C(m) == Contract(c, rs, m, first)
           Writing == {"http_request_post", "http_request_put", "http_request_delete"}
           Asks(fn, effect, what, auth, o) ==
               Once([fn |-> fn, effect |-> effect, what |-> what, auth |-> auth], rs, o)
           Passed(onError) == Query!Passed(rs[1], onError)
           Reads(m) == \E fn, what : \E o \in Outcomes :
                          \/ m = Asks(fn, "read", what, TRUE, o)
                          \/ m = Asks(fn, "read", what, FALSE, o)
           Fine(m, m0) == \/ Reads(m)
                          \/ \E o \in {"failure", "throws"} : m = Answer(o) /\ m0 = Answer(o)
<1>1. WriteAt(c) = 0 /\ c.tool # "gitea"
  BY DEF WriteAt, Query!Tools
<1>2. c.cmd \in Writes(c.tool) <=> c.tool \in Writing
  BY DEF Writes, Query!Commands, Query!Tools
<1>3. Passed("throws") \in Outcomes /\ Passed("failure") \in Outcomes
      /\ Query!Judged200(rs[1]) \in Outcomes
  BY DEF Query!Passed, Query!Judged200, Outcomes
<1>4. /\ rs # <<>> => Tells(c, rs[1], Passed("throws"))
      /\ rs # <<>> /\ c.tool \in ThrowsAfterwards => Tells(c, rs[1], "throws")
  BY Counting DEF Query!Passed, Query!Thrown, Thrown, Tells, Granted
<1>5. ASSUME c.tool \notin Writing, NEW fn, NEW what, NEW auth \in BOOLEAN,
             NEW o \in Outcomes
      PROVE  C(Asks(fn, "read", what, auth, o))
  BY <1>1, <1>2, <1>5, AskingOnceKeeps
<1>6. ASSUME c.tool \in Writing, NEW fn, NEW effect \in {"change", "delete"}, NEW what
      PROVE  /\ C(Asks(fn, effect, what, FALSE, Passed("throws")))
             /\ c.tool \in ThrowsAfterwards =>
                   C(Asks(fn, effect, what, FALSE, "throws"))
  <2>1. "token" \notin c.cfg
    BY <1>6 DEF Query!Settings
  <2>2. "throws" \in Outcomes
    BY DEF Outcomes
  <2>3. C(Asks(fn, effect, what, FALSE, Passed("throws")))
    BY <1>1, <1>2, <1>3, <1>4, <1>6, <2>1, AskingOnceKeeps
  <2>4. c.tool \in ThrowsAfterwards => C(Asks(fn, effect, what, FALSE, "throws"))
    BY <1>1, <1>2, <1>4, <1>6, <2>1, <2>2, AskingOnceKeeps
  <2>5. QED
    BY <2>3, <2>4
<1>7. \A o \in {"failure", "throws"} : first.do = "answer" => C(Answer(o))
  BY RefusingKeeps
<1>8. \A fn, what, effect, o :
         Query!Once(Query!Request(fn, effect, what), rs, o) = Asks(fn, effect, what, TRUE, o)
  BY DEF Query!Once, Once, Query!Request, Query!Send, Query!Answer, Send, Answer
<1>9. \A fn, effect, what, o :
         Query!Once(Query!WithoutToken(Query!Request(fn, effect, what)), rs, o)
           = Asks(fn, effect, what, FALSE, o)
  <2>1. PICK b \in BOOLEAN : b = FALSE
    OBVIOUS
  <2>2. \A fn, effect, what : (IF b THEN Query!Request(fn, effect, what)
                        ELSE Query!WithoutToken(Query!Request(fn, effect, what)))
                  = [fn |-> fn, effect |-> effect, what |-> what, auth |-> b]
    BY DEF Query!Request, Query!WithoutToken
  <2>3. \A fn, effect, what : Query!WithoutToken(Query!Request(fn, effect, what))
                      = [fn |-> fn, effect |-> effect, what |-> what, auth |-> FALSE]
    BY <2>1, <2>2
  <2>4. QED
    BY <2>3 DEF Query!Once, Once, Query!Send, Query!Answer, Send, Answer
<1>10. c.tool \in Writing => \E fn, what : \E effect \in {"change", "delete"} :
         \/ Query!Call(c, rs) = Asks(fn, effect, what, FALSE, Passed("throws"))
         \/ /\ c.tool \in ThrowsAfterwards
            /\ Query!Call(c, rs) = Asks(fn, effect, what, FALSE, "throws")
  <2> HIDE DEF Asks, Passed
  <2>1. Query!HttpRequestPost(rs) = Asks("post", "change", "url", FALSE, Passed("throws"))
    BY <1>9 DEF Query!HttpRequestPost, Passed
  <2>2. Query!HttpRequestPut(rs) = Asks("put", "change", "url", FALSE, "throws")
    BY <1>9 DEF Query!HttpRequestPut
  <2>3. Query!HttpRequestDelete(rs) = Asks("delete", "delete", "url", FALSE, "throws")
    BY <1>9 DEF Query!HttpRequestDelete
  <2>4. /\ c.tool = "http_request_post" => Query!Call(c, rs) = Query!HttpRequestPost(rs)
        /\ c.tool = "http_request_put" => Query!Call(c, rs) = Query!HttpRequestPut(rs)
        /\ c.tool = "http_request_delete" => Query!Call(c, rs) = Query!HttpRequestDelete(rs)
    BY DEF Query!Call
  <2>5. QED
    BY <2>1, <2>2, <2>3, <2>4 DEF ThrowsAfterwards
<1>11. c.tool \notin Writing => Fine(Query!Call(c, rs), first)
  <2>1. \A fn, what : \A o \in Outcomes :
           Reads(Query!Once(Query!Request(fn, "read", what), rs, o))
    <3>1. ASSUME NEW fn, NEW what, NEW o \in Outcomes
          PROVE  Reads(Query!Once(Query!Request(fn, "read", what), rs, o))
      <4>1. Query!Once(Query!Request(fn, "read", what), rs, o)
            = Asks(fn, "read", what, TRUE, o)
        BY <1>8
      <4> HIDE DEF Asks
      <4>2. QED
        BY <4>1, Zenon
    <3>2. QED
      BY <3>1
  <2>2. \A fn, what : \A o \in Outcomes :
           Reads(Query!Once(Query!WithoutToken(Query!Request(fn, "read", what)), rs, o))
    <3>1. ASSUME NEW fn, NEW what, NEW o \in Outcomes
          PROVE  Reads(Query!Once(Query!WithoutToken(Query!Request(fn, "read", what)), rs, o))
      <4>1. Query!Once(Query!WithoutToken(Query!Request(fn, "read", what)), rs, o)
            = Asks(fn, "read", what, FALSE, o)
        BY <1>9
      <4> HIDE DEF Asks
      <4>2. QED
        BY <4>1, Zenon
    <3>2. QED
      BY <3>1
  <2> HIDE DEF Reads
  <2>3. \A what : \A o \in Outcomes : Reads(Query!Read(what, rs, o))
    BY <2>1 DEF Query!Read
  <2>4. "text" \in Outcomes /\ "throws" \in Outcomes /\ "failure" \in Outcomes
    BY DEF Outcomes
  <2> USE DEF Query!Answer, Answer
  <2>5. Fine(Query!Proxmox(c, rs), Query!Proxmox(c, <<>>))
    BY <2>3, <2>4 DEF Query!Proxmox, Query!Read, Query!Once
  <2>6. Fine(Query!Gmail(c, rs), Query!Gmail(c, <<>>))
    BY <1>3, <2>3 DEF Query!Gmail, Query!Mail
  <2>7. Fine(Query!Outlook(c, rs), Query!Outlook(c, <<>>))
    BY <2>3, <2>4 DEF Query!Outlook, Query!Mail
  <2>8. Fine(Query!Kibana(c, rs), Query!Kibana(c, <<>>))
    BY <1>3, <2>1, <2>2 DEF Query!Kibana
  <2>9. Fine(Query!Elastic7(c, rs), Query!Elastic7(c, <<>>))
    BY <1>3, <2>1 DEF Query!Elastic7
  <2>10. Fine(Query!GoogleSearch(c, rs), Query!GoogleSearch(c, <<>>))
    BY <2>3, <2>4 DEF Query!GoogleSearch
  <2>11. Fine(Query!GetIp(rs), Query!GetIp(<<>>))
    BY <2>2, <2>4 DEF Query!GetIp
  <2>12. Fine(Query!WebSearch(rs), Query!WebSearch(<<>>))
    BY <1>3, <2>2 DEF Query!WebSearch
  <2>13. Fine(Query!HttpRequestGet(rs), Query!HttpRequestGet(<<>>))
    BY <1>3, <2>2 DEF Query!HttpRequestGet, Passed
  <2> HIDE DEF Fine
  <2>14. ASSUME NEW s
         PROVE  /\ c.tool = "proxmox" => Query!Call(c, s) = Query!Proxmox(c, s)
                /\ c.tool = "gmail" => Query!Call(c, s) = Query!Gmail(c, s)
                /\ c.tool = "outlook" => Query!Call(c, s) = Query!Outlook(c, s)
                /\ c.tool = "kibana" => Query!Call(c, s) = Query!Kibana(c, s)
                /\ c.tool = "opensearch" => Query!Call(c, s) = Query!Kibana(c, s)
                /\ c.tool = "elastic7" => Query!Call(c, s) = Query!Elastic7(c, s)
                /\ c.tool = "elastic8" => Query!Call(c, s) = Query!Elastic7(c, s)
                /\ c.tool = "google_search" => Query!Call(c, s) = Query!GoogleSearch(c, s)
                /\ c.tool = "get_ip" => Query!Call(c, s) = Query!GetIp(s)
                /\ c.tool = "websearch" => Query!Call(c, s) = Query!WebSearch(s)
                /\ c.tool = "http_request_get" => Query!Call(c, s) = Query!HttpRequestGet(s)
    <3>1. c.tool = "proxmox" => Query!Call(c, s) = Query!Proxmox(c, s)
      BY DEF Query!Call
    <3>2. c.tool = "gmail" => Query!Call(c, s) = Query!Gmail(c, s)
      BY DEF Query!Call
    <3>3. c.tool = "outlook" => Query!Call(c, s) = Query!Outlook(c, s)
      BY DEF Query!Call
    <3>4. c.tool = "kibana" => Query!Call(c, s) = Query!Kibana(c, s)
      BY DEF Query!Call
    <3>5. c.tool = "opensearch" => Query!Call(c, s) = Query!Kibana(c, s)
      BY DEF Query!Call, Query!OpenSearch
    <3>6. c.tool = "elastic7" => Query!Call(c, s) = Query!Elastic7(c, s)
      BY DEF Query!Call
    <3>7. c.tool = "elastic8" => Query!Call(c, s) = Query!Elastic7(c, s)
      BY DEF Query!Call, Query!Elastic8
    <3>8. c.tool = "google_search" => Query!Call(c, s) = Query!GoogleSearch(c, s)
      BY DEF Query!Call
    <3>9. c.tool = "get_ip" => Query!Call(c, s) = Query!GetIp(s)
      BY DEF Query!Call
    <3>10. c.tool = "websearch" => Query!Call(c, s) = Query!WebSearch(s)
      BY DEF Query!Call
    <3>11. c.tool = "http_request_get" => Query!Call(c, s) = Query!HttpRequestGet(s)
      BY DEF Query!Call
    <3>12. QED
      BY <3>1, <3>2, <3>3, <3>4, <3>5, <3>6, <3>7, <3>8, <3>9, <3>10, <3>11
  <2>15. c.tool \notin Writing =>
           c.tool \in {"proxmox", "gmail", "outlook", "kibana", "opensearch", "elastic7",
                      "elastic8", "google_search", "get_ip", "websearch", "http_request_get"}
    BY DEF Query!Tools
  <2>16. QED
    BY <2>5, <2>6, <2>7, <2>8, <2>9, <2>10, <2>11, <2>12, <2>13, <2>14, <2>15 DEF first
<1> HIDE DEF C, first, Asks, Writing, Passed
<1>12. CASE c.tool \in Writing
  BY <1>6, <1>10, <1>12 DEF C, first
<1>13. CASE c.tool \notin Writing
  <2>1. CASE Reads(Query!Call(c, rs))
    BY <2>1, <1>5, <1>13 DEF C, first
  <2>2. CASE \E o \in {"failure", "throws"} : Query!Call(c, rs) = Answer(o) /\ first = Answer(o)
    BY <2>2, <1>7 DEF C, first, Answer
  <2>3. QED
    BY <1>11, <1>13, <2>1, <2>2
<1>14. QED
  BY <1>12, <1>13

-----------------------------------------------------------------------------
(* The lookup of an article.                                               *)

\* What a lookup goes by: the three replies that show what page it is, and
\* that nothing is asked for twice of a page known to be none.
LEMMA WikipediaMoves ==
  ASSUME NEW c, NEW rs \in Seq(Reply)
  PROVE  LET m == Wikipedia!Call(c, rs)
         IN IsMove(m) /\ (m.do = "send" => ~Changes(m.request))
<1> DEFINE Fine(m) == IsMove(m) /\ (m.do = "send" => ~Changes(m.request))
<1>1. \A what : Fine(Wikipedia!Fetch(what))
  <2>1. PICK b \in BOOLEAN : b = FALSE
    OBVIOUS
  <2>2. \A what : (IF b THEN Wikipedia!Request("request", "read", what)
                        ELSE Wikipedia!WithoutToken(Wikipedia!Request("request", "read", what)))
                  = [fn |-> "request", effect |-> "read", what |-> what, auth |-> b]
    BY DEF Wikipedia!Request, Wikipedia!WithoutToken
  <2>3. ASSUME NEW what PROVE Fine(Wikipedia!Fetch(what))
    <3>1. Wikipedia!Fetch(what) = Send([fn |-> "request", effect |-> "read", what |-> what,
                                        auth |-> FALSE])
      BY <2>1, <2>2 DEF Wikipedia!Fetch, Wikipedia!Send, Send
    <3>2. QED
      BY <3>1 DEF IsMove, Changes, Send
  <2>4. QED
    BY <2>3
<1>2. \A o \in Outcomes : Fine(Wikipedia!Answer(o))
  BY DEF IsMove, Wikipedia!Answer
<1>3. {"success", "failure", "ambiguous"} \subseteq Outcomes
  BY DEF Outcomes
<1> HIDE DEF Fine
<1>4. Fine(Wikipedia!SearchMode(rs))
  BY <1>1, <1>2, <1>3 DEF Wikipedia!SearchMode, Wikipedia!SearchTitles
<1>5. \A detail : Fine(Wikipedia!Finish(detail, rs))
  BY <1>2, <1>3 DEF Wikipedia!Finish, Wikipedia!HandleDisambiguation
<1>6. \A detail, k : Fine(Wikipedia!Links(detail, rs, k))
  BY <1>1, <1>5 DEF Wikipedia!Links, Wikipedia!FetchLinks
<1>7. \A detail, k : Fine(Wikipedia!Extract(detail, rs, k))
  BY <1>1, <1>2, <1>3, <1>6 DEF Wikipedia!Extract, Wikipedia!FetchExtract
<1>8. Fine(Wikipedia!Brief(rs))
  BY <1>6, <1>7 DEF Wikipedia!Brief
<1>9. Fine(Wikipedia!Standard(rs))
  BY <1>1, <1>2, <1>3, <1>6, <1>7 DEF Wikipedia!Standard, Wikipedia!FetchExtract,
     Wikipedia!FetchSections, Wikipedia!FetchSectionText
<1>10. Fine(Wikipedia!Full(rs))
  BY <1>2, <1>3, <1>7 DEF Wikipedia!Full, Wikipedia!HandleDisambiguation
<1>11. \A detail : Fine(Wikipedia!LookupMode(detail, rs))
  BY <1>1, <1>2, <1>3, <1>8, <1>9, <1>10 DEF Wikipedia!LookupMode, Wikipedia!SearchTitles,
     Wikipedia!FetchRestSummary, Wikipedia!HandleDisambiguation
<1>12. QED
  BY <1>2, <1>3, <1>4, <1>11 DEF Wikipedia!Call, Fine

\* A tool's next move, whichever tool it is.
LEMMA MovesKeepTheContract ==
  ASSUME NEW c, c.tool \in Tools, c.cmd \in Commands(c.tool) \cup {"unknown"},
         c.cfg \subseteq Settings(c.tool), NEW rs \in Seq(Reply)
  PROVE  /\ IsMove(Move(c, rs))
         /\ c.tool # "wikipedia" => Contract(c, rs, Move(c, rs), Move(c, <<>>))
         /\ c.tool = "wikipedia" => /\ ~(c.cmd \in Writes(c.tool))
                                    /\ Move(c, rs).do = "send" => ~Changes(Move(c, rs).request)
         /\ c.tool = "wikipedia" => Move(c, rs) = Wikipedia!Call(c, rs)
<1>1. CASE c.tool = "gitlab"
  BY <1>1, GitLabContract DEF Move, Contract
<1>2. CASE c.tool = "gitea"
  BY <1>2, GiteaContract DEF Move, Contract
<1>3. CASE c.tool = "home_assistant"
  BY <1>3, HomeAssistantContract DEF Move, Contract
<1>4. CASE c.tool = "zabbix"
  BY <1>4, ZabbixContract DEF Move, Contract
<1>5. CASE c.tool = "wikijs"
  BY <1>5, WikiJsContract DEF Move, Contract
<1>6. CASE c.tool = "wikipedia"
  BY <1>6, WikipediaMoves DEF Move, Writes
<1>7. CASE c.tool = "mcwsd"
  BY <1>7, McwsdContract DEF Move, Contract
<1>8. CASE c.tool \in Query!Tools
  <2>1. c.tool \notin {"gitlab", "gitea", "home_assistant", "zabbix", "wikijs", "wikipedia",
                       "mcwsd"}
    BY <1>8 DEF Query!Tools
  <2>2. \A s : Move(c, s) = Query!Call(c, s)
    BY <2>1 DEF Move
  <2>3. /\ c.cmd \in Query!Commands(c.tool) \cup {"unknown"}
        /\ c.cfg \subseteq Query!Settings(c.tool)
    BY <2>1 DEF Commands, Settings
  <2>4. QED
    BY <1>8, <2>1, <2>2, <2>3, QueryContract DEF Contract
<1>9. QED
  BY <1>1, <1>2, <1>3, <1>4, <1>5, <1>6, <1>7, <1>8 DEF Tools

-----------------------------------------------------------------------------
(* The state of a call.                                                    *)

Writing == call.cmd \in Writes(call.tool)

\* There is a call unless there is none yet, and everything else is of its kind.
Typed ==
    /\ phase \in {"idle", "thinking", "waiting", "answered"}
    /\ phase = "idle" <=> call = NoCall
    /\ phase # "idle" => /\ call.tool \in Tool
                         /\ call.cmd \in Commands(call.tool) \cup {"unknown"}
                         /\ call.cfg \subseteq Settings(call.tool)
    /\ page \in Page
    /\ replies \in Seq(Reply)
    /\ late \in Nat /\ done \in Nat
    /\ phase = "waiting" => request.fn \in HostFunctions
    /\ phase # "waiting" => request = NoRequest /\ back = NoReply
    /\ phase # "answered" => outcome = "none"
    /\ back \in Reply

\* Whatever the plugin is at, it is the one next move that its replies lead to.
Following ==
    /\ phase = "waiting" => /\ Move(call, replies).do = "send"
                            /\ request = Move(call, replies).request
    /\ phase = "answered" => /\ Move(call, replies).do = "answer"
                             /\ outcome = Move(call, replies).outcome
    /\ phase # "idle" /\ replies # <<>> => Move(call, <<>>).do = "send"

\* There is at most one change, made or on its way, only of a command that is
\* for one, and only once the plugin has asked for it.
AtMostOne ==
    /\ phase = "idle" => done = 0 /\ late = 0 /\ replies = <<>>
    /\ done + late \in {0, 1}
    /\ done + late = 1 =>
          /\ Writing
          /\ \/ phase = "waiting" /\ back # NoReply /\ Changes(request)
             \/ Len(replies) > WriteAt(call)

\* The reply to a change that was made is the one that comes back and the last
\* one that the plugin gets.
Confirmed ==
    confirmed # NoReply =>
       /\ Writing /\ done = 1
       /\ Granted(confirmed)
       /\ phase = "waiting" => back = confirmed
       /\ phase # "waiting" => /\ Len(replies) = WriteAt(call) + 1
                               /\ replies[Len(replies)] = confirmed

\* Without the change there is nothing but a refusal, or no reply.
Refused ==
    Writing /\ call.tool # "gitea" =>
       /\ replies # <<>> => done = 1 \/ replies[1] \in Refusals(call.tool) \cup {Thrown}
       /\ back # NoReply => done = 1 \/ back \in Refusals(call.tool)

\* What is said of a page is said with status 200 and parses, and a page known
\* to be none is not looked at any further.
Sincere(reply) == reply.body \cap Signs # {} => Wikipedia!Good(reply)

Looking ==
    call.tool = "wikipedia" =>
       /\ \A k \in 1 .. Len(replies) : Sincere(replies[k])
       /\ back # NoReply => Sincere(back)
       /\ call.cmd = "full" /\ Len(replies) > 3 => ~Wikipedia!Titled(replies)

AsPromised == /\ Typed /\ Following /\ AtMostOne
              /\ Confirmed /\ Refused /\ Looking

\* One more reply, after the others.
LEMMA Appending ==
  ASSUME NEW s \in Seq(Reply), NEW x \in Reply
  PROVE  /\ Append(s, x) \in Seq(Reply) /\ Append(s, x) # <<>>
         /\ Len(Append(s, x)) = Len(s) + 1
         /\ Append(s, x)[Len(s) + 1] = x
         /\ \A k \in 1 .. Len(s) : Append(s, x)[k] = s[k]
         /\ s = <<>> => Append(s, x)[1] = x
         /\ s # <<>> => Append(s, x)[1] = s[1]
<1>1. Len(s) \in Nat /\ (s = <<>> <=> Len(s) = 0)
  BY Counting
<1>2. QED
  BY <1>1

\* No reply at all, and no request, are like no other.
LEMMA NothingIsNothing ==
  /\ Thrown \in Reply /\ NoReply \in Reply /\ Thrown # NoReply
  /\ NoReply.status = -1 /\ Thrown.status = 0 /\ Thrown.body = {}
  /\ NoRequest.fn = "none"
<1>1. NoRequest.fn = "none"
  <2>1. \A r : "fn" \in DOMAIN r => [r EXCEPT !["auth"] = FALSE]["fn"] = r["fn"]
    OBVIOUS
  <2>2. QED
    BY <2>1 DEF NoRequest, WithoutToken, Request
<1>2. Thrown \in Reply /\ Thrown.status = 0 /\ Thrown.body = {}
  BY DEF Thrown, Reply
<1>3. NoReply \in Reply /\ NoReply.status = -1
  BY DEF NoReply, Thrown, Reply
<1>4. QED
  BY <1>1, <1>2, <1>3

\* A service that has done what it was asked for says nothing of an error.
LEMMA ResultsSay ==
  ASSUME NEW tool, NEW what, NEW r \in Results(tool, what)
  PROVE  r \in Reply /\ r # NoReply /\ Granted(r)
<1> DEFINE Said == {Json, Json \cup {"ok"}, {"text"}, Json \cup {"sha"}}
           Empty == [status |-> 204, body |-> {}]
<1>1. r \in [status : {200}, body : Said] \/ r = Empty
  <2>1. \A b : (b \in IF tool = "zabbix" THEN {Json}
                ELSE {Json, Json \cup {"ok"}, {"text"}}
                     \cup (IF what = "file" THEN {Json \cup {"sha"}} ELSE {})) => b \in Said
    OBVIOUS
  <2> HIDE DEF Said
  <2>2. QED
    BY <2>1 DEF Results
<1>2. \A b \in Said : b \subseteq Marks /\ "error" \notin b
  BY DEF Json, Marks
<1> HIDE DEF Said
<1>3. ASSUME r \in [status : {200}, body : Said]
      PROVE  r \in Reply /\ r # NoReply /\ Granted(r)
  BY <1>2, <1>3, NothingIsNothing DEF Reply, Granted
<1>4. ASSUME r = Empty PROVE r \in Reply /\ r # NoReply /\ Granted(r)
  BY <1>4, NothingIsNothing DEF Reply, Granted
<1>5. QED
  BY <1>1, <1>3, <1>4

\* What Wikipedia says of a page, it says with status 200.
LEMMA ArticlesSay ==
  ASSUME NEW pg, NEW what, NEW r \in Article(pg, what)
  PROVE  r \in Reply /\ r # NoReply /\ Sincere(r)
<1>1. \/ r.status = 500 /\ r = [status |-> 500, body |-> {"text"}]
      \/ /\ r.status = 200 /\ r = [status |-> 200, body |-> r.body]
         /\ r.body \subseteq Marks /\ "json" \in r.body
  BY DEF Article, Json, Marks
<1>2. QED
  BY <1>1, NothingIsNothing DEF Reply, Sincere, Signs, Marks, Wikipedia!Good,
     Wikipedia!HasJson

-----------------------------------------------------------------------------
(* What holds at first and stays so.                                       *)

\* The contract of the tool that is called.
LEMMA NextMove ==
  ASSUME Typed, phase # "idle"
  PROVE  LET m == Move(call, replies)
         IN /\ IsMove(m)
            /\ m.do = "send" /\ Changes(m.request) =>
                  Writing /\ Len(replies) = WriteAt(call)
            /\ m.do = "send" /\ Changes(m.request) /\ "token" \in call.cfg => m.request.auth
            /\ Writing => /\ call.tool # "wikipedia"
                          /\ m.do = "send" => Len(replies) <= WriteAt(call)
            /\ Writing /\ call.tool # "gitea" =>
                  WriteAt(call) = 0 /\ TellsWhatIsSaid(call, replies, m, Move(call, <<>>))
            /\ WriteAt(call) \in {0, 1} /\ Len(replies) \in Nat
<1>1. call.tool \in Tools /\ call.cmd \in Commands(call.tool) \cup {"unknown"}
      /\ call.cfg \subseteq Settings(call.tool) /\ replies \in Seq(Reply)
  BY ServiceAssumption DEF Typed
<1>2. Len(replies) \in Nat /\ WriteAt(call) \in {0, 1}
      /\ (call.tool # "gitea" => WriteAt(call) = 0)
  BY <1>1, Counting DEF WriteAt
<1>3. IsMove(Move(call, replies))
  BY <1>1, MovesKeepTheContract
<1>4. CASE call.tool = "wikipedia"
  BY <1>1, <1>2, <1>3, <1>4, MovesKeepTheContract DEF Writing
<1>5. CASE call.tool # "wikipedia"
  <2>1. Contract(call, replies, Move(call, replies), Move(call, <<>>))
    BY <1>1, <1>5, MovesKeepTheContract
  <2>2. ChangesOnce(call, replies, Move(call, replies))
    BY <2>1 DEF Contract
  <2>3. Writing /\ call.tool # "gitea" =>
           TellsWhatIsSaid(call, replies, Move(call, replies), Move(call, <<>>))
    BY <2>1 DEF Contract, Writing
  <2>4. QED
    BY <1>2, <1>3, <1>5, <2>2, <2>3 DEF ChangesOnce, Writing
<1>6. QED
  BY <1>4, <1>5

\* Before the first call there is nothing to promise.
LEMMA FirstIsAsPromised == Init => AsPromised
<1> SUFFICES ASSUME Init PROVE AsPromised
  OBVIOUS
<1>1. <<>> \in Seq(Reply) /\ Len(<<>>) = 0
  OBVIOUS
<1>2. NoCall.tool = "none" /\ NoCall.cmd = "none"
  BY DEF NoCall
<1>3. Typed
  BY <1>1, NothingIsNothing DEF Init, Typed
<1>4. Following /\ AtMostOne /\ Confirmed
  BY DEF Init, Following, AtMostOne, Confirmed
<1>5. Refused /\ Looking
  BY <1>1, <1>2 DEF Init, Refused, Looking
<1>6. QED
  BY <1>3, <1>4, <1>5 DEF AsPromised

\* A call begins with nothing asked for and nothing done.
LEMMA BeginKeeps == AsPromised /\ Begin => AsPromised'
<1> SUFFICES ASSUME AsPromised, Begin PROVE AsPromised'
  OBVIOUS
<1>1. PICK tool \in Tool : \E cmd \in Commands(tool) \cup {"unknown"} :
                           \E given : \E cfg \in SUBSET Settings(tool) :
         call' = [tool |-> tool, cmd |-> cmd, given |-> given, cfg |-> cfg]
  BY DEF Begin
<1>2. /\ call'.tool \in Tool /\ call'.cmd \in Commands(call'.tool) \cup {"unknown"}
      /\ call'.cfg \subseteq Settings(call'.tool)
  BY <1>1
<1>3. call' # NoCall
  <2>1. "none" \notin Tools
    BY DEF Tools, Query!Tools
  <2>2. NoCall.tool = "none"
    BY DEF NoCall
  <2>3. QED
    BY <1>2, <2>1, <2>2, ServiceAssumption
<1>4. replies = <<>> /\ done = 0 /\ late = 0 /\ phase = "idle"
  BY DEF AsPromised, AtMostOne, Begin
<1>5. Len(<<>>) = 0
  OBVIOUS
<1>6. back = NoReply /\ confirmed = NoReply
  BY <1>4 DEF AsPromised, Typed, Confirmed
<1>7. Typed'
  BY <1>2, <1>3 DEF AsPromised, Typed, Begin
<1>8. Following' /\ AtMostOne' /\ Confirmed'
  BY <1>4, <1>6 DEF Begin, Following, AtMostOne, Confirmed
<1>9. Refused' /\ Looking'
  BY <1>4, <1>5, <1>6 DEF Begin, Refused, Looking
<1>10. QED
  BY <1>7, <1>8, <1>9 DEF AsPromised

\* A request that is sent is what the tool's handler asks for next.
LEMMA SendRequestKeeps == AsPromised /\ SendRequest => AsPromised'
<1> SUFFICES ASSUME AsPromised, SendRequest PROVE AsPromised'
  OBVIOUS
<1> USE DEF SendRequest
<1>1. Move(call, replies).do = "send" /\ request' = Move(call, replies).request
      /\ request'.fn \in HostFunctions
  OBVIOUS
<1>2. phase = "thinking" /\ back = NoReply
  BY DEF AsPromised, Typed
<1>3. Writing => Len(replies) <= WriteAt(call)
  BY <1>1, <1>2, NextMove DEF AsPromised
<1>4. confirmed = NoReply
  BY <1>2, <1>3, NextMove DEF AsPromised, Confirmed
<1>5. Typed'
  BY <1>1 DEF AsPromised, Typed
<1>6. Following'
  BY <1>1 DEF AsPromised, Following
<1>7. AtMostOne'
  BY <1>2 DEF AsPromised, AtMostOne, Writing
<1>8. Confirmed'
  BY <1>4 DEF Confirmed
<1>9. Refused' /\ Looking'
  BY DEF AsPromised, Refused, Looking, Writing
<1>10. QED
  BY <1>5, <1>6, <1>7, <1>8, <1>9 DEF AsPromised

\* The answer is what the tool's handler makes of the replies.
LEMMA AnswerCallerKeeps == AsPromised /\ AnswerCaller => AsPromised'
<1> SUFFICES ASSUME AsPromised, AnswerCaller PROVE AsPromised'
  OBVIOUS
<1> USE DEF AnswerCaller
<1>1. Move(call, replies).do = "answer" /\ outcome' = Move(call, replies).outcome
  OBVIOUS
<1>2. phase = "thinking" /\ back = NoReply
  BY DEF AsPromised, Typed
<1>3. Typed'
  BY DEF AsPromised, Typed
<1>4. Following'
  BY <1>1 DEF AsPromised, Following
<1>5. AtMostOne'
  BY <1>2 DEF AsPromised, AtMostOne, Writing
<1>6. Confirmed'
  BY <1>2 DEF AsPromised, Confirmed, Writing
<1>7. Refused' /\ Looking'
  BY DEF AsPromised, Refused, Looking, Writing
<1>8. QED
  BY <1>3, <1>4, <1>5, <1>6, <1>7 DEF AsPromised

\* A request that is served after its timeout is the one change of the call,
\* and no other can have been made.
LEMMA ServeLateKeeps == AsPromised /\ ServeLate => AsPromised'
<1> SUFFICES ASSUME AsPromised, ServeLate PROVE AsPromised'
  OBVIOUS
<1> USE DEF ServeLate
<1>1. late = 1 /\ late' = 0 /\ done = 0 /\ done' \in {0, 1}
  BY DEF AsPromised, AtMostOne, Typed
<1>2. confirmed = NoReply
  BY <1>1 DEF AsPromised, Confirmed
<1>3. Typed'
  BY <1>1 DEF AsPromised, Typed
<1>4. Following'
  BY DEF AsPromised, Following
<1>5. AtMostOne'
  <2>1. phase # "idle" /\ Writing
        /\ \/ phase = "waiting" /\ back # NoReply /\ Changes(request)
           \/ Len(replies) > WriteAt(call)
    BY <1>1 DEF AsPromised, AtMostOne
  <2>2. done' + late' \in {0, 1}
    <3>1. CASE done' = 0
      BY <3>1, <1>1
    <3>2. CASE done' = 1
      BY <3>2, <1>1
    <3>3. QED
      BY <3>1, <3>2, <1>1
  <2>3. QED
    BY <2>1, <2>2 DEF AtMostOne, Writing
<1>6. Confirmed'
  BY <1>2 DEF Confirmed
<1>7. Refused' /\ Looking'
  BY <1>1 DEF AsPromised, Refused, Looking, Writing
<1>8. QED
  BY <1>3, <1>4, <1>5, <1>6, <1>7 DEF AsPromised

\* A full lookup of a page known to be no article asks for nothing after its
\* text.
LEMMA FullLooksOnce ==
  ASSUME NEW c, c.cmd = "full", NEW rs \in Seq(Reply), Len(rs) = 3,
         Wikipedia!Call(c, rs).do = "send"
  PROVE  ~Wikipedia!Titled(rs)
<1>1. \A o : Wikipedia!Answer(o).do # "send"
  BY DEF Wikipedia!Answer
<1>2. Wikipedia!Call(c, rs) = Wikipedia!LookupMode("full", rs)
  BY <1>1 DEF Wikipedia!Call
<1>3. Wikipedia!LookupMode("full", rs) = Wikipedia!Full(rs)
  BY <1>1, <1>2 DEF Wikipedia!LookupMode, Wikipedia!HandleDisambiguation
<1>4. ~(rs[3] # Wikipedia!Thrown /\ Wikipedia!IsDisambiguation(rs, rs[3]))
  BY <1>1, <1>2, <1>3 DEF Wikipedia!Full, Wikipedia!HandleDisambiguation
<1>5. rs[3] # Wikipedia!Thrown
  BY <1>1, <1>2, <1>3, <1>4 DEF Wikipedia!Full, Wikipedia!Extract
<1>6. QED
  BY <1>4, <1>5 DEF Wikipedia!IsDisambiguation

\* The next reply, whatever it is: the title of a page does not change with it.
LEMMA HearingKeeps ==
  ASSUME AsPromised, phase \in {"thinking", "waiting"}, Move(call, replies).do = "send",
         NEW x \in Reply, call.tool = "wikipedia" => Sincere(x),
         phase' = "thinking", replies' = Append(replies, x), late' \in Nat,
         request' = NoRequest, back' = NoReply,
         UNCHANGED <<call, page, done, outcome>>
  PROVE  Typed' /\ Following' /\ Looking'
<1>1. replies \in Seq(Reply) /\ Len(replies) \in Nat
  BY Counting DEF AsPromised, Typed
<1>2. /\ replies' \in Seq(Reply) /\ replies' # <<>>
      /\ Len(replies') = Len(replies) + 1
      /\ replies'[Len(replies) + 1] = x
      /\ \A k \in 1 .. Len(replies) : replies'[k] = replies[k]
  BY <1>1, Appending
<1>3. Typed'
  BY <1>2, NothingIsNothing DEF AsPromised, Typed
<1>4. Following'
  BY DEF AsPromised, Following
<1>5. Looking'
  <2>1. SUFFICES ASSUME call.tool = "wikipedia" PROVE Looking'
    BY DEF Looking
  <2>2. \A k \in 1 .. Len(replies') : Sincere(replies'[k])
    <3>1. SUFFICES ASSUME NEW k \in 1 .. Len(replies') PROVE Sincere(replies'[k])
      OBVIOUS
    <3>2. CASE k = Len(replies) + 1
      BY <1>2, <2>1, <3>2
    <3>3. CASE k \in 1 .. Len(replies)
      BY <1>2, <2>1, <3>3 DEF AsPromised, Looking
    <3>4. QED
      BY <1>1, <1>2, <3>2, <3>3
  <2>3. ASSUME call.cmd = "full", Len(replies') > 3 PROVE ~Wikipedia!Titled(replies')
    <3>1. Len(replies) >= 3
      BY <1>1, <1>2, <2>3
    <3>2. replies'[1] = replies[1] /\ replies'[2] = replies[2]
      BY <1>1, <1>2, <3>1
    <3>3. ~Wikipedia!Titled(replies)
      <4>1. CASE Len(replies) = 3
        <5>1. call.tool \in Tools /\ call.cmd \in Commands(call.tool) \cup {"unknown"}
              /\ call.cfg \subseteq Settings(call.tool)
          BY ServiceAssumption DEF AsPromised, Typed
        <5>2. Wikipedia!Call(call, replies).do = "send"
          BY <1>1, <2>1, <5>1, MovesKeepTheContract
        <5>3. QED
          BY <1>1, <2>3, <4>1, <5>2, FullLooksOnce
      <4>2. CASE Len(replies) > 3
        BY <2>1, <2>3, <4>2 DEF AsPromised, Looking
      <4>3. \A n \in Nat : n >= 3 => n = 3 \/ n > 3
        OBVIOUS
      <4>4. Len(replies) = 3 \/ Len(replies) > 3
        BY <1>1, <3>1, <4>3
      <4>5. QED
        BY <4>1, <4>2, <4>4
    <3>4. QED
      BY <3>2, <3>3 DEF Wikipedia!Titled
  <2>4. QED
    BY <2>2, <2>3 DEF Looking
<1>6. QED
  BY <1>3, <1>4, <1>5

\* A request that throws says nothing of any article.
LEMMA ThrownIsSincere == Sincere(Thrown)
BY NothingIsNothing DEF Sincere

\* A request that throws has changed nothing and is told to the tool as such.
LEMMA RequestThrowsKeeps == AsPromised /\ RequestThrows => AsPromised'
<1> SUFFICES ASSUME AsPromised, RequestThrows PROVE AsPromised'
  OBVIOUS
<1>1. /\ phase = "thinking" /\ phase' = "thinking" /\ back = NoReply /\ request = NoRequest
      /\ Move(call, replies).do = "send" /\ replies' = Append(replies, Thrown)
      /\ UNCHANGED <<call, page, request, back, late, done, confirmed, outcome>>
  BY DEF RequestThrows, AsPromised, Typed
<1>2. replies \in Seq(Reply) /\ late \in Nat /\ done \in Nat
  BY DEF AsPromised, Typed
<1>3. /\ Len(replies') = Len(replies) + 1
      /\ replies = <<>> => replies'[1] = Thrown
      /\ replies # <<>> => replies'[1] = replies[1]
  BY <1>1, <1>2, NothingIsNothing, Appending
<1>4. Len(replies) \in Nat /\ WriteAt(call) \in {0, 1}
      /\ (Writing => Len(replies) <= WriteAt(call))
  BY <1>1, NextMove DEF AsPromised
<1>5. Typed' /\ Following' /\ Looking'
  BY <1>1, <1>2, NothingIsNothing, ThrownIsSincere, HearingKeeps
<1>6. done = 0 /\ late = 0
  BY <1>1, <1>2, <1>4 DEF AsPromised, AtMostOne
<1>7. AtMostOne'
  BY <1>1, <1>6 DEF AtMostOne
<1>8. Confirmed'
  BY <1>1, <1>6 DEF AsPromised, Confirmed
<1>9. Refused'
  BY <1>1, <1>3 DEF AsPromised, Refused, Writing
<1>10. QED
  BY <1>5, <1>7, <1>8, <1>9 DEF AsPromised

\* A plugin that waits has asked for what it waits for.
LEMMA Waiting ==
  ASSUME AsPromised, phase = "waiting"
  PROVE  /\ Move(call, replies).do = "send" /\ request = Move(call, replies).request
         /\ replies \in Seq(Reply) /\ Len(replies) \in Nat /\ WriteAt(call) \in {0, 1}
         /\ late \in Nat /\ done \in Nat
         /\ Writing => call.tool # "wikipedia" /\ Len(replies) <= WriteAt(call)
         /\ Writing /\ call.tool # "gitea" => Changes(request)
         /\ Changes(request) => Writing /\ Len(replies) = WriteAt(call)
         /\ back = NoReply => done = 0 /\ late = 0
<1>1. Move(call, replies).do = "send" /\ request = Move(call, replies).request
  BY DEF AsPromised, Following
<1>2. replies \in Seq(Reply) /\ late \in Nat /\ done \in Nat
  BY DEF AsPromised, Typed
<1>3. /\ Len(replies) \in Nat /\ WriteAt(call) \in {0, 1}
      /\ Changes(request) => Writing /\ Len(replies) = WriteAt(call)
      /\ Writing => call.tool # "wikipedia" /\ Len(replies) <= WriteAt(call)
  BY <1>1, NextMove DEF AsPromised
<1>4. Writing /\ call.tool # "gitea" => Changes(request)
  BY <1>1, NextMove DEF AsPromised, TellsWhatIsSaid
<1>5. back = NoReply => done = 0 /\ late = 0
  BY <1>2, <1>3 DEF AsPromised, AtMostOne
<1>6. QED
  BY <1>1, <1>2, <1>3, <1>4, <1>5

\* A request that is served makes the one change of the call, or is refused.
LEMMA ServeKeeps == AsPromised /\ Serve => AsPromised'
<1> SUFFICES ASSUME AsPromised, Serve PROVE AsPromised'
  OBVIOUS
<1>1. /\ phase = "waiting" /\ back = NoReply
      /\ UNCHANGED <<phase, call, page, replies, request, late, outcome>>
  BY DEF Serve
<1>2. \/ /\ Changes(request) /\ done' = done + 1
         /\ back' \in Results(call.tool, request.what) /\ confirmed' = back'
      \/ back' \in RepliesTo(request) /\ UNCHANGED <<done, confirmed>>
  BY DEF Serve
<1>3. done = 0 /\ late = 0 /\ confirmed = NoReply
  BY <1>1, Waiting DEF AsPromised, Confirmed
<1>4. CASE /\ Changes(request) /\ done' = 1
           /\ back' \in Results(call.tool, request.what) /\ confirmed' = back'
  <2>1. back' \in Reply /\ back' # NoReply /\ Granted(back')
    BY <1>4, ResultsSay
  <2>2. Writing /\ call.tool # "wikipedia"
    BY <1>1, <1>4, Waiting
  <2>3. Typed'
    BY <1>1, <1>4, <2>1 DEF AsPromised, Typed
  <2>4. Following'
    BY <1>1 DEF AsPromised, Following
  <2>5. AtMostOne'
    BY <1>1, <1>3, <1>4, <2>1, <2>2 DEF AtMostOne, Writing
  <2>6. Confirmed'
    BY <1>1, <1>4, <2>1, <2>2 DEF Confirmed, Writing
  <2>7. Refused' /\ Looking'
    BY <1>1, <1>4, <2>2 DEF Refused, Looking
  <2>8. QED
    BY <2>3, <2>4, <2>5, <2>6, <2>7 DEF AsPromised
<1>5. CASE back' \in RepliesTo(request) /\ done' = 0 /\ confirmed' = NoReply
  <2>1. /\ back' \in Reply /\ back' # NoReply
        /\ call.tool = "wikipedia" => Sincere(back')
    <3>1. CASE call.tool = "wikipedia"
      BY <1>5, <3>1, ArticlesSay DEF RepliesTo
    <3>2. CASE call.tool # "wikipedia"
      <4>1. \/ back' \in Results(call.tool, request.what)
            \/ back' \in Refusals(call.tool)
        BY <1>5, <3>2 DEF RepliesTo
      <4>2. back' \in Refusals(call.tool) => back' # NoReply
        <5>1. SUFFICES ASSUME back' \in Refusals(call.tool) PROVE back' # NoReply
          OBVIOUS
        <5>2. back'.status \in {404, 500} \/ "error" \in back'.body
          BY <5>1, RefusalsSay
        <5>3. NoReply.status = -1 /\ NoReply.body = {}
          BY DEF NoReply, Thrown
        <5>4. QED
          BY <5>2, <5>3
      <4>3. QED
        BY <3>2, <4>1, <4>2, ResultsSay, RefusalsSay
    <3>3. QED
      BY <3>1, <3>2
  <2>2. Writing /\ call.tool # "gitea" => back' \in Refusals(call.tool)
    BY <1>1, <1>5, Waiting DEF RepliesTo
  <2>3. Typed'
    BY <1>1, <1>5, <2>1 DEF AsPromised, Typed
  <2>4. Following'
    BY <1>1 DEF AsPromised, Following
  <2>5. AtMostOne'
    BY <1>1, <1>3, <1>5 DEF AtMostOne
  <2>6. Confirmed'
    BY <1>5 DEF Confirmed
  <2>7. Refused'
    BY <1>1, <1>3, <1>5, <2>2 DEF AsPromised, Refused, Writing
  <2>8. Looking'
    BY <1>1, <2>1 DEF AsPromised, Looking
  <2>9. QED
    BY <2>3, <2>4, <2>5, <2>6, <2>7, <2>8 DEF AsPromised
<1>6. QED
  BY <1>2, <1>3, <1>4, <1>5

\* The reply that arrives is the one that the service gave.
LEMMA DeliverKeeps == AsPromised /\ Deliver => AsPromised'
<1> SUFFICES ASSUME AsPromised, Deliver PROVE AsPromised'
  OBVIOUS
<1>1. /\ phase = "waiting" /\ phase' = "thinking" /\ back # NoReply
      /\ replies' = Append(replies, back) /\ request' = NoRequest /\ back' = NoReply
      /\ UNCHANGED <<call, page, late, done, confirmed, outcome>>
  BY DEF Deliver
<1>2. /\ Move(call, replies).do = "send" /\ late \in Nat /\ done \in Nat
      /\ replies \in Seq(Reply) /\ Len(replies) \in Nat /\ WriteAt(call) \in {0, 1}
      /\ Writing => Len(replies) <= WriteAt(call)
      /\ Changes(request) => Len(replies) = WriteAt(call)
  BY <1>1, Waiting
<1>3. back \in Reply /\ (call.tool = "wikipedia" => Sincere(back))
  BY <1>1 DEF AsPromised, Typed, Looking
<1>4. /\ Len(replies') = Len(replies) + 1
      /\ replies'[Len(replies) + 1] = back
      /\ replies = <<>> => replies'[1] = back
      /\ replies # <<>> => replies'[1] = replies[1]
  BY <1>1, <1>2, <1>3, Appending
<1>5. Typed' /\ Following' /\ Looking'
  BY <1>1, <1>2, <1>3, HearingKeeps
<1>6. done + late = 1 => Writing /\ Len(replies) = WriteAt(call)
  BY <1>1, <1>2 DEF AsPromised, AtMostOne
<1>7. AtMostOne'
  <2>1. done + late = 1 => Len(replies') > WriteAt(call)
    BY <1>2, <1>4, <1>6
  <2>2. QED
    BY <1>1, <1>6, <2>1 DEF AsPromised, AtMostOne, Writing
<1>8. Confirmed'
  <2>1. ASSUME confirmed # NoReply
        PROVE  Writing /\ done = 1 /\ Granted(confirmed) /\ back = confirmed
    BY <1>1, <2>1 DEF AsPromised, Confirmed
  <2>2. ASSUME confirmed # NoReply PROVE done + late = 1
    BY <1>2, <2>1, <2>2 DEF AsPromised, AtMostOne
  <2>3. ASSUME confirmed # NoReply
        PROVE  Len(replies') = WriteAt(call) + 1 /\ replies'[Len(replies')] = confirmed
    BY <1>4, <1>6, <2>1, <2>2, <2>3
  <2>4. QED
    BY <1>1, <2>1, <2>3 DEF Confirmed, Writing
<1>9. Refused'
  BY <1>1, <1>4 DEF AsPromised, Refused, Writing
<1>10. QED
  BY <1>5, <1>7, <1>8, <1>9 DEF AsPromised

\* A request that times out is told as thrown; its change may still be made.
LEMMA TimeOutKeeps == AsPromised /\ TimeOut => AsPromised'
<1> SUFFICES ASSUME AsPromised, TimeOut PROVE AsPromised'
  OBVIOUS
<1>1. /\ phase = "waiting" /\ phase' = "thinking"
      /\ replies' = Append(replies, Thrown) /\ request' = NoRequest /\ back' = NoReply
      /\ late' = IF back = NoReply /\ Changes(request) THEN late + 1 ELSE late
      /\ confirmed' = NoReply
      /\ UNCHANGED <<call, page, done, outcome>>
  BY DEF TimeOut
<1>2. /\ Move(call, replies).do = "send" /\ late \in Nat /\ done \in Nat
      /\ replies \in Seq(Reply) /\ Len(replies) \in Nat /\ WriteAt(call) \in {0, 1}
      /\ Changes(request) => Writing /\ Len(replies) = WriteAt(call)
      /\ back = NoReply => done = 0 /\ late = 0
  BY <1>1, Waiting
<1>3. /\ Len(replies') = Len(replies) + 1
      /\ replies = <<>> => replies'[1] = Thrown
      /\ replies # <<>> => replies'[1] = replies[1]
  BY <1>1, <1>2, NothingIsNothing, Appending
<1>4. late' \in Nat
  BY <1>1, <1>2
<1>5. Typed' /\ Following' /\ Looking'
  BY <1>1, <1>2, <1>4, NothingIsNothing, ThrownIsSincere, HearingKeeps
<1>6. AtMostOne'
  <2>1. CASE back = NoReply /\ Changes(request)
    <3>1. Writing /\ Len(replies') > WriteAt(call)
      BY <1>2, <1>3, <2>1
    <3>2. late' = 1 /\ done' = 0
      BY <1>1, <1>2, <2>1
    <3>3. QED
      BY <1>1, <3>1, <3>2 DEF AtMostOne, Writing
  <2>2. CASE ~(back = NoReply /\ Changes(request))
    <3>1. late' = late /\ done' = done
      BY <1>1, <2>2
    <3>2. done + late = 1 => Writing /\ Len(replies) >= WriteAt(call)
      BY <1>1, <1>2 DEF AsPromised, AtMostOne
    <3>3. done + late = 1 => Len(replies') > WriteAt(call)
      BY <1>2, <1>3, <3>2
    <3>4. QED
      BY <1>1, <3>1, <3>2, <3>3 DEF AsPromised, AtMostOne, Writing
  <2>3. QED
    BY <2>1, <2>2
<1>7. Confirmed'
  BY <1>1 DEF Confirmed
<1>8. Refused'
  BY <1>1, <1>3 DEF AsPromised, Refused, Writing
<1>9. QED
  BY <1>5, <1>6, <1>7, <1>8 DEF AsPromised

\* What is promised of a call stays so with every step.
LEMMA NextKeepsThePromise == AsPromised /\ [Next]_vars => AsPromised'
<1> SUFFICES ASSUME AsPromised, [Next]_vars PROVE AsPromised'
  OBVIOUS
<1>1. CASE Begin
  BY <1>1, BeginKeeps
<1>2. CASE SendRequest
  BY <1>2, SendRequestKeeps
<1>3. CASE RequestThrows
  BY <1>3, RequestThrowsKeeps
<1>4. CASE Serve
  BY <1>4, ServeKeeps
<1>5. CASE Deliver
  BY <1>5, DeliverKeeps
<1>6. CASE TimeOut
  BY <1>6, TimeOutKeeps
<1>7. CASE ServeLate
  BY <1>7, ServeLateKeeps
<1>8. CASE AnswerCaller
  BY <1>8, AnswerCallerKeeps
<1>9. CASE UNCHANGED vars
  BY <1>9 DEF vars, AsPromised, Typed, Following, AtMostOne, Confirmed, Refused, Looking,
     Writing
<1>10. QED
  BY <1>1, <1>2, <1>3, <1>4, <1>5, <1>6, <1>7, <1>8, <1>9 DEF Next

\* The inductive invariant: a call has at most one change, made or on its way,
\* which is the last thing that it asks for (every tool's handler).
THEOREM CallsAreAsPromised == Spec => []AsPromised
<1>1. QED
  BY FirstIsAsPromised, NextKeepsThePromise, PTL DEF Spec

-----------------------------------------------------------------------------
(* The properties.                                                         *)

\* Every variable has its type, and there is a request, and a reply to it, only
\* while the plugin waits.
THEOREM ServiceTypeCorrect == Spec => []TypeOK
<1>1. AsPromised => TypeOK
  <2> SUFFICES ASSUME AsPromised PROVE TypeOK
    OBVIOUS
  <2>1. phase = "answered" => outcome \in Outcomes
    BY NextMove DEF AsPromised, Following, IsMove, Typed
  <2>2. request # NoRequest <=> phase = "waiting"
    BY NothingIsNothing DEF AsPromised, Typed, HostFunctions
  <2>3. outcome \in Outcomes \cup {"none"} /\ (outcome # "none" <=> phase = "answered")
    BY <2>1 DEF AsPromised, Typed, Outcomes
  <2>4. call.tool \in Tool \cup {"none"}
    BY DEF AsPromised, Typed, NoCall
  <2>5. QED
    BY <2>2, <2>3, <2>4 DEF AsPromised, Typed, TypeOK, Outcomes
<1>2. QED
  BY <1>1, CallsAreAsPromised, PTL

\* No change is asked for without the token, when there is one, whichever tool
\* asks for it ("Authorization" in every handler).
THEOREM TokenIsCarried == Spec => []ChangesCarryToken
<1>1. AsPromised => ChangesCarryToken
  BY Waiting, NextMove DEF AsPromised, ChangesCarryToken
<1>2. QED
  BY <1>1, CallsAreAsPromised, PTL

\* A change that was made, and whose reply arrived and parses, is not reported
\* as a failure (the handlers' judgement of a reply: its status and its body),
\* by any tool but gitea, http_request_put and http_request_delete.
THEOREM ConfirmedReported == Spec => []ConfirmedIsReported
<1>1. AsPromised => ConfirmedIsReported
  <2> SUFFICES ASSUME AsPromised, phase = "answered", confirmed # NoReply,
                      call.tool # "gitea", call.tool \notin ThrowsAfterwards,
                      HasJson(confirmed) \/ call.tool \in {"home_assistant", "mcwsd"}
               PROVE  outcome \in {"success", "text"}
    BY DEF ConfirmedIsReported
  <2>1. /\ Writing /\ Granted(confirmed)
        /\ Len(replies) = WriteAt(call) + 1 /\ replies[Len(replies)] = confirmed
    BY DEF AsPromised, Confirmed
  <2>2. /\ WriteAt(call) = 0
        /\ TellsWhatIsSaid(call, replies, Move(call, replies), Move(call, <<>>))
    BY <2>1, NextMove DEF AsPromised
  <2>3. Len(replies) = 1 /\ replies[1] = confirmed /\ replies # <<>>
    BY <2>1, <2>2
  <2>4. Move(call, <<>>).do = "send" /\ outcome = Move(call, replies).outcome
    BY <2>3 DEF AsPromised, Following
  <2>5. QED
    BY <2>1, <2>2, <2>3, <2>4 DEF TellsWhatIsSaid
<1>2. QED
  BY <1>1, CallsAreAsPromised, PTL

\* What an article that a lookup returns has to do with its summary.
LEMMA SuccessfulLookup ==
  ASSUME NEW c, c.cmd # "search", NEW rs \in Seq(Reply),
         Wikipedia!Call(c, rs).do = "answer", Wikipedia!Call(c, rs).outcome = "success"
  PROVE  /\ Len(rs) >= 2 /\ ~Wikipedia!Has(rs[2], "ambiguous")
         /\ c.cmd # "full" => ~Wikipedia!IsDisambiguation(rs, rs[2])
         /\ c.cmd = "full" => Len(rs) >= 3 /\ (Len(rs) = 3 => ~Wikipedia!Titled(rs))
<1> DEFINE Finds(m) == m.do = "answer" /\ m.outcome = "success"
           Plain == ~Wikipedia!IsDisambiguation(rs, rs[2])
<1>1. ~Finds(Wikipedia!Answer("failure")) /\ ~Finds(Wikipedia!HandleDisambiguation)
  BY DEF Wikipedia!Answer, Wikipedia!HandleDisambiguation
<1>2. \A what : ~Finds(Wikipedia!Fetch(what))
  BY DEF Wikipedia!Fetch, Wikipedia!Send
<1> HIDE DEF Finds, Plain
<1>3. Finds(Wikipedia!LookupMode(c.cmd, rs))
  BY <1>1 DEF Wikipedia!Call, Finds
<1>4. /\ Len(rs) # 0 /\ Len(rs) # 1 /\ ~Wikipedia!Has(rs[2], "ambiguous")
      /\ CASE c.cmd = "brief" -> Finds(Wikipedia!Brief(rs))
           [] c.cmd = "full"  -> Finds(Wikipedia!Full(rs))
           [] OTHER           -> Finds(Wikipedia!Standard(rs))
  BY <1>1, <1>2, <1>3 DEF Wikipedia!LookupMode, Wikipedia!SearchTitles,
     Wikipedia!FetchRestSummary
<1>5. \A detail : detail # "full" /\ Finds(Wikipedia!Finish(detail, rs)) => Plain
  BY <1>1 DEF Wikipedia!Finish, Plain
<1>6. \A detail, k : detail # "full" /\ Finds(Wikipedia!Links(detail, rs, k)) => Plain
  BY <1>2, <1>5 DEF Wikipedia!Links, Wikipedia!FetchLinks
<1>7. \A detail, k : detail # "full" /\ Finds(Wikipedia!Extract(detail, rs, k)) => Plain
  BY <1>1, <1>2, <1>6 DEF Wikipedia!Extract, Wikipedia!FetchExtract
<1>8. c.cmd = "brief" => Plain
  BY <1>4, <1>6, <1>7 DEF Wikipedia!Brief
<1>9. c.cmd \notin {"brief", "full"} => Plain
  BY <1>1, <1>2, <1>4, <1>6, <1>7 DEF Wikipedia!Standard, Wikipedia!FetchExtract,
     Wikipedia!FetchSections, Wikipedia!FetchSectionText
<1>10. ASSUME c.cmd = "full" PROVE ~(Len(rs) < 3) /\ (Len(rs) = 3 => ~Wikipedia!Titled(rs))
  <2>1. Finds(Wikipedia!Full(rs))
    BY <1>4, <1>10
  <2>2. ~(Len(rs) = 3 /\ rs[3] # Wikipedia!Thrown /\ Wikipedia!IsDisambiguation(rs, rs[3]))
        /\ Finds(Wikipedia!Extract("full", rs, 3))
    BY <1>1, <2>1 DEF Wikipedia!Full
  <2>3. ~(Len(rs) < 3) /\ rs[3] # Wikipedia!Thrown
    BY <1>1, <1>2, <2>2 DEF Wikipedia!Extract, Wikipedia!FetchExtract
  <2>4. QED
    BY <2>2, <2>3 DEF Wikipedia!IsDisambiguation
<1>11. Len(rs) >= 2
  <2>1. \A n \in Nat : n # 0 /\ n # 1 => n >= 2
    OBVIOUS
  <2>2. QED
    BY <1>4, <2>1, Counting
<1>12. c.cmd = "full" => Len(rs) >= 3
  <2>1. \A n \in Nat : ~(n < 3) => n >= 3
    OBVIOUS
  <2>2. QED
    BY <1>10, <2>1, Counting
<1>13. QED
  BY <1>4, <1>8, <1>9, <1>10, <1>11, <1>12 DEF Plain

\* When the summary has shown a page to be a disambiguation page, it is not
\* returned as an article, however the requests after it fail (lookupMode,
\* isDisambiguation).
THEOREM SummaryHeeded == Spec => []SummaryIsHeeded
<1>1. AsPromised => SummaryIsHeeded
  <2> DEFINE Heeded == IF call.cmd = "full" THEN Signs \ {"refers"} ELSE Signs
  <2> SUFFICES ASSUME AsPromised, IsArticle, NEW sign \in replies[2].body, sign \in Heeded
               PROVE  FALSE
    BY DEF SummaryIsHeeded
  <2>1. phase = "answered" /\ call.tool = "wikipedia" /\ call.cmd # "search"
    BY DEF IsArticle, AsPromised, Typed
  <2>2. /\ call.tool \in Tools /\ call.cmd \in Commands(call.tool) \cup {"unknown"}
        /\ call.cfg \subseteq Settings(call.tool)
        /\ replies \in Seq(Reply)
    BY <2>1, ServiceAssumption DEF AsPromised, Typed
  <2>3. Move(call, replies) = Wikipedia!Call(call, replies)
    BY <2>1, <2>2, MovesKeepTheContract
  <2>4. /\ Wikipedia!Call(call, replies).do = "answer"
        /\ Wikipedia!Call(call, replies).outcome = "success"
    BY <2>1, <2>3 DEF IsArticle, AsPromised, Following
  <2>5. /\ Len(replies) >= 2 /\ Len(replies) \in Nat
        /\ ~Wikipedia!Has(replies[2], "ambiguous")
        /\ call.cmd # "full" => ~Wikipedia!IsDisambiguation(replies, replies[2])
        /\ call.cmd = "full" => /\ Len(replies) >= 3
                                /\ Len(replies) = 3 => ~Wikipedia!Titled(replies)
    BY <2>1, <2>2, <2>4, SuccessfulLookup, Counting
  <2>6. ~Wikipedia!Titled(replies)
    <3>1. \A n \in Nat : n >= 3 => n = 3 \/ n > 3
      OBVIOUS
    <3>2. CASE call.cmd = "full"
      BY <2>1, <2>5, <3>1, <3>2 DEF AsPromised, Looking
    <3>3. CASE call.cmd # "full"
      BY <2>5, <3>3 DEF Wikipedia!IsDisambiguation
    <3>4. QED
      BY <3>2, <3>3
  <2>7. Wikipedia!Good(replies[2])
    <3>1. 2 \in 1 .. Len(replies)
      BY <2>5
    <3>2. sign \in Signs
      OBVIOUS
    <3>3. QED
      BY <2>1, <3>1, <3>2 DEF AsPromised, Looking, Sincere
  <2>8. Wikipedia!Has(replies[2], sign)
    BY <2>7 DEF Wikipedia!Has
  <2>9. CASE sign = "ambiguous"
    BY <2>5, <2>8, <2>9
  <2>10. CASE sign = "titled"
    BY <2>6, <2>7, <2>8, <2>10 DEF Wikipedia!Titled
  <2>11. CASE sign = "refers"
    BY <2>5, <2>8, <2>11 DEF Wikipedia!IsDisambiguation
  <2>12. QED
    BY <2>9, <2>10, <2>11 DEF Signs
<1>2. QED
  BY <1>1, CallsAreAsPromised, PTL

-----------------------------------------------------------------------------
(* The promise of RemoteCall.                                              *)

Asked == CASE call = NoCall -> "nothing"
           [] call.cmd \in Writes(call.tool) -> "change"
           [] OTHER -> "read"

\* What the abstract call shows in each phase of the call.
ByPhase ==
  /\ phase = "idle" => Asked = "nothing"
  /\ phase # "idle" => Asked = IF Writing THEN "change" ELSE "read"
  /\ phase # "answered" => Told = "nothing"
  /\ phase = "answered" => Told = IF outcome = "success" /\ call.tool # "gitea"
                                  THEN "success" ELSE "otherwise"

\* A success is told of a change only when the service has made it.
SuccessOfAChange ==
  phase = "answered" /\ Writing /\ call.tool # "gitea" /\ outcome = "success"
    => done = 1 /\ late = 0

\* What is asked for and what is told, by the phase of the call.
LEMMA AskedAndTold == AsPromised => ByPhase
<1> SUFFICES ASSUME AsPromised PROVE ByPhase
  OBVIOUS
<1>1. phase = "idle" <=> call = NoCall
  BY DEF AsPromised, Typed
<1>2. Writes(NoCall.tool) = {}
  BY DEF NoCall, Writes
<1>3. phase # "answered" => outcome = "none"
  BY DEF AsPromised, Typed
<1>4. QED
  BY <1>1, <1>2, <1>3 DEF Asked, Told, Writing, ByPhase

\* A success is told of a change only when every request of the call was
\* answered, and none refused: the one that changes was served.
LEMMA SuccessIsDone == AsPromised => SuccessOfAChange
<1> SUFFICES ASSUME AsPromised, phase = "answered", Writing, call.tool # "gitea",
                    outcome = "success"
             PROVE  done = 1 /\ late = 0
  BY DEF SuccessOfAChange
<1>1. TellsWhatIsSaid(call, replies, Move(call, replies), Move(call, <<>>))
  BY NextMove DEF AsPromised
<1>2. Move(call, replies).do = "answer" /\ Move(call, replies).outcome = "success"
  BY DEF AsPromised, Following
<1>3. replies # <<>> /\ replies[1] \notin Refusals(call.tool) \cup {Thrown}
  BY <1>1, <1>2 DEF TellsWhatIsSaid
<1>4. done = 1
  BY <1>3 DEF AsPromised, Refused
<1>5. QED
  BY <1>4 DEF AsPromised, AtMostOne, Typed

\* Both hold of the state after a step as well.
LEMMA ToldAfterAStep == AsPromised' => ByPhase' /\ SuccessOfAChange'
BY AskedAndTold, SuccessIsDone, PTL

\* Every step of a call is one of the abstract call, or changes nothing of it.
LEMMA StepsKeepThePromise ==
  AsPromised /\ AsPromised' /\ [Next]_vars => [Promise!ANext]_(Promise!avars)
<1> SUFFICES ASSUME AsPromised, AsPromised', [Next]_vars
             PROVE  \/ UNCHANGED <<Asked, done, Told>>
                    \/ /\ Asked = "nothing" /\ Asked' \in {"read", "change"}
                       /\ UNCHANGED <<done, Told>>
                    \/ /\ Asked = "change" /\ done = 0 /\ Told # "success" /\ done' = 1
                       /\ UNCHANGED <<Asked, Told>>
                    \/ /\ Asked = "read" \/ done = 1
                       /\ Told = "nothing" /\ Told' = "success"
                       /\ UNCHANGED <<Asked, done>>
                    \/ /\ Asked # "nothing"
                       /\ Told = "nothing" /\ Told' = "otherwise"
                       /\ UNCHANGED <<Asked, done>>
  BY DEF Asked, Promise!ANext, Promise!Ask, Promise!Do, Promise!TellSuccess,
     Promise!TellOtherwise, Promise!avars
<1>0. phase \in {"idle", "thinking", "waiting", "answered"}
  BY DEF AsPromised, Typed
<1> DEFINE AskedBy == IF Writing THEN "change" ELSE "read"
<1>1. /\ phase = "idle" => Asked = "nothing"
      /\ phase # "idle" => Asked = AskedBy
      /\ phase # "answered" => Told = "nothing"
      /\ phase = "answered" => Told = IF outcome = "success" /\ call.tool # "gitea"
                                      THEN "success" ELSE "otherwise"
  BY AskedAndTold DEF ByPhase
<1>2. /\ phase' = "idle" => Asked' = "nothing"
      /\ phase' # "idle" => Asked' = AskedBy'
      /\ phase' # "answered" => Told' = "nothing"
      /\ phase' = "answered" => Told' = IF outcome' = "success" /\ call'.tool # "gitea"
                                        THEN "success" ELSE "otherwise"
  BY ToldAfterAStep DEF ByPhase
<1>3. CASE Begin
  BY <1>1, <1>2, <1>3 DEF Begin, Writing
<1>4. CASE SendRequest \/ RequestThrows \/ Deliver \/ TimeOut
  BY <1>1, <1>2, <1>4 DEF SendRequest, RequestThrows, Deliver, TimeOut, Writing
<1>5. CASE Serve
  <2>1. /\ phase = "waiting" /\ phase' = "waiting" /\ call' = call
        /\ \/ done' = done
           \/ Changes(request) /\ done' = done + 1
    BY <1>5 DEF Serve
  <2>2. done = 0 /\ (Changes(request) => Writing)
    BY <1>5, <2>1, Waiting DEF Serve
  <2>3. QED
    BY <1>1, <1>2, <2>1, <2>2 DEF Writing
<1>6. CASE ServeLate
  <2>1. late = 1 /\ done = 0 /\ Writing
    <3>1. late > 0 /\ late \in Nat /\ done \in Nat
      BY <1>6 DEF ServeLate, AsPromised, Typed
    <3>2. done + late \in {0, 1} /\ (done + late = 1 => Writing)
      BY DEF AsPromised, AtMostOne
    <3>3. QED
      BY <3>1, <3>2
  <2>2. /\ phase' = phase /\ call' = call /\ outcome' = outcome
        /\ done' = done \/ done' = 1
    BY <1>6, <2>1 DEF ServeLate
  <2>3. phase # "idle"
    BY <2>1 DEF AsPromised, AtMostOne
  <2>4. Told # "success"
    BY <1>1, <2>1, SuccessIsDone DEF SuccessOfAChange
  <2>5. Asked' = Asked /\ Told' = Told
    BY <1>0, <1>1, <1>2, <2>2, <2>3 DEF Writing
  <2>6. Asked = "change"
    BY <1>1, <2>1, <2>3
  <2>7. QED
    BY <2>1, <2>2, <2>4, <2>5, <2>6
<1>7. CASE AnswerCaller
  <2>1. /\ phase = "thinking" /\ phase' = "answered"
        /\ call' = call /\ done' = done
    BY <1>7 DEF AnswerCaller
  <2>2. Asked' = Asked /\ Asked # "nothing" /\ Told = "nothing"
    BY <1>1, <1>2, <2>1 DEF Writing
  <2>3. CASE Told' = "success"
    <3>1. outcome' = "success" /\ call'.tool # "gitea"
      BY <1>2, <2>1, <2>3
    <3>2. Writing' => done' = 1
      BY <2>1, <3>1, ToldAfterAStep DEF SuccessOfAChange
    <3>3. Asked = "read" \/ done = 1
      BY <1>1, <2>1, <3>2 DEF Writing
    <3>4. QED
      BY <2>1, <2>2, <2>3, <3>3
  <2>4. CASE Told' = "otherwise"
    BY <2>1, <2>2, <2>4
  <2>5. QED
    BY <1>2, <2>1, <2>3, <2>4
<1>8. CASE UNCHANGED vars
  BY <1>8 DEF vars, Asked, Told
<1>9. QED
  BY <1>3, <1>4, <1>5, <1>6, <1>7, <1>8 DEF Next

\* A call changes something at the service at most once, and only when its
\* command says so; a success it reports is one, in spite of timeouts,
\* refusals and replies that come too late (every tool implements RemoteCall).
THEOREM CallsKeepThePromise == Spec => ImplementsRemoteCall
<1>1. Init => Promise!AInit
  <2> SUFFICES ASSUME Init PROVE Asked = "nothing" /\ done = 0 /\ Told = "nothing"
    BY DEF Asked, Promise!AInit
  <2>1. AsPromised
    BY FirstIsAsPromised
  <2>2. QED
    BY <2>1, AskedAndTold DEF Init, ByPhase
<1>2. QED
  BY <1>1, StepsKeepThePromise, CallsAreAsPromised, PTL
     DEF Spec, ImplementsRemoteCall, Promise!ASpec
=============================================================================
