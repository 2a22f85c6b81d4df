----------------------------- MODULE ServicePlugin -----------------------------
(***************************************************************************)
(* One call of a tool that works on a remote service: the plugin, the      *)
(* host's HTTP client between the two, and the service.  A request may be  *)
(* refused by the host, be lost, or outlive the client's patience and be   *)
(* carried out after the caller has been answered.                         *)
(***************************************************************************)
EXTENDS HostHttp

CONSTANTS Tool,           \* the tools that may be called
          PluginTimeout,  \* http_timeout_seconds of the plugin, or NotGiven
          GlobalTimeout,  \* http_client_timeout_seconds
          NotGiven

GitLab        == INSTANCE GitLabPlugin
Gitea         == INSTANCE GiteaPlugin
HomeAssistant == INSTANCE HomeAssistantPlugin
Zabbix        == INSTANCE ZabbixPlugin
WikiJs        == INSTANCE WikiJsPlugin
Wikipedia     == INSTANCE WikipediaPlugin
Mcwsd         == INSTANCE McwsdPlugin
Query         == INSTANCE QueryPlugins

Tools == {"gitlab", "gitea", "home_assistant", "zabbix", "wikijs", "wikipedia",
          "mcwsd"} \cup Query!Tools

ASSUME ServiceAssumption == /\ Tool \subseteq Tools
                            /\ GlobalTimeout \in Int
                            /\ PluginTimeout \in Int \cup {NotGiven}

VARIABLES
    phase,    \* "idle", "thinking", "waiting" for the host, or "answered"
    call,     \* the tool, its command, the parameters and settings there are
    page,     \* what there is to know of the article a lookup finds
    replies,  \* what the host has returned so far
    request,  \* the request that the plugin waits for
    back,     \* the service's reply to it, on its way
    late,     \* changes nobody waits for any more, on their way
    done,     \* history: how often the service has changed something
    confirmed,\* history: the reply to a change that was made, when it arrived
    outcome   \* the answer

vars == <<phase, call, page, replies, request, back, late, done, confirmed, outcome>>

NoCall    == [tool |-> "none", cmd |-> "none", given |-> {}, cfg |-> {}]
NoRequest == WithoutToken(Request("none", "read", "none"))
NoReply   == [Thrown EXCEPT !.status = -1]

Page == {p \in [ambiguous : BOOLEAN, titled : BOOLEAN] : p.titled => p.ambiguous}

Commands(tool) == CASE tool = "gitlab"         -> GitLab!Commands
                    [] tool = "gitea"          -> Gitea!Commands
                    [] tool = "home_assistant" -> HomeAssistant!Commands
                    [] tool = "zabbix"         -> Zabbix!Commands
                    [] tool = "wikijs"         -> WikiJs!Commands
                    [] tool = "wikipedia"      -> Wikipedia!Commands
                    [] tool = "mcwsd"          -> Mcwsd!Commands
                    [] OTHER                   -> Query!Commands(tool)

Fields(tool, cmd) == CASE tool = "gitlab"         -> GitLab!Fields(cmd)
                       [] tool = "gitea"          -> Gitea!Fields(cmd)
                       [] tool = "home_assistant" -> HomeAssistant!Fields(cmd)
                       [] tool = "zabbix"         -> Zabbix!Fields(cmd)
                       [] tool = "wikipedia"      -> Wikipedia!Fields(cmd)
                       [] tool = "mcwsd"          ->
                              UNION Mcwsd!Fields(Mcwsd!Canonical(cmd))
                       [] tool \in Query!Tools    -> Query!Fields(tool, cmd)
                       [] OTHER                   -> {}

Settings(tool) == CASE tool = "gitlab"         -> GitLab!Settings
                    [] tool = "gitea"          -> Gitea!Settings
                    [] tool = "home_assistant" -> HomeAssistant!Settings
                    [] tool = "zabbix"         -> Zabbix!Settings
                    [] tool = "wikijs"         -> WikiJs!Settings
                    [] tool = "wikipedia"      -> {}
                    [] tool = "mcwsd"          -> Mcwsd!Settings
                    [] OTHER                   -> Query!Settings(tool)

\* What the plugin does next.
Move(c, rs) == CASE c.tool = "gitlab"         -> GitLab!Call(c, rs)
                 [] c.tool = "gitea"          -> Gitea!Call(c, rs)
                 [] c.tool = "home_assistant" -> HomeAssistant!Call(c, rs)
                 [] c.tool = "zabbix"         -> Zabbix!Call(c, rs)
                 [] c.tool = "wikijs"         -> WikiJs!Call(c, rs)
                 [] c.tool = "wikipedia"      -> Wikipedia!Call(c, rs)
                 [] c.tool = "mcwsd"          -> Mcwsd!Call(c, rs)
                 [] OTHER                     -> Query!Call(c, rs)

-----------------------------------------------------------------------------
(* The services.                                                           *)

Json == {"text", "json"}

\* What a service says when it does what it is asked.
Results(tool, what) ==
    LET texts == IF tool = "zabbix" THEN {Json}
                 ELSE {Json, Json \cup {"ok"}, {"text"}}
                      \cup (IF what = "file" THEN {Json \cup {"sha"}} ELSE {})
    IN [status : {200}, body : texts]
       \cup (IF tool = "zabbix" THEN {} ELSE {[status |-> 204, body |-> {}]})

\* ... and when it does not: some services say so with status 200.
Refusals(tool) ==
    [status : {404, 500}, body : {{}, {"text"}, Json \cup {"error"},
                                  Json \cup {"error", "ok"}}]
    \cup (IF tool \in {"zabbix", "wikijs"}
          THEN {[status |-> 200, body |-> Json \cup {"error"}]} ELSE {})

\* What Wikipedia says of a page.
Article(pg, what) ==
    LET title == IF pg.titled THEN {"titled"} ELSE {}
        texts == CASE what = "search"   -> {Json, Json \cup {"found"} \cup title}
                   [] what = "summary"  ->
                        IF pg.ambiguous
                        THEN {Json \cup {"extract", "refers"} \cup type \cup title :
                                 type \in {{"ambiguous"}, {}}}
                        ELSE {Json, Json \cup {"extract"}}
                   [] what = "extract"  ->
                        {IF pg.ambiguous THEN Json \cup {"refers"} ELSE Json}
                   [] what = "sections" ->
                        {Json, Json \cup {"1st"}, Json \cup {"1st", "2nd"}}
                   [] OTHER             -> {Json}
    IN [status : {200}, body : texts] \cup {[status |-> 500, body |-> {"text"}]}

\* The replies to a request that has changed nothing.
RepliesTo(r) ==
    IF call.tool = "wikipedia" THEN Article(page, r.what)
    ELSE Refusals(call.tool)
         \cup (IF Changes(r) THEN {} ELSE Results(call.tool, r.what))

-----------------------------------------------------------------------------
Init ==
    /\ phase = "idle" /\ call = NoCall /\ outcome = "none"
    /\ page \in Page
    /\ replies = <<>> /\ request = NoRequest /\ back = NoReply
    /\ late = 0 /\ done = 0 /\ confirmed = NoReply

\* A tool is called, with any of its commands or an unknown one.  Only a
\* lookup looks at a page.
Begin ==
    /\ phase = "idle" /\ phase' = "thinking"
    /\ \E tool \in Tool : \E cmd \in Commands(tool) \cup {"unknown"} :
       \E given \in SUBSET Fields(tool, cmd), cfg \in SUBSET Settings(tool) :
          call' = [tool |-> tool, cmd |-> cmd, given |-> given, cfg |-> cfg]
    /\ call'.tool # "wikipedia" => page = [ambiguous |-> FALSE, titled |-> FALSE]
    /\ UNCHANGED <<page, replies, request, back, late, done, confirmed, outcome>>

\* The plugin calls a function of the host, and the host sends the request.
SendRequest ==
    /\ phase = "thinking" /\ phase' = "waiting"
    /\ LET move == Move(call, replies)
       IN /\ move.do = "send" /\ move.request.fn \in HostFunctions
          /\ request' = move.request
    /\ UNCHANGED <<call, page, replies, back, late, done, confirmed, outcome>>

\* There is no such function, or the host does not allow the domain, the
\* method or a header, or the service cannot be reached.
RequestThrows ==
    /\ phase = "thinking"
    /\ Move(call, replies).do = "send"
    /\ replies' = Append(replies, Thrown)
    /\ UNCHANGED <<phase, call, page, request, back, late, done, confirmed, outcome>>

\* The service handles the request that the plugin waits for.
Serve ==
    /\ phase = "waiting" /\ back = NoReply
    /\ \/ /\ Changes(request) /\ done' = done + 1
          /\ back' \in Results(call.tool, request.what) /\ confirmed' = back'
       \/ back' \in RepliesTo(request) /\ UNCHANGED <<done, confirmed>>
    /\ UNCHANGED <<phase, call, page, replies, request, late, outcome>>

Deliver ==
    /\ phase = "waiting" /\ phase' = "thinking" /\ back # NoReply
    /\ replies' = Append(replies, back)
    /\ request' = NoRequest /\ back' = NoReply
    /\ UNCHANGED <<call, page, late, done, confirmed, outcome>>

\* Wrong: there is no timeout unless one is configured.
TimeoutSecondsWithoutDefault ==
    IF PluginTimeout # NotGiven THEN PluginTimeout ELSE GlobalTimeout

TimeoutSeconds == IF PluginTimeout # NotGiven THEN PluginTimeout
                  ELSE IF GlobalTimeout > 0 THEN GlobalTimeout ELSE 15

\* Wrong: a request that was given up is still the plugin's.
TimeOutKeepsRequest ==
    /\ phase = "waiting" /\ phase' = "thinking" /\ TimeoutSeconds > 0
    /\ replies' = Append(replies, Thrown)
    /\ late' = IF back = NoReply /\ Changes(request) THEN late + 1 ELSE late
    /\ UNCHANGED <<call, page, request, back, done, confirmed, outcome>>

\* The client gives up.  The service may not even have begun.  No timeout at
\* all is what a client makes of one that is not positive.
TimeOut ==
    /\ phase = "waiting" /\ phase' = "thinking" /\ TimeoutSeconds > 0
    /\ replies' = Append(replies, Thrown)
    /\ late' = IF back = NoReply /\ Changes(request) THEN late + 1 ELSE late
    /\ request' = NoRequest /\ back' = NoReply /\ confirmed' = NoReply
    /\ UNCHANGED <<call, page, done, outcome>>

\* The service handles a request that nobody waits for any more, or loses it.
ServeLate ==
    /\ late > 0 /\ late' = late - 1
    /\ done' \in {done, done + 1}
    /\ UNCHANGED <<phase, call, page, replies, request, back, confirmed, outcome>>

AnswerCaller ==
    /\ phase = "thinking" /\ phase' = "answered"
    /\ LET move == Move(call, replies)
       IN move.do = "answer" /\ outcome' = move.outcome
    /\ UNCHANGED <<call, page, replies, request, back, late, done, confirmed>>

Next == \/ Begin \/ SendRequest \/ RequestThrows \/ Serve \/ Deliver
        \/ TimeOut \/ ServeLate \/ AnswerCaller

Spec == Init /\ [][Next]_vars

\* A script runs on; a reply that has come back is delivered; the client's
\* timer fires.  The service need not ever reply.
FairSpec == /\ Spec
            /\ WF_vars(SendRequest \/ RequestThrows \/ AnswerCaller)
            /\ WF_vars(Deliver \/ TimeOut)

-----------------------------------------------------------------------------
(* Properties.                                                             *)

\* Every variable has its type, and there is a request, and a reply to it, only
\* while the plugin waits.
TypeOK ==
    /\ phase \in {"idle", "thinking", "waiting", "answered"}
    /\ call.tool \in Tool \cup {"none"} /\ (phase = "idle" <=> call = NoCall)
    /\ page \in Page
    /\ request # NoRequest <=> phase = "waiting"
    /\ back # NoReply => phase = "waiting"
    /\ late \in Nat /\ done \in Nat
    /\ outcome \in {"none", "success", "failure", "throws", "text", "ambiguous"}
    /\ outcome # "none" <=> phase = "answered"

\* The commands that are there to change something.
Writes(tool) ==
    CASE tool \in {"gitlab", "gitea"} ->
           {"create_or_update_file", "update_file", "push_files",
            "create_repository", "create_issue", "create_merge_request",
            "fork_repository", "create_branch"}
      [] tool = "home_assistant" ->
           {"set_state", "delete_state", "call_service", "fire_event"}
      [] tool = "zabbix" ->
           {"create_host", "update_host", "delete_host", "create_item",
            "update_item", "create_trigger", "update_trigger"}
      [] tool = "wikijs" ->
           {"create_page", "update_page", "delete_page", "restore_page"}
      [] tool = "mcwsd" ->
           {"prepare_workspace", "exec_command", "safe_edit", "commit_and_pr",
            "destroy_workspace", "write_file", "start_job", "cancel_job",
            "start_process", "kill_process"}
      [] tool \in {"http_request_post", "http_request_put", "http_request_delete"} ->
           {"query", "unknown"}
      [] OTHER -> {}

\* What the caller is told, in the terms of RemoteCall.  The gitea tool does
\* not know whether it has succeeded, it looks for "ok" in the reply.
Told == CASE phase # "answered" -> "nothing"
          [] outcome = "success" /\ call.tool # "gitea" -> "success"
          [] OTHER -> "otherwise"

Promise == INSTANCE RemoteCall
           WITH asked <- CASE call = NoCall -> "nothing"
                           [] call.cmd \in Writes(call.tool) -> "change"
                           [] OTHER -> "read",
                told <- Told

\* A call changes something at the service at most once, and only when its
\* command says so; a success it reports is one, in spite of timeouts,
\* refusals and replies that come too late.
ImplementsRemoteCall == Promise!ASpec

\* The tools that throw after the reply to their change, whatever it says.
ThrowsAfterwards == {"http_request_put", "http_request_delete"}

\* A change that was made, and whose reply arrived and parses, is not reported
\* as a failure.  (home_assistant and mcwsd promise it of any reply, gitea of
\* none.  http_request_put and http_request_delete break it on every call.)
ConfirmedIsReported ==
    /\ phase = "answered" /\ confirmed # NoReply
    /\ call.tool \notin {"gitea"} \cup ThrowsAfterwards
    /\ HasJson(confirmed) \/ call.tool \in {"home_assistant", "mcwsd"}
    => outcome \in {"success", "text"}

\* No change is asked for without the token, when there is one ("Authorization"
\* in every handler).  The http_request tools have none to carry, and those of
\* gitlab's changes are never sent (FunctionsExist).
ChangesCarryToken ==
    phase = "waiting" /\ Changes(request) /\ "token" \in call.cfg => request.auth

\* A call always comes to an answer, also when the service never replies: there
\* is a timeout by default, and no tool sends requests for ever.
CallsAreAnswered == phase = "thinking" ~> phase = "answered"

IsArticle == call.tool = "wikipedia" /\ call.cmd # "search" /\ outcome = "success"

\* What shows that the article is a disambiguation page.
Signs == {"ambiguous", "refers", "titled"}

\* When the summary has shown a page to be a disambiguation page, it is not
\* returned as an article, however the requests after it fail.  (The wording of
\* the summary counts for brief and standard: a full lookup looks at that of the
\* full text instead, which may fail to arrive.)
SummaryIsHeeded ==
    IsArticle => replies[2].body \cap
                 (IF call.cmd = "full" THEN Signs \ {"refers"} ELSE Signs) = {}

\* A plugin only calls functions that the host object has ("Legacy flat API").
FunctionsExist ==
    phase = "thinking" /\ Move(call, replies).do = "send"
    => Move(call, replies).request.fn \in HostFunctions

=============================================================================
