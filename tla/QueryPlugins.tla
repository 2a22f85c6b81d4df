----------------------------- MODULE QueryPlugins -----------------------------
(* The tools that send at most one request, whatever they are asked for.   *)
EXTENDS HostHttp

Tools == {"proxmox", "gmail", "outlook", "kibana", "opensearch", "elastic7",
          "elastic8", "google_search", "get_ip", "websearch", "http_request_get",
          "http_request_post", "http_request_put", "http_request_delete"}

Commands(tool) ==
    CASE tool = "proxmox" ->
           {"list_vms", "list_lxcs", "list_all_instances", "get_vm", "get_lxc",
            "instance_status", "cluster_resources", "cluster_status",
            "node_resources", "raw"}
      [] tool \in {"gmail", "outlook"} ->
           {"list_labels", "list_messages", "read_message", "search_messages"}
      [] OTHER -> {"query"}

Fields(tool, cmd) ==
    CASE tool # "proxmox"             -> {}
      [] cmd \in {"get_vm", "get_lxc"} -> {"node", "vmid"}
      [] cmd = "instance_status"       -> {"node", "vmid", "type"}
      [] cmd = "node_resources"        -> {"node"}
      [] cmd = "raw"                   -> {"path"}
      [] OTHER                         -> {}

\* Some tools need no configuration, the http_request tools take everything
\* from their caller.
Settings(tool) ==
    IF tool \in {"get_ip", "websearch", "http_request_get", "http_request_post",
                "http_request_put", "http_request_delete"}
    THEN {} ELSE {"readable", "url", "token"}

Read(what, rs, outcome) == Once(Request("request", "read", what), rs, outcome)

\* What the caller is given is the reply, whatever it says.
Passed(reply, onError) == IF reply = Thrown THEN onError ELSE "text"

Judged200(reply) ==
    IF reply.status = 200 /\ HasJson(reply) THEN "success" ELSE "failure"

-----------------------------------------------------------------------------
\* The reply object is parsed as if it were its text, which always fails.
Proxmox(c, rs) ==
    IF /\ c.cfg = Settings(c.tool)
       /\ c.cmd \in Commands("proxmox")
       /\ Fields("proxmox", c.cmd) \subseteq c.given
    THEN Read(c.cmd, rs, "failure") ELSE Answer("throws")

Mail(c, rs, outcome) ==
    IF {"readable", "token"} \subseteq c.cfg /\ c.cmd \in Commands("gmail")
    THEN Read(c.cmd, rs, outcome) ELSE Answer("failure")

Gmail(c, rs) == Mail(c, rs, Passed(rs[1], "failure"))

\* The reply object is parsed as if it were its text.
Outlook(c, rs) == Mail(c, rs, "failure")

\* User and password, here the "token", are optional.
Kibana(c, rs) ==
    IF ~({"readable", "url"} \subseteq c.cfg) THEN Answer("throws")
    ELSE LET request == Request("request", "read", "search")
         IN Once(IF "token" \in c.cfg THEN request ELSE WithoutToken(request),
                 rs, Judged200(rs[1]))

OpenSearch(c, rs) == Kibana(c, rs)

Elastic7(c, rs) ==
    IF c.cfg = Settings(c.tool)
    THEN Once(Request("rawPost", "read", "search"), rs, Judged200(rs[1]))
    ELSE Answer("throws")

Elastic8(c, rs) == Elastic7(c, rs)

\* The key is part of the URL.  What Google says is a text, an error thrown.
GoogleSearch(c, rs) ==
    IF "token" \notin c.cfg THEN Answer("throws")
    ELSE Read("search", rs, IF HasJson(rs[1]) /\ "error" \notin rs[1].body
                            THEN "text" ELSE "throws")

GetIp(rs) == Once(WithoutToken(Request("request", "read", "address")), rs,
                  IF HasJson(rs[1]) THEN "text" ELSE "throws")

WebSearch(rs) == Once(WithoutToken(Request("request", "read", "search")), rs,
                      Passed(rs[1], "failure"))

\* The caller's URL, headers and body, and no token of the tool's own.
HttpRequestGet(rs) ==
    Once(WithoutToken(Request("get", "read", "url")), rs, Passed(rs[1], "throws"))
HttpRequestPost(rs) ==
    Once(WithoutToken(Request("post", "change", "url")), rs, Passed(rs[1], "throws"))

\* Whatever the reply is, it is logged with console.log before it is returned,
\* and a plugin's VM has no console (loadPlugin sets host and require): the
\* tool throws.
HttpRequestPut(rs) ==
    Once(WithoutToken(Request("put", "change", "url")), rs, "throws")
HttpRequestDelete(rs) ==
    Once(WithoutToken(Request("delete", "delete", "url")), rs, "throws")

Call(c, rs) ==
    CASE c.tool = "proxmox"             -> Proxmox(c, rs)
      [] c.tool = "gmail"               -> Gmail(c, rs)
      [] c.tool = "outlook"             -> Outlook(c, rs)
      [] c.tool = "kibana"              -> Kibana(c, rs)
      [] c.tool = "opensearch"          -> OpenSearch(c, rs)
      [] c.tool = "elastic7"            -> Elastic7(c, rs)
      [] c.tool = "elastic8"            -> Elastic8(c, rs)
      [] c.tool = "google_search"       -> GoogleSearch(c, rs)
      [] c.tool = "get_ip"              -> GetIp(rs)
      [] c.tool = "websearch"           -> WebSearch(rs)
      [] c.tool = "http_request_get"    -> HttpRequestGet(rs)
      [] c.tool = "http_request_post"   -> HttpRequestPost(rs)
      [] c.tool = "http_request_put"    -> HttpRequestPut(rs)
      [] c.tool = "http_request_delete" -> HttpRequestDelete(rs)

=============================================================================
