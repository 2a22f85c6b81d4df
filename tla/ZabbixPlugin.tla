----------------------------- MODULE ZabbixPlugin -----------------------------
(***************************************************************************)
(* The zabbix tool: one JSON-RPC request per call.  A reply says with its  *)
(* status whether there was an answer, and with an "error" member whether  *)
(* that is a refusal.  The token that login obtains is a variable of the   *)
(* call and ends with it.                                                  *)
(***************************************************************************)
EXTENDS HostHttp

Commands == {"login", "get_hosts", "get_items", "get_triggers", "get_events",
             "create_host", "update_host", "delete_host", "create_item",
             "update_item", "create_trigger", "update_trigger"}

Fields(cmd) == IF cmd = "delete_host" THEN {"hostid"} ELSE {}

Settings == {"readable", "url", "token", "user"}

RpcResult(reply) ==
    IF Is2xx(reply) /\ HasJson(reply) /\ "error" \notin reply.body
    THEN "success" ELSE "failure"

\* Without a token the request says "auth": null.
Rpc(method, effect, useAuth, rs) ==
    LET request == Request("request", effect, method)
    IN Once(IF useAuth THEN request ELSE WithoutToken(request), rs, RpcResult(rs[1]))

\* User and password are only read when no token is configured.
DoLogin(cfg, rs) == IF "user" \in cfg /\ "token" \notin cfg
                    THEN Rpc("user.login", "read", FALSE, rs)
                    ELSE Answer("failure")

Effect(cmd) == CASE cmd \in {"get_hosts", "get_items", "get_triggers", "get_events"}
                                       -> "read"
                 [] cmd = "delete_host" -> "delete"
                 [] OTHER               -> "change"

Dispatch(c, rs) ==
    CASE c.cmd \notin Commands             -> Answer("failure")
      [] c.cmd = "login"                   -> DoLogin(c.cfg, rs)
      [] ~(Fields(c.cmd) \subseteq c.given) -> Answer("failure")
      [] OTHER -> Rpc(c.cmd, Effect(c.cmd), "token" \in c.cfg, rs)

Call(c, rs) == IF {"readable", "url"} \subseteq c.cfg THEN Dispatch(c, rs)
                                                      ELSE Answer("failure")

=============================================================================
