------------------------- MODULE HomeAssistantPlugin -------------------------
(* The home_assistant tool: required parameters, then one request. *)
EXTENDS HostHttp

Commands == {"ping", "get_config", "get_states", "get_state", "set_state",
             "delete_state", "get_services", "call_service", "get_events",
             "fire_event", "get_history", "get_logbook", "get_calendars",
             "get_calendar_events", "render_template", "get_error_log",
             "check_config"}

\* The parameters a command is refused without.
Fields(cmd) ==
    CASE cmd \in {"get_state", "delete_state", "get_history"} -> {"entity_id"}
      [] cmd = "set_state"           -> {"entity_id", "state"}
      [] cmd = "call_service"        -> {"domain", "service"}
      [] cmd = "fire_event"          -> {"event_type"}
      [] cmd = "get_calendar_events" ->
             {"calendar_entity_id", "calendar_start", "calendar_end"}
      [] cmd = "render_template"     -> {"template"}
      [] OTHER                       -> {}

Settings == {"readable", "token"}

\* Wrong: a body that does not parse is a failure even so.
HandleResponseAsJson(reply) ==
    IF Is2xx(reply) /\ HasJson(reply) THEN "success" ELSE "failure"

\* Any reply with 2xx is a success: its body may be empty or plain text.
HandleResponse(reply) == IF Is2xx(reply) THEN "success" ELSE "failure"

\* What a command does there.  Templates and the configuration check are
\* posted, but change nothing.
Effect(cmd) == CASE cmd \in {"set_state", "call_service", "fire_event"} -> "change"
                 [] cmd = "delete_state" -> "delete"
                 [] OTHER -> "read"

Dispatch(cmd, given, rs) ==
    IF cmd \in Commands /\ Fields(cmd) \subseteq given
    THEN Once(Request("request", Effect(cmd), cmd), rs, HandleResponse(rs[1]))
    ELSE Answer("failure")

Call(c, rs) == IF Settings \subseteq c.cfg THEN Dispatch(c.cmd, c.given, rs)
                                           ELSE Answer("failure")

=============================================================================
