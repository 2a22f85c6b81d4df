------------------------------- MODULE HostHttp -------------------------------
(***************************************************************************)
(* What plugins and the host say to each other about HTTP.  A call of a    *)
(* plugin is synchronous: between two requests it depends on nothing but   *)
(* its parameters, its configuration and the replies it has had.  Each     *)
(* plugin is therefore an operator from these to its next move, which is   *)
(* to send one more request or to answer.                                  *)
(***************************************************************************)
EXTENDS Integers, Sequences

\* The functions that the host object has for HTTP.
HostFunctions == {"get", "post", "patch", "put", "delete", "options", "head",
                  "rawPost", "request"}

\* A request: the function of the host that is to send it, whether the service
\* is to read, change or delete something, what, and whether it carries
\* the credentials the tool is configured with.
Request(fn, effect, what) ==
    [fn |-> fn, effect |-> effect, what |-> what, auth |-> TRUE]

WithoutToken(request) == [request EXCEPT !.auth = FALSE]

Changes(request) == request.effect \in {"change", "delete"}

\* A reply: its status, and the set of what can be said of its body, "text"
\* when there is one, "json" when it parses.
Thrown == [status |-> 0, body |-> {}]

Is2xx(reply)   == reply.status \in 200 .. 299
HasJson(reply) == "json" \in reply.body

Send(request)   == [do |-> "send", request |-> request]
Answer(outcome) == [do |-> "answer", outcome |-> outcome]

\* A call that makes one request and answers from the reply.
Once(request, replies, outcome) ==
    IF replies = <<>> THEN Send(request) ELSE Answer(outcome)

=============================================================================
