----------------------------- MODULE PluginCalls ------------------------------
(***************************************************************************)
(* Tool calls over HTTP (plugin/plugin.go, CallTool).  Every request runs  *)
(* in a goroutine of its own.  A plugin has one VM, and a call stores its  *)
(* own "host" object (built from the request: identity, session, headers)  *)
(* and its own "require" in two global variables of that VM before it      *)
(* enters the plugin's call function, which looks them up by name.         *)
(* Nothing keeps two calls of one plugin apart.                            *)
(*                                                                         *)
(* The calls interleave between the calls of VM.Set and of the plugin, and *)
(* between host functions.  What the unsynchronised VM itself does then is *)
(* undefined; the model only counts the outcomes in which it works.        *)
(***************************************************************************)
EXTENDS Integers, Sequences

CONSTANTS Call,      \* tool calls of several clients
          Tool,      \* the tools that are loaded
          NoTool,    \* a name no tool has
          MaxUses,   \* bound on the host functions one call uses
          OneAtATime \* clients never call a tool that is executing a call

ASSUME CallsAssumption == /\ NoTool \notin Tool
                          /\ MaxUses \in Nat
                          /\ OneAtATime \in BOOLEAN

VARIABLES
    pc,       \* where each call is in CallTool
    name,     \* the tool it asks for
    host,     \* VM global: the call whose host object it is, or "load"
    require,  \* VM global: the call whose require it is, or "load"
    acted     \* per call, the calls in whose name its host functions acted

vars == <<pc, name, host, require, acted>>

Stage == {"arrived", "found", "hosted", "running", "answered", "failed"}
Inside(c) == pc[c] \in {"found", "hosted", "running"}

Init ==
    /\ pc = [c \in Call |-> "arrived"]
    /\ name \in [Call -> Tool \cup {NoTool}]
    /\ host = [t \in Tool |-> "load"]
    /\ require = [t \in Tool |-> "load"]
    /\ acted = [c \in Call |-> <<>>]

Goto(c, stage) == pc' = [pc EXCEPT ![c] = stage]

\* Wrong: the tool is not looked up.
FindAnything(c) ==
    /\ pc[c] = "arrived"
    /\ Goto(c, "found")
    /\ UNCHANGED <<name, host, require, acted>>

\* The tool is looked up and the arguments are parsed; either may fail.
Find(c) ==
    /\ pc[c] = "arrived"
    /\ OneAtATime => \A d \in Call : Inside(d) => name[d] # name[c]
    /\ \/ name[c] \in Tool /\ Goto(c, "found")
       \/ Goto(c, "failed")
    /\ UNCHANGED <<name, host, require, acted>>

\* Wrong: the host object of the load is left in place.
KeepHost(c) ==
    /\ pc[c] = "found" /\ Goto(c, "hosted")
    /\ UNCHANGED <<name, host, require, acted>>

SetHost(c) ==
    /\ pc[c] = "found" /\ Goto(c, "hosted")
    /\ host' = [host EXCEPT ![name[c]] = c]
    /\ UNCHANGED <<name, require, acted>>

SetRequire(c) ==
    /\ pc[c] = "hosted" /\ Goto(c, "running")
    /\ require' = [require EXCEPT ![name[c]] = c]
    /\ UNCHANGED <<name, host, acted>>

\* The plugin uses a function or a field of "host", and so do the files that
\* it loads with "require".
UseHost(c) ==
    /\ pc[c] = "running" /\ Len(acted[c]) < MaxUses
    /\ acted' = [acted EXCEPT ![c] = Append(@, host[name[c]])]
    /\ UNCHANGED <<pc, name, host, require>>

UseRequire(c) ==
    /\ pc[c] = "running" /\ Len(acted[c]) < MaxUses
    /\ acted' = [acted EXCEPT ![c] = Append(@, require[name[c]])]
    /\ UNCHANGED <<pc, name, host, require>>

\* The call function returns, or throws.
Answer(c) ==
    /\ pc[c] = "running"
    /\ Goto(c, "answered") \/ Goto(c, "failed")
    /\ UNCHANGED <<name, host, require, acted>>

Next == \E c \in Call : \/ Find(c) \/ SetHost(c) \/ SetRequire(c)
                        \/ UseHost(c) \/ UseRequire(c) \/ Answer(c)

Spec == Init /\ [][Next]_vars

-----------------------------------------------------------------------------
\* Every variable has its type.
TypeOK ==
    /\ pc \in [Call -> Stage]
    /\ name \in [Call -> Tool \cup {NoTool}]
    /\ \A c \in Call : Inside(c) => name[c] \in Tool
    /\ host \in [Tool -> Call \cup {"load"}]
    /\ require \in [Tool -> Call \cup {"load"}]
    /\ acted \in [Call -> Seq(Call \cup {"load"})]

\* Whatever a call does with host and require it does in its own name: with
\* its caller's identity and headers, and with its own map of visited files
\* (loadPlugin: the host object is "refreshed again on every CallTool
\* invocation with the correct context").
ActsInOwnName ==
    \A c \in Call : \A i \in 1 .. Len(acted[c]) : acted[c][i] = c

=============================================================================
