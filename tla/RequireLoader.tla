---------------------------- MODULE RequireLoader -----------------------------
(***************************************************************************)
(* require() of plugin scripts (plugin/plugin.go, makeModuleLoader): each  *)
(* require runs the module's file in the plugin's own VM, and a map of     *)
(* visited files detects cycles.  While a tool call runs (CallTool) all    *)
(* requires share one map; while the plugin is loaded (makeRequire) every  *)
(* require begins with a fresh one.                                        *)
(*                                                                         *)
(* A file is its list of steps: it requires other files, and it assigns    *)
(* module.exports.  "module" is a global variable of the VM that the       *)
(* prologue of every file assigns anew.                                    *)
(***************************************************************************)
EXTENDS Integers, Sequences

CONSTANTS Module,     \* the files that can be required
          Missing,    \* those that do not exist
          Scripts,    \* the sets of files to consider: [Module -> Seq(Step)]
          Bodies,     \* the code at the bottom: call(), or the plugin's file
          SharedMap,  \* TRUE in a tool call, FALSE while the plugin is loaded
          Plugin,     \* names the code at the bottom
          MaxDepth    \* bound on nested requires: the Go stack is finite

Export  == [op |-> "export"]
Step    == {Export} \cup [op : {"require"}, module : Module]

ASSUME LoaderAssumption ==
    /\ Missing \subseteq Module /\ Plugin \notin Module
    /\ Scripts \subseteq [Module -> Seq(Step)]
    /\ Bodies \subseteq Seq(Step)
    /\ SharedMap \in BOOLEAN
    /\ MaxDepth \in Nat

VARIABLES
    script,    \* what the files contain; never changes
    stack,     \* the code that runs, innermost first, with its steps to go
    visited,   \* the shared map
    exported,  \* module.exports: whose prologue or assignment set it, and which
    thrown     \* an exception is on its way up

vars == <<script, stack, visited, exported, thrown>>

Frame == [module : Module \cup {Plugin}, todo : Seq(Step)]

Running == stack # <<>> /\ ~thrown
Top     == Head(stack)
AtStep(op) == Running /\ Top.todo # <<>> /\ Head(Top.todo).op = op

\* The innermost code goes on to its next step.
Advanced == <<[Top EXCEPT !.todo = Tail(@)]>> \o Tail(stack)

Init ==
    /\ script \in Scripts
    /\ \E body \in Bodies : stack = <<[module |-> Plugin, todo |-> body]>>
    /\ visited = {}
    /\ exported = [by |-> Plugin, assigned |-> FALSE]
    /\ thrown = FALSE

-----------------------------------------------------------------------------
\* Wrong: nobody looks at the map.
NeverSeen(m) == FALSE

\* The file is in the map this require looks at.
Seen(m) == SharedMap /\ m \in visited

\* load: the file is read, entered in the map, and run in a "fresh" scope.
Enter ==
    /\ AtStep("require")
    /\ LET m == Head(Top.todo).module IN
       /\ ~Seen(m) /\ m \notin Missing
       /\ Len(stack) <= MaxDepth
       /\ stack' = <<[module |-> m, todo |-> script[m]]>> \o Advanced
       /\ visited' = visited \cup {m}
       /\ exported' = [by |-> m, assigned |-> FALSE]
    /\ UNCHANGED <<script, thrown>>

\* load: a cycle, or a file that cannot be read, is an exception in the
\* requiring code.
Refuse ==
    /\ AtStep("require")
    /\ LET m == Head(Top.todo).module IN Seen(m) \/ m \in Missing
    /\ stack' = Advanced
    /\ thrown' = TRUE
    /\ UNCHANGED <<script, visited, exported>>

\* module.exports = ..., in the module the global variable holds now.
Assign ==
    /\ AtStep("export")
    /\ stack' = Advanced
    /\ exported' = [by |-> Top.module, assigned |-> TRUE]
    /\ UNCHANGED <<script, visited, thrown>>

\* Wrong: the file stays in the map for the rest of the call.
ReturnVisited ==
    /\ Running /\ Top.todo = <<>>
    /\ stack' = Tail(stack)
    /\ UNCHANGED <<script, visited, exported, thrown>>

\* The file's last expression is module.exports; the deferred delete takes
\* the file out of the map "for other branches".
Return ==
    /\ Running /\ Top.todo = <<>>
    /\ stack' = Tail(stack)
    /\ visited' = visited \ {Top.module}
    /\ UNCHANGED <<script, exported, thrown>>

\* The code catches the exception and goes on.
Catch ==
    /\ thrown /\ thrown' = FALSE
    /\ UNCHANGED <<script, stack, visited, exported>>

\* Wrong: the exception goes on when there is no code left to catch it.
UnwindPastTheEnd ==
    /\ thrown /\ stack # <<>>
    /\ stack' = Tail(stack)
    /\ visited' = visited \ {Top.module}
    /\ UNCHANGED <<script, exported, thrown>>

\* The code does not, and ends: load throws the exception again, in the code
\* that required it, and the deferred delete runs on the way.
Unwind ==
    /\ thrown
    /\ stack' = Tail(stack)
    /\ visited' = visited \ {Top.module}
    /\ thrown' = (Tail(stack) # <<>>)
    /\ UNCHANGED <<script, exported>>

Next == Enter \/ Refuse \/ Assign \/ Return \/ Catch \/ Unwind

Spec == Init /\ [][Next]_vars

\* A script that runs is not suspended.
FairSpec == Spec /\ WF_vars(Next)

-----------------------------------------------------------------------------
(* Properties.                                                             *)

\* Every variable has its type.
TypeOK ==
    /\ script \in [Module -> Seq(Step)]
    /\ stack \in Seq(Frame)
    /\ visited \subseteq Module
    /\ exported \in [by : Module \cup {Plugin}, assigned : BOOLEAN]
    /\ thrown \in BOOLEAN
    /\ thrown => stack # <<>>

\* The required files that are running.
InProgress == {stack[i].module : i \in 1 .. Len(stack)} \ {Plugin}

\* The shared map is exact: it holds the files in progress and no other, on
\* every path of returns and exceptions.  So a cycle is never missed, and a
\* file required twice by different branches is never taken for a cycle.
MapIsExact == SharedMap => visited = InProgress

\* No file is run while it is already running ("recursive loader with cycle
\* detection").
NoFileInsideItself ==
    \A i, j \in 1 .. Len(stack) :
       stack[i].module = stack[j].module => i = j

\* A require whose file assigned module.exports returns what that file
\* assigned, not the exports of a file it required in turn (load: "provide a
\* fresh module scope").
ReturnsOwnExports ==
    (Running /\ Top.todo = <<>> /\ Top.module \in Module) =>
       exported.by = Top.module

\* Every call of require comes to an end, whatever the files require of each
\* other and whichever exceptions they catch.
LoadingEnds == <>(stack = <<>>)

=============================================================================
