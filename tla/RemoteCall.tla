------------------------------ MODULE RemoteCall ------------------------------
(***************************************************************************)
(* What a tool that works on a remote service promises of one call: it     *)
(* changes something there at most once, and only when it is asked to; a   *)
(* success that the caller is told of has taken place before, and nothing  *)
(* happens after it.  Any other answer leaves open what has happened, or   *)
(* is still going to.                                                      *)
(***************************************************************************)
EXTENDS Integers

VARIABLES
    asked,   \* what the call is for: "nothing" yet, "read" or "change"
    done,    \* how often the service has changed something for it
    told     \* what the caller has been told

avars == <<asked, done, told>>

AInit == asked = "nothing" /\ done = 0 /\ told = "nothing"

Ask == /\ asked = "nothing" /\ asked' \in {"read", "change"}
       /\ UNCHANGED <<done, told>>

Do == /\ asked = "change" /\ done = 0 /\ told # "success" /\ done' = 1
      /\ UNCHANGED <<asked, told>>

TellSuccess == /\ asked = "read" \/ done = 1
               /\ told = "nothing" /\ told' = "success"
               /\ UNCHANGED <<asked, done>>

TellOtherwise == /\ asked # "nothing"
                 /\ told = "nothing" /\ told' = "otherwise"
                 /\ UNCHANGED <<asked, done>>

ANext == Ask \/ Do \/ TellSuccess \/ TellOtherwise

ASpec == AInit /\ [][ANext]_avars

=============================================================================
