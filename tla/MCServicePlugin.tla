---------------------------- MODULE MCServicePlugin ----------------------------
(* Instances of ServicePlugin for TLC. *)
EXTENDS ServicePlugin

AllTools   == Tools
GitLabOnly == {"gitlab"}

=============================================================================
