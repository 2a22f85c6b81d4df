-------------------------- MODULE RevocationRegister --------------------------
(***************************************************************************)
(* What the revocation file promises: a register that every command        *)
(* changes in one step, starting from what the previous command left.      *)
(*                                                                         *)
(* A command may drop, on the way, lines that had run out by some moment   *)
(* of its execution, and it computes an expiry from the clock of some      *)
(* moment of its execution; the register only says "not in the future".    *)
(***************************************************************************)
EXTENDS RevocationEntries

CONSTANTS Ttl,      \* the durations given to "token revoke", in seconds
          MaxTime   \* bound on the clock

ASSUME TimeAssumption == Ttl \subseteq Int /\ MaxTime \in Nat \ {0}

VARIABLES clock,    \* unix seconds
          register  \* the revocation list

rvars == <<clock, register>>

\* The expiries a revoke can write, computed at any time up to the present.
Expiries(now) == {Permanent} \cup Expiring(1 .. now, Ttl)

RInit == clock = 1 /\ register = NoEntries

Revoke(key) ==
    /\ \E t \in 0 .. clock, x \in Expiries(clock) :
          register' = Revoked(Pruned(register, t), key, x)
    /\ UNCHANGED clock

UnrevokeIdentity(id) ==
    /\ \E t \in 0 .. clock : register' = Unrevoked(Pruned(register, t), id)
    /\ UNCHANGED clock

Tick ==
    /\ clock < MaxTime
    /\ clock' = clock + 1
    /\ UNCHANGED register

RNext == Tick \/ \E id \in Identity : Revoke(id) \/ UnrevokeIdentity(id)

RSpec == RInit /\ [][RNext]_rvars

=============================================================================
