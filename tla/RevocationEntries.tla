-------------------------- MODULE RevocationEntries --------------------------
(***************************************************************************)
(* The revocation list of auth/revoker.go as a value, and the operations   *)
(* the Revoker performs on it.                                             *)
(*                                                                         *)
(* A key of the list is "user" or "user:label"; an identity is a user with *)
(* an optional label.  The two have the same shape, so one set serves for  *)
(* both: <<u, NoLabel>> is the key "u" and the unlabelled identity of u.   *)
(* A list is a total function from keys to the expiry of their line.       *)
(***************************************************************************)
EXTENDS Integers

CONSTANTS User,     \* user names
          Label,    \* token labels
          NoLabel   \* a token issued without a label

ASSUME NoLabelAssumption == NoLabel \notin Label

Identity == User \X (Label \cup {NoLabel})

Absent    == -1     \* the key has no line
Permanent == 0      \* a line without an expiry, or with expiry 0

Entries == [Identity -> Nat \cup {Absent}]

NoEntries == [k \in Identity |-> Absent]

\* The blanket key of the user of k.
Bare(k) == <<k[1], NoLabel>>

\* The expiries that durations give, counted from some moments: a duration may
\* be negative, but no expiry lies before 1970.
Expiring(moments, durations) ==
    {x \in {t + d : t \in moments, d \in durations} : x > 0}

-----------------------------------------------------------------------------
(* The operations of the Revoker.  PrunedEarly, PrunedPermanent and         *)
(* UnrevokedLabelOnly are wrong versions that the properties must reject.  *)

\* readEntries drops the lines whose expiry has passed.
PrunedEarly(e, now) ==
    [k \in Identity |-> IF e[k] # Permanent /\ e[k] <= now THEN Absent ELSE e[k]]

PrunedPermanent(e, now) ==
    [k \in Identity |-> IF e[k] < now THEN Absent ELSE e[k]]

Pruned(e, now) ==
    [k \in Identity |-> IF e[k] # Permanent /\ e[k] < now THEN Absent ELSE e[k]]

\* IsRevoked: a line for the user, or for the user with this label.  The
\* expiry of the line plays no part.
IsRevoked(e, id) == e[Bare(id)] # Absent \/ e[id] # Absent

\* Revoke: a blanket key replaces every line of its user.
Revoked(e, key, expiry) ==
    [k \in Identity |-> IF k = key THEN expiry
                        ELSE IF key = Bare(k) THEN Absent
                        ELSE e[k]]

\* UnrevokeIdentity: both lines that would deny the identity go.
UnrevokedLabelOnly(e, id) == [e EXCEPT ![id] = Absent]

Unrevoked(e, id) ==
    [k \in Identity |-> IF k \in {id, Bare(id)} THEN Absent ELSE e[k]]

-----------------------------------------------------------------------------
\* What the list means at time now, said without the code's operators: some
\* line that covers id has not run out.
Denies(e, id, now) ==
    \E k \in {id, Bare(id)} : e[k] = Permanent \/ e[k] >= now

=============================================================================
