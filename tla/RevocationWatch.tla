--------------------------- MODULE RevocationWatch ----------------------------
(***************************************************************************)
(* The running HTTP server's side of revocation: auth.NewRevoker at start  *)
(* (main.go), the goroutine of Watch that reloads the file on a ticker,    *)
(* and auth.Validate, which every request runs against the snapshot in     *)
(* memory.  The file is the register of RevocationRegister.                *)
(*                                                                         *)
(* A reload is two steps: it reads and parses the file, and then takes the *)
(* lock to swap the new set in.  A validation is two steps as well: it     *)
(* compares the token's expiry with the clock, and then asks the Revoker.  *)
(* Commands, clock ticks and each other's steps come in between.           *)
(*                                                                         *)
(* A reload that fails keeps the snapshot: it changes nothing, and is a    *)
(* stuttering step here.                                                   *)
(***************************************************************************)
EXTENDS RevocationRegister

CONSTANT Request   \* concurrent HTTP requests

VARIABLES
    up,        \* whether the server runs
    snapshot,  \* Revoker.revoked
    reload,    \* "idle", or "read" between reading the file and the swap
    loaded,    \* the entries a reload has read
    req,       \* the requests being validated
    standing,  \* history: identities the file denied when the server last
               \* read it, and ever since
    upheld     \* history: identities whose revocation is in effect (Uphold)

serverVars == <<up, snapshot, reload, loaded, req>>
wvars == <<rvars, serverVars, standing, upheld>>

NoRequest == [stage |-> "none"]
Validation ==
    {NoRequest} \cup
    [stage : {"checked", "accepted", "rejected"}, id : Identity,
     exp : Nat, covered : BOOLEAN]

WInit ==
    /\ RInit
    /\ up = FALSE
    /\ snapshot = NoEntries
    /\ reload = "idle" /\ loaded = NoEntries
    /\ req = [r \in Request |-> NoRequest]
    /\ standing = {} /\ upheld = {}

-----------------------------------------------------------------------------
(* The server's life and its reloads.                                      *)

\* What readEntries returns now.
ReadEntries == Pruned(register, clock)

\* runHTTP: NewRevoker loads the file before the server listens.
StartServer ==
    /\ ~up /\ up' = TRUE
    /\ snapshot' = ReadEntries
    /\ UNCHANGED <<rvars, reload, loaded, req>>

\* Wrong: a reload survives the server it belongs to.
StopServerMidReload ==
    /\ up /\ up' = FALSE
    /\ snapshot' = NoEntries
    /\ req' = [r \in Request |-> NoRequest]
    /\ UNCHANGED <<rvars, reload, loaded>>

\* The process exits, or is killed, at any moment.
StopServer ==
    /\ up /\ up' = FALSE
    /\ snapshot' = NoEntries
    /\ reload' = "idle" /\ loaded' = NoEntries
    /\ req' = [r \in Request |-> NoRequest]
    /\ UNCHANGED rvars

\* The ticker of Watch fires and reload reads the file.
ReloadRead ==
    /\ up /\ reload = "idle"
    /\ reload' = "read" /\ loaded' = ReadEntries
    /\ UNCHANGED <<rvars, up, snapshot, req>>

\* Wrong: the new set is merged into the old one.
ReloadMerge ==
    /\ reload = "read"
    /\ snapshot' = [k \in Identity |-> IF loaded[k] = Absent THEN snapshot[k]
                                       ELSE loaded[k]]
    /\ reload' = "idle" /\ loaded' = NoEntries
    /\ UNCHANGED <<rvars, up, req>>

\* Wrong: the new set is read and not taken.
ReloadDropped ==
    /\ reload = "read"
    /\ reload' = "idle" /\ loaded' = NoEntries
    /\ UNCHANGED <<rvars, up, snapshot, req>>

\* reload swaps the new set in under the write lock.
ReloadSwap ==
    /\ reload = "read"
    /\ snapshot' = loaded
    /\ reload' = "idle" /\ loaded' = NoEntries
    /\ UNCHANGED <<rvars, up, req>>

-----------------------------------------------------------------------------
(* Validate, for any correctly signed token.                               *)

\* The entry for id outlives a token that expires at exp.
Covers(e, id, exp) == Denies(e, id, exp)

CheckExpiry(r) ==
    /\ up /\ req[r].stage # "checked"
    /\ \E id \in Identity, exp \in 1 .. MaxTime :
          req' = [req EXCEPT ![r] =
                    [stage |-> IF clock > exp THEN "rejected" ELSE "checked",
                     id |-> id, exp |-> exp,
                     covered |-> id \in upheld /\ Covers(register, id, exp)]]
    /\ UNCHANGED <<rvars, up, snapshot, reload, loaded>>

\* Wrong: the list is asked together with the expiry, and the answer kept.
CheckRevokedFromMemory(r) ==
    /\ req[r].stage = "checked"
    /\ req' = [req EXCEPT ![r].stage =
                 IF req[r].covered THEN "rejected" ELSE "accepted"]
    /\ UNCHANGED <<rvars, up, snapshot, reload, loaded>>

CheckRevoked(r) ==
    /\ req[r].stage = "checked"
    /\ req' = [req EXCEPT ![r].stage =
                 IF IsRevoked(snapshot, req[r].id) THEN "rejected"
                                                   ELSE "accepted"]
    /\ UNCHANGED <<rvars, up, snapshot, reload, loaded>>

\* A command changes the file.  A request whose identity is off the list now
\* is no longer covered by the revocation it was checked under.
FileChanges ==
    /\ \E id \in Identity : Revoke(id) \/ UnrevokeIdentity(id)
    /\ req' = [r \in Request |->
                 IF req[r].stage = "checked" /\ ~IsRevoked(register', req[r].id)
                 THEN [req[r] EXCEPT !.covered = FALSE] ELSE req[r]]
    /\ UNCHANGED <<up, snapshot, reload, loaded>>

TimePasses == Tick /\ UNCHANGED serverVars

\* The server reads the file when it starts and at every reload.
Reads == (~up /\ up') \/ (reload = "idle" /\ reload' = "read")

\* A revocation is in effect, for as long as the file has it, from the moment
\* the server has read it and swapped it in, or enforces it anyway.  One case
\* is left out: while a reload that has read the file is in flight, what the
\* old snapshot enforces counts only if the file has had it since that read.
\* An identity unrevoked before the read and revoked anew after it is denied
\* by the old snapshot and not by the list that is about to be swapped in: it
\* may be accepted from the swap to the next reload, and is upheld from then.
Uphold ==
    /\ standing' = {id \in Identity : /\ Denies(register', id, clock')
                                      /\ Reads \/ id \in standing}
    /\ upheld' =
         {id \in Identity :
            /\ Denies(register', id, clock')
            /\ \/ id \in upheld
               \/ up' /\ reload' = "idle" /\ id \in standing'
               \/ /\ up' /\ IsRevoked(snapshot', id)
                  /\ reload' = "read" => id \in standing'}

ServerStep ==
    \/ StartServer \/ StopServer
    \/ ReloadRead \/ ReloadSwap
    \/ \E r \in Request : CheckExpiry(r) \/ CheckRevoked(r)

WNext == (ServerStep \/ FileChanges \/ TimePasses) /\ Uphold

WSpec == WInit /\ [][WNext]_wvars

\* The ticker keeps firing, a read does not fail for ever, and the lock is
\* only held for a map lookup or an assignment.
FairSpec == WSpec /\ WF_wvars(ReloadRead /\ Uphold)
                  /\ WF_wvars(ReloadSwap /\ Uphold)

-----------------------------------------------------------------------------
(* Properties.                                                             *)

\* Every variable has its type, and a stopped server remembers nothing.
WTypeOK ==
    /\ clock \in 1 .. MaxTime /\ register \in Entries
    /\ up \in BOOLEAN
    /\ snapshot \in Entries /\ loaded \in Entries
    /\ reload \in {"idle", "read"}
    /\ ~up => reload = "idle" /\ \A r \in Request : req[r] = NoRequest
    /\ req \in [Request -> Validation]
    /\ standing \subseteq Identity /\ upheld \subseteq Identity

\* Once a revocation is in effect in a running server it stays in effect for
\* as long as the file has it: no reload that swaps in a list read earlier, no
\* restart and no other change of the file re-admits the identity (Watch: a
\* reload never makes a token "suddenly look valid").  Uphold says when a
\* revocation is in effect, and which one a reload in flight may still drop.
UpheldIsEnforced == up => \A id \in upheld : IsRevoked(snapshot, id)

\* Why: the file denies what is upheld and what is standing, a list in flight
\* has all that is standing, and without one all that is standing is upheld.
UpheldInv ==
    /\ \A id \in upheld \cup standing : Denies(register, id, clock)
    /\ UpheldIsEnforced
    /\ reload = "read" => /\ upheld \subseteq standing
                          /\ \A id \in standing : IsRevoked(loaded, id)
    /\ up /\ reload = "idle" => standing \subseteq upheld

\* No request is accepted for an identity whose revocation is upheld, also
\* when its validation began before the revocation was known (Validate).  What
\* is upheld is what Uphold says: an identity revoked anew during a reload that
\* has already read the file is not, until the next reload.
UpheldNeverAccepted ==
    [][\A r \in Request :
          req[r].stage = "checked" /\ req'[r].stage = "accepted" =>
             req[r].id \notin upheld]_wvars

\* A token is not accepted when its validation began under a revocation that
\* outlives the token and that nobody took back: an entry with the token's
\* exp may go "once that token would have expired naturally anyway".
CoveredNeverAccepted ==
    [][\A r \in Request :
          req[r].stage = "checked" /\ req'[r].stage = "accepted" =>
             ~req[r].covered]_wvars

\* A revocation that stays in the file reaches the running server for good,
\* and so does its removal (Watch: "revocation takes effect without
\* restarting the server").
RevocationConverges ==
    \A id \in Identity :
       <>[](up /\ Denies(register, id, clock)) => <>[]IsRevoked(snapshot, id)

ReissueConverges ==
    \A id \in Identity :
       <>[](up /\ ~IsRevoked(register, id)) => <>[]~IsRevoked(snapshot, id)

=============================================================================
