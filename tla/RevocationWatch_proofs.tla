------------------------ MODULE RevocationWatch_proofs ------------------------
(* A revocation that has taken effect stays in effect. *)
EXTENDS RevocationWatch, RevocationEntries_proofs

\* Every expiry a command writes is a number.
LEMMA ExpiriesAreNat ==
  ASSUME NEW now \in Nat
  PROVE  Expiries(now) \subseteq Nat
  BY TimeAssumption DEF Expiries, Expiring, Permanent

\* Every variable has its type, in every state of every instance.
THEOREM WTypeCorrect == WSpec => []WTypeOK
<1>1. WInit => WTypeOK
  <2>1. NoEntries \in Entries /\ 1 \in 1 .. MaxTime
    BY TimeAssumption DEF NoEntries, Entries, Absent
  <2>2. QED
    BY <2>1 DEF WInit, RInit, WTypeOK, Validation
<1>2. WTypeOK /\ [WNext]_wvars => WTypeOK'
  <2> SUFFICES ASSUME WTypeOK, [WNext]_wvars
               PROVE  WTypeOK'
    OBVIOUS
  <2> USE DEF WTypeOK
  <2>1. CASE UNCHANGED wvars
    BY <2>1 DEF wvars, rvars, serverVars
  <2>2. ASSUME Uphold
        PROVE  standing' \subseteq Identity /\ upheld' \subseteq Identity
    BY <2>2 DEF Uphold
  <2>3. clock \in Nat /\ clock \in Int /\ ReadEntries \in Entries
    BY TimeAssumption, EntriesClosed DEF ReadEntries, Pruned, Entries, Absent
  <2>4. NoEntries \in Entries
    BY DEF NoEntries, Entries, Absent
  <2>5. CASE StartServer /\ Uphold
    BY <2>5, <2>2, <2>3 DEF StartServer, rvars, NoRequest
  <2>6. CASE StopServer /\ Uphold
    BY <2>6, <2>2, <2>4 DEF StopServer, rvars, Validation
  <2>7. CASE ReloadRead /\ Uphold
    BY <2>7, <2>2, <2>3 DEF ReloadRead, rvars
  <2>8. CASE ReloadSwap /\ Uphold
    <3>1. up
      BY <2>8 DEF ReloadSwap
    <3>2. QED
      BY <3>1, <2>8, <2>2, <2>4 DEF ReloadSwap, rvars
  <2>9. ASSUME NEW r \in Request, CheckExpiry(r), Uphold PROVE WTypeOK'
    <3>1. PICK id \in Identity, exp \in 1 .. MaxTime :
             req' = [req EXCEPT ![r] =
                [stage |-> IF clock > exp THEN "rejected" ELSE "checked",
                 id |-> id, exp |-> exp,
                 covered |-> id \in upheld /\ Covers(register, id, exp)]]
      BY <2>9 DEF CheckExpiry
    <3>2. exp \in Nat
      BY TimeAssumption
    <3>3. (id \in upheld /\ Covers(register, id, exp)) \in BOOLEAN
      BY DEF Covers, Denies
    <3>4. req' \in [Request -> Validation]
      BY <3>1, <3>2, <3>3 DEF Validation
    <3>5. QED
      BY <3>4, <2>9, <2>2 DEF CheckExpiry, rvars
  <2>10. ASSUME NEW r \in Request, CheckRevoked(r), Uphold PROVE WTypeOK'
    <3>1. req' \in [Request -> Validation]
      BY <2>10 DEF CheckRevoked, Validation, NoRequest
    <3>2. up
      BY <2>10 DEF CheckRevoked, NoRequest
    <3>3. QED
      BY <3>1, <3>2, <2>10, <2>2 DEF CheckRevoked, rvars
  <2>11. CASE FileChanges /\ Uphold
    <3>1. req' \in [Request -> Validation]
      BY <2>11 DEF FileChanges, Validation, NoRequest
    <3>2. register' \in Entries /\ clock' = clock
      <4>1. ASSUME NEW id \in Identity, Revoke(id)
            PROVE  register' \in Entries /\ clock' = clock
        <5>1. PICK t \in 0 .. clock, x \in Expiries(clock) :
                 register' = Revoked(Pruned(register, t), id, x)
          BY <4>1 DEF Revoke
        <5>2. x \in Nat
          BY ExpiriesAreNat, <2>3
        <5>3. QED
          BY <4>1, <5>1, <5>2, EntriesClosed DEF Revoke
      <4>2. ASSUME NEW id \in Identity, UnrevokeIdentity(id)
            PROVE  register' \in Entries /\ clock' = clock
        <5>1. PICK t \in 0 .. clock :
                 register' = Unrevoked(Pruned(register, t), id)
          BY <4>2 DEF UnrevokeIdentity
        <5>2. QED
          BY <4>2, <5>1, EntriesClosed DEF UnrevokeIdentity
      <4>3. QED
        BY <2>11, <4>1, <4>2 DEF FileChanges
    <3>3. ~up => \A r \in Request : req'[r] = NoRequest
      BY <2>11 DEF FileChanges, NoRequest
    <3>4. QED
      BY <3>1, <3>2, <3>3, <2>11, <2>2 DEF FileChanges
  <2>12. CASE TimePasses /\ Uphold
    BY <2>12, <2>2, TimeAssumption DEF TimePasses, Tick, serverVars
  <2>13. QED
    BY <2>1, <2>5, <2>6, <2>7, <2>8, <2>9, <2>10, <2>11, <2>12
       DEF WNext, ServerStep
<1>3. QED
  BY <1>1, <1>2, PTL DEF WSpec

-----------------------------------------------------------------------------
\* The server enforces every revocation it has read and swapped in, or enforces
\* otherwise, for as long as the file has it, whatever is reloaded, restarted or
\* written in between; Uphold leaves out what a command revokes anew while a
\* reload that has read the file is in flight.
THEOREM RevocationStaysInEffect == WSpec => []UpheldIsEnforced
<1>1. WInit => UpheldInv
  BY DEF WInit, UpheldInv, UpheldIsEnforced
<1>2. WTypeOK /\ UpheldInv /\ [WNext]_wvars => UpheldInv'
  <2> SUFFICES ASSUME WTypeOK, UpheldInv, [WNext]_wvars
               PROVE  UpheldInv'
    OBVIOUS
  <2>1. CASE UNCHANGED wvars
    BY <2>1 DEF wvars, rvars, serverVars, UpheldInv, UpheldIsEnforced, Denies,
                IsRevoked
  <2>2. CASE Uphold /\ (ServerStep \/ FileChanges \/ TimePasses)
    <3>1. ASSUME NEW id \in upheld' \cup standing'
          PROVE  Denies(register', id, clock')
      BY <2>2, <3>1 DEF Uphold
    <3>2. ASSUME NEW id \in Identity, Denies(register, id, clock)
          PROVE  IsRevoked(ReadEntries, id)
      <4>1. register \in Entries /\ clock \in Nat
        BY TimeAssumption DEF WTypeOK
      <4>2. QED
        BY <3>2, <4>1, PrunedKeepsDenied DEF ReadEntries
    <3>3. ASSUME NEW id \in upheld \cup standing
          PROVE  IsRevoked(ReadEntries, id)
      BY <3>2, <3>3 DEF WTypeOK, UpheldInv
    <3>4. ASSUME NEW id \in upheld, up'
          PROVE  IsRevoked(snapshot', id)
      <4>1. CASE StartServer
        BY <4>1, <3>3, <3>4 DEF StartServer
      <4>2. CASE ReloadSwap
        BY <4>2, <3>4 DEF ReloadSwap, UpheldInv
      <4>3. CASE StopServer
        BY <4>3, <3>4 DEF StopServer
      <4>4. ASSUME UNCHANGED <<up, snapshot>>
            PROVE  IsRevoked(snapshot', id)
        BY <4>4, <3>4 DEF UpheldInv, UpheldIsEnforced
      <4>5. QED
        BY <2>2, <4>1, <4>2, <4>3, <4>4
           DEF ServerStep, ReloadRead, CheckExpiry, CheckRevoked, FileChanges,
               TimePasses, serverVars
    <3>5. ASSUME NEW id \in standing', reload' = "read"
          PROVE  IsRevoked(loaded', id)
      <4>1. CASE ReloadRead
        <5>1. /\ register' = register /\ clock' = clock
              /\ loaded' = ReadEntries
          BY <4>1 DEF ReloadRead, rvars
        <5>2. id \in Identity /\ Denies(register, id, clock)
          BY <2>2, <5>1 DEF Uphold
        <5>3. QED
          BY <5>1, <5>2, <3>2
      <4>2. ASSUME UNCHANGED <<up, reload, loaded>>
            PROVE  IsRevoked(loaded', id)
        <5>1. reload = "read" /\ ~Reads
          BY <4>2, <3>5 DEF Reads
        <5>2. id \in standing
          BY <2>2, <5>1 DEF Uphold
        <5>3. QED
          BY <4>2, <5>1, <5>2 DEF UpheldInv
      <4>3. ~StartServer /\ ~StopServer /\ ~ReloadSwap
        BY <3>5 DEF WTypeOK, StartServer, StopServer, ReloadSwap
      <4>4. QED
        BY <2>2, <4>1, <4>2, <4>3
           DEF ServerStep, CheckExpiry, CheckRevoked, FileChanges, TimePasses,
               serverVars
    <3>6. ASSUME NEW id \in standing', up', reload' = "idle"
          PROVE  IsRevoked(snapshot', id)
      <4>1. CASE StartServer
        <5>1. /\ register' = register /\ clock' = clock
              /\ snapshot' = ReadEntries
          BY <4>1 DEF StartServer, rvars
        <5>2. id \in Identity /\ Denies(register, id, clock)
          BY <2>2, <5>1 DEF Uphold
        <5>3. QED
          BY <5>1, <5>2, <3>2
      <4>2. CASE ReloadSwap
        <5>1. ~Reads
          BY <4>2, <3>6 DEF ReloadSwap, Reads, WTypeOK
        <5>2. id \in standing
          BY <2>2, <5>1 DEF Uphold
        <5>3. QED
          BY <4>2, <5>2 DEF ReloadSwap, UpheldInv
      <4>3. ASSUME UNCHANGED <<up, reload>>
            PROVE  IsRevoked(snapshot', id)
        <5>1. up /\ reload = "idle" /\ ~Reads
          BY <4>3, <3>6 DEF Reads
        <5>2. id \in standing
          BY <2>2, <5>1 DEF Uphold
        <5>3. id \in upheld
          BY <5>1, <5>2 DEF UpheldInv
        <5>4. QED
          BY <5>3, <3>4, <3>6
      <4>4. ~StopServer /\ ~ReloadRead
        BY <3>6 DEF StopServer, ReloadRead
      <4>5. QED
        BY <2>2, <4>1, <4>2, <4>3, <4>4
           DEF ServerStep, CheckExpiry, CheckRevoked, FileChanges, TimePasses,
               serverVars
    <3>7. UpheldIsEnforced'
      <4> SUFFICES ASSUME NEW id \in upheld', up'
                   PROVE  IsRevoked(snapshot', id)
        BY DEF UpheldIsEnforced
      <4>1. \/ id \in upheld
            \/ reload' = "idle" /\ id \in standing'
            \/ IsRevoked(snapshot', id)
        BY <2>2 DEF Uphold
      <4>2. QED
        BY <4>1, <3>4, <3>6
    <3>8. ASSUME reload' = "read", NEW id \in upheld'
          PROVE  id \in standing'
      <4>1. CASE id \in standing'
        BY <4>1
      <4>2. CASE id \in upheld
        <5>1. Reads \/ reload = "read"
          BY <3>8 DEF Reads, WTypeOK
        <5>2. Reads \/ id \in standing
          BY <5>1, <4>2 DEF UpheldInv
        <5>3. QED
          BY <2>2, <5>2 DEF Uphold
      <4>3. QED
        BY <2>2, <3>8, <4>1, <4>2 DEF Uphold
    <3>9. ASSUME up', reload' = "idle", NEW id \in standing'
          PROVE  id \in upheld'
      BY <2>2, <3>9 DEF Uphold
    <3>10. (\A id \in upheld \cup standing : Denies(register, id, clock))'
      BY <3>1
    <3>11. (reload = "read" => /\ upheld \subseteq standing
                              /\ \A id \in standing : IsRevoked(loaded, id))'
      BY <3>5, <3>8
    <3>12. (up /\ reload = "idle" => standing \subseteq upheld)'
      BY <3>9
    <3>13. QED
      BY <3>7, <3>10, <3>11, <3>12 DEF UpheldInv
  <2>3. QED
    BY <2>1, <2>2 DEF WNext
<1>3. UpheldInv => UpheldIsEnforced
  BY DEF UpheldInv
<1>4. QED
  BY <1>1, <1>2, <1>3, WTypeCorrect, PTL DEF WSpec

\* Hence no request, however long its validation is under way, is accepted for
\* an identity whose revocation is in effect (Uphold) when the Revoker is asked.
THEOREM RevokedIsNotAccepted == WSpec => UpheldNeverAccepted
<1>1. /\ WTypeOK /\ UpheldIsEnforced /\ [WNext]_wvars
      => [\A r \in Request :
            req[r].stage = "checked" /\ req'[r].stage = "accepted" =>
               req[r].id \notin upheld]_wvars
  <2> SUFFICES ASSUME WTypeOK, UpheldIsEnforced, WNext,
                      NEW r \in Request,
                      req[r].stage = "checked", req'[r].stage = "accepted",
                      req[r].id \in upheld
               PROVE  FALSE
    BY DEF wvars, serverVars
  <2>1. PICK q \in Request : CheckRevoked(q)
    <3>1. CASE UNCHANGED req
      BY <3>1
    <3>2. CASE StopServer
      BY <3>2 DEF StopServer, NoRequest
    <3>3. ASSUME NEW q \in Request, CheckExpiry(q) PROVE FALSE
      BY <3>3 DEF CheckExpiry, WTypeOK
    <3>4. CASE FileChanges
      <4>1. req'[r].stage = req[r].stage
        BY <3>4 DEF FileChanges, WTypeOK, Validation, NoRequest
      <4>2. QED
        BY <4>1
    <3>5. QED
      BY <3>1, <3>2, <3>3, <3>4
         DEF WNext, ServerStep, StartServer, ReloadRead, ReloadSwap,
             TimePasses, serverVars
  <2>2. q = r
    BY <2>1 DEF CheckRevoked, WTypeOK
  <2>3. ~IsRevoked(snapshot, req[r].id)
    BY <2>1, <2>2 DEF CheckRevoked, WTypeOK
  <2>4. up
    BY DEF WTypeOK, NoRequest
  <2>5. QED
    BY <2>3, <2>4 DEF UpheldIsEnforced
<1>2. QED
  BY <1>1, WTypeCorrect, RevocationStaysInEffect, PTL
     DEF WSpec, UpheldNeverAccepted

=============================================================================
