----------------------- MODULE RevocationEntries_proofs -----------------------
(* What the operations on a revocation list return and preserve. *)
EXTENDS RevocationEntries, TLAPS

\* The blanket key of an identity is a key.
LEMMA BareIsIdentity ==
  ASSUME NEW id \in Identity
  PROVE  /\ Bare(id) \in Identity
         /\ Bare(Bare(id)) = Bare(id)
  BY DEF Identity, Bare

\* Every operation returns a list.
LEMMA EntriesClosed ==
  ASSUME NEW e \in Entries, NEW id \in Identity, NEW x \in Nat, NEW now \in Int
  PROVE  /\ NoEntries \in Entries
         /\ Pruned(e, now) \in Entries
         /\ Revoked(e, id, x) \in Entries
         /\ Unrevoked(e, id) \in Entries
<1>1. NoEntries \in Entries
  BY DEF NoEntries, Entries, Absent
<1>2. Pruned(e, now) \in Entries
  BY DEF Pruned, Entries, Absent
<1>3. Revoked(e, id, x) \in Entries
  BY DEF Revoked, Entries, Absent
<1>4. Unrevoked(e, id) \in Entries
  BY DEF Unrevoked, Entries, Absent
<1>5. QED
  BY <1>1, <1>2, <1>3, <1>4

\* What readEntries returns revokes every identity that the file denies.
LEMMA PrunedKeepsDenied ==
  ASSUME NEW e \in Entries, NEW id \in Identity, NEW now \in Nat,
         Denies(e, id, now)
  PROVE  IsRevoked(Pruned(e, now), id)
<1>1. PICK k \in {id, Bare(id)} : e[k] = Permanent \/ e[k] >= now
  BY DEF Denies
<1>2. k \in Identity
  BY BareIsIdentity
<1>3. e[k] \in Nat \cup {Absent}
  BY <1>2 DEF Entries
<1>4. Pruned(e, now)[k] = e[k] /\ e[k] # Absent
  BY <1>1, <1>2, <1>3 DEF Pruned, Permanent, Absent
<1>5. QED
  BY <1>1, <1>4 DEF IsRevoked

\* An issued token's identity is not revoked, whatever was on the list.
LEMMA UnrevokedClears ==
  ASSUME NEW e \in Entries, NEW id \in Identity
  PROVE  ~IsRevoked(Unrevoked(e, id), id)
  BY BareIsIdentity DEF Unrevoked, IsRevoked

=============================================================================
