---------------------------- MODULE RulesProofs ----------------------------
(***************************************************************************)
(* Lemmas about the operators of RegistryRules: what apply does to an      *)
(* index, and what an accepting verdict says of a record.  The proofs of   *)
(* the store and of the replicas rest on them.                             *)
(***************************************************************************)
EXTENDS RegistryRules, TLAPS

-----------------------------------------------------------------------------
(***************************************************************************)
(* The index after apply.                                                  *)
(***************************************************************************)

\* The controlling key of an entry is a key.
LEMMA ControllingKeyType ==
  ASSUME NEW held \in NameEntry, NEW at
  PROVE  controllingKey(held, at) \in Keys
BY DEF controllingKey, NameEntry, Record

\* apply (store.ts) changes the entry of the record's name and no other.
LEMMA ApplyAt ==
  ASSUME NEW names, NEW r \in Record
  PROVE  /\ DOMAIN apply(names, r) = DOMAIN names \cup {r.name}
         /\ apply(names, r)[r.name].record = r
         /\ \A n \in DOMAIN names : n # r.name => apply(names, r)[n] = names[n]
BY DEF apply

\* apply keeps the index well formed.
LEMMA ApplyType ==
  ASSUME NEW names, IndexOK(names), NEW r \in Record
  PROVE  IndexOK(apply(names, r))
<1> DEFINE new == apply(names, r)
<1>a. /\ DOMAIN new = DOMAIN names \cup {r.name}
      /\ new[r.name].record = r
      /\ \A n \in DOMAIN names : n # r.name => new[n] = names[n]
  BY ApplyAt
<1>b. r.name \in Names
  BY DEF Record
<1>1. DOMAIN new \subseteq Names
  <2> HIDE DEF new
  <2> QED BY <1>a, <1>b DEF IndexOK
<1>2. new[r.name] \in NameEntry
  <2>1. CASE r.name \in DOMAIN names
    <3>1. names[r.name] \in NameEntry
      BY <2>1 DEF IndexOK
    <3>2. controllingKey(names[r.name], r.notBefore) \in Keys
      BY <3>1, ControllingKeyType
    <3> QED BY <2>1, <3>1, <3>2 DEF apply, NameEntry, Record
  <2>2. CASE r.name \notin DOMAIN names
    BY <2>2 DEF apply, NameEntry, Record
  <2> QED BY <2>1, <2>2
<1>3. \A n \in DOMAIN new : new[n] \in NameEntry /\ new[n].record.name = n
  <2> HIDE DEF new
  <2> QED BY <1>2, <1>a DEF IndexOK
<1> QED BY <1>1, <1>3 DEF IndexOK

\* The index of a store that read nothing is well formed.
LEMMA EmptyIndexOK == IndexOK(EmptyIndex)
BY DEF IndexOK, EmptyIndex

-----------------------------------------------------------------------------
(***************************************************************************)
(* What an accepting verdict says of a record.                             *)
(***************************************************************************)

\* What verify has established of a successor it accepts at time `at`.
SuccessorFacts(held, r, at) ==
  LET prev == held.record IN
  /\ r.prevHash = prev.hash
  /\ r.seq = prev.seq + 1
  /\ r.notBefore >= prev.notBefore + MIN_INTERVAL_SECONDS
  /\ r.notBefore <= at + MAX_CLOCK_SKEW_SECONDS
  /\ acceptsSuccessor(prev, at, r.op)
  /\ ~Unsettled(prev, r)
  /\ r.sig = controllingKey(held, r.notBefore)
  /\ r.ownerKey # prev.ownerKey => r.op = "TRANSFER" /\ r.coSig = r.ownerKey
  /\ r.op = "RELINQUISH" => r.notAfter = r.notBefore
  /\ \/ r.notAfter = prev.notAfter
     \/ r.notAfter <= r.notBefore + RENEWAL_WINDOW_SECONDS + TERM_SECONDS

\* What verify has established of a REGISTER it accepts at time `at`.
RegisterFacts(r, at) ==
  /\ r.sig = r.ownerKey
  /\ r.notAfter = r.notBefore + TERM_SECONDS
  /\ r.notBefore <= at + MAX_CLOCK_SKEW_SECONDS

\* verifyOperation fixes the term and, for a TRANSFER, the countersignature.
LEMMA OperationAccepted ==
  ASSUME NEW log, NEW prev \in Record, NEW r \in Record,
         verifyOperation(log, prev, r) = "accept"
  PROVE  /\ r.op = "TRANSFER" => r.coSig = r.ownerKey
         /\ r.op = "RELINQUISH" => r.notAfter = r.notBefore
         /\ \/ r.notAfter = prev.notAfter
            \/ r.notAfter <= r.notBefore + RENEWAL_WINDOW_SECONDS + TERM_SECONDS
<1> USE DurationsAssumption
<1> USE DEF verifyOperation
<1>0. /\ prev.notAfter \in Nat /\ r.notAfter \in Nat /\ r.notBefore \in Nat
      /\ r.op \in Operations
  BY DEF Record
<1>1. CASE r.op = "UPDATE"
  BY <1>1
<1>2. CASE r.op = "RENEW"
  BY <1>0, <1>2
<1>3. CASE r.op = "TRANSFER"
  BY <1>3
<1>4. CASE r.op = "RELINQUISH"
  BY <1>0, <1>4
<1>5. CASE r.op = "REVOKE"
  BY <1>5
<1>6. CASE r.op = "REGISTER"
  BY <1>6
<1> QED BY <1>0, <1>1, <1>2, <1>3, <1>4, <1>5, <1>6 DEF Operations

\* A successor is accepted only onto the entry of its name.
LEMMA SuccessorAccepted ==
  ASSUME NEW log, NEW names, IndexOK(names), NEW r \in Record, NEW at \in Nat,
         NEW ignore, r.op # "REGISTER",
         verify(log, names, r, at, ignore) = "accept"
  PROVE  r.name \in DOMAIN names /\ SuccessorFacts(names[r.name], r, at)
<1>1. r.name \in DOMAIN names /\ verifySuccessor(log, names[r.name], r, at) = "accept"
  BY DEF verify, parseRecord
<1> DEFINE held == names[r.name]
<1>2. held \in NameEntry /\ held.record \in Record
  BY <1>1 DEF IndexOK, NameEntry
<1> HIDE DEF held
<1>3. verifySuccessor(log, held, r, at) = "accept"
  BY <1>1 DEF held
<1>4. clockVerdict(r, at) = "timely"
  BY <1>3 DEF verifySuccessor, clockVerdict
<1>5. verifyOperation(log, held.record, r) = "accept"
  BY <1>3, <1>4 DEF verifySuccessor
<1>6. /\ r.prevHash = held.record.hash
      /\ r.seq = held.record.seq + 1
      /\ ~(r.notBefore < held.record.notBefore + MIN_INTERVAL_SECONDS)
      /\ acceptsSuccessor(held.record, at, r.op)
      /\ ~Unsettled(held.record, r)
      /\ r.sig = controllingKey(held, r.notBefore)
      /\ r.op # "TRANSFER" => r.ownerKey = held.record.ownerKey
  BY <1>3, <1>4 DEF verifySuccessor
<1>7. /\ r.notBefore >= held.record.notBefore + MIN_INTERVAL_SECONDS
      /\ r.notBefore <= at + MAX_CLOCK_SKEW_SECONDS
  BY <1>2, <1>4, <1>6, DurationsAssumption DEF clockVerdict, Record
<1>8. SuccessorFacts(held, r, at)
  BY <1>2, <1>5, <1>6, <1>7, OperationAccepted DEF SuccessorFacts
<1> QED BY <1>1, <1>8 DEF held

\* A REGISTER is signed by its owner, for one term, and not ahead of the clock.
LEMMA RegisterAccepted ==
  ASSUME NEW log, NEW names, NEW r \in Record, NEW at \in Nat, NEW ignore,
         r.op = "REGISTER", verify(log, names, r, at, ignore) = "accept"
  PROVE  RegisterFacts(r, at)
<1>1. verifyRegister(log, names, r, at, ignore) = "accept"
  BY DEF verify, parseRecord
<1>2. /\ r.notAfter - r.notBefore = TERM_SECONDS
      /\ r.sig = r.ownerKey
      /\ clockVerdict(r, at) = "timely"
  BY <1>1 DEF verifyRegister, clockVerdict
<1> QED BY <1>2, DurationsAssumption DEF RegisterFacts, clockVerdict, Record

\* Only a REGISTER is told NAME_TAKEN, so only a REGISTER reaches the merge path.
LEMMA TakenIsRegister ==
  ASSUME NEW log, NEW names, NEW r \in Record, NEW at \in Nat, NEW ignore,
         verify(log, names, r, at, ignore) = "NAME_TAKEN"
  PROVE  r.op = "REGISTER"
<1> SUFFICES ASSUME r.op # "REGISTER" PROVE FALSE
  OBVIOUS
<1>1. verifySuccessor(log, names[r.name], r, at) = "NAME_TAKEN"
  BY DEF verify, parseRecord
<1>2. clockVerdict(r, at) # "NAME_TAKEN"
  BY DEF clockVerdict
<1>3. verifyOperation(log, names[r.name].record, r) = "NAME_TAKEN"
  BY <1>1, <1>2 DEF verifySuccessor
<1>4. r.op \in {"UPDATE", "RENEW", "TRANSFER", "RELINQUISH", "REVOKE"}
  BY DEF Record, Operations
<1> QED BY <1>3, <1>4 DEF verifyOperation

\* A merge is a decision of append, never of verify.
LEMMA VerifyNeverMerges ==
  ASSUME NEW log, NEW names, NEW r, NEW at, NEW ignore
  PROVE  verify(log, names, r, at, ignore) # "merge"
BY DEF verify, parseRecord, verifyRegister, verifySuccessor, verifyOperation, clockVerdict

\* append accepts a lawful successor, a REGISTER of a name that is free or fully
\* released, or one whose digest is smaller than that of the chain held.
LEMMA AppendAccepted ==
  ASSUME NEW log, NEW names, IndexOK(names), NEW r \in Record, NEW at \in Nat,
         Accepted(appendVerdict(log, names, r, at))
  PROVE  \/ /\ r.op # "REGISTER"
            /\ r.name \in DOMAIN names
            /\ SuccessorFacts(names[r.name], r, at)
         \/ /\ r.op = "REGISTER"
            /\ RegisterFacts(r, at)
            /\ \/ r.name \notin DOMAIN names
               \/ isFullyReleased(names[r.name].record, at)
               \/ r.hash < names[r.name].rootHash
<1> DEFINE verdict == verify(log, names, r, at, FALSE)
<1> HIDE DEF verdict
<1>1. CASE verdict = "NAME_TAKEN"
  <2>1. r.op = "REGISTER"
    BY <1>1, TakenIsRegister DEF verdict
  <2>2. Accepted(mergeConflict(log, names, r, at))
    BY <1>1 DEF appendVerdict, Accepted, verdict
  <2>3. verify(log, names, r, at, TRUE) = "accept"
    BY <2>2, VerifyNeverMerges DEF mergeConflict, Accepted
  <2>4. ~(r.hash >= names[r.name].rootHash)
    BY <2>2 DEF mergeConflict, Accepted
  <2>5. r.name \in DOMAIN names
    BY <1>1, <2>1 DEF verdict, verify, parseRecord, verifyRegister, clockVerdict
  <2>6. r.hash \in Nat /\ names[r.name].rootHash \in Nat
    BY <2>5 DEF IndexOK, NameEntry, Record
  <2>7. RegisterFacts(r, at)
    BY <2>1, <2>3, RegisterAccepted
  <2>8. r.hash < names[r.name].rootHash
    BY <2>4, <2>6
  <2> QED BY <2>1, <2>7, <2>8
<1>2. CASE verdict # "NAME_TAKEN"
  <2>1. verdict = "accept"
    <3>1. appendVerdict(log, names, r, at) \in {"duplicate", verdict}
      BY <1>2 DEF appendVerdict, verdict
    <3>2. verdict # "merge"
      BY VerifyNeverMerges DEF verdict
    <3> QED BY <3>1, <3>2 DEF Accepted
  <2>2. CASE r.op = "REGISTER"
    <3>1. RegisterFacts(r, at)
      BY <2>1, <2>2, RegisterAccepted DEF verdict
    <3>2. r.name \notin DOMAIN names \/ isFullyReleased(names[r.name].record, at)
      BY <2>1, <2>2 DEF verdict, verify, verifyRegister, parseRecord
    <3> QED BY <2>2, <3>1, <3>2
  <2>3. CASE r.op # "REGISTER"
    BY <2>1, <2>3, SuccessorAccepted DEF verdict
  <2> QED BY <2>2, <2>3
<1> QED BY <1>1, <1>2

\* What verify accepts parses, and does not extend a revoked name.
LEMMA VerifiedIsParsed ==
  ASSUME NEW log, NEW names, NEW r \in Record, NEW at, NEW ignore,
         verify(log, names, r, at, ignore) = "accept"
  PROVE  /\ parseRecord(r) = "parsed"
         /\ r.op # "REGISTER" => r.name \in DOMAIN names /\ ~names[r.name].revoked
<1>1. parseRecord(r) = "parsed"
  BY DEF verify, parseRecord
<1>2. ASSUME r.op # "REGISTER" PROVE r.name \in DOMAIN names /\ ~names[r.name].revoked
  <2>1. /\ r.name \in DOMAIN names
        /\ verifySuccessor(log, names[r.name], r, at) = "accept"
    BY <1>1, <1>2 DEF verify
  <2> QED BY <2>1 DEF verifySuccessor
<1> QED BY <1>1, <1>2

\* The same of append, with or without a merge.
LEMMA AppendedIsParsed ==
  ASSUME NEW log, NEW names, NEW r \in Record, NEW at \in Nat,
         Accepted(appendVerdict(log, names, r, at))
  PROVE  /\ parseRecord(r) = "parsed"
         /\ r.op # "REGISTER" => r.name \in DOMAIN names /\ ~names[r.name].revoked
<1>1. CASE verify(log, names, r, at, FALSE) = "NAME_TAKEN"
  <2>1. r.op = "REGISTER"
    BY <1>1, TakenIsRegister
  <2>2. verify(log, names, r, at, TRUE) = "accept"
    BY <1>1, VerifyNeverMerges DEF appendVerdict, mergeConflict, Accepted
  <2> QED BY <2>1, <2>2, VerifiedIsParsed
<1>2. CASE verify(log, names, r, at, FALSE) # "NAME_TAKEN"
  <2>1. verify(log, names, r, at, FALSE) = "accept"
    BY <1>2, VerifyNeverMerges DEF appendVerdict, Accepted
  <2> QED BY <2>1, VerifiedIsParsed
<1> QED BY <1>1, <1>2

\* apply marks a name revoked only for a REVOKE when the name was not revoked before.
LEMMA RevokedOfApply ==
  ASSUME NEW names, IndexOK(names), NEW r \in Record,
         r.op # "REGISTER" => r.name \in DOMAIN names /\ ~names[r.name].revoked
  PROVE  apply(names, r)[r.name].revoked => r.op = "REVOKE"
<1>1. CASE r.op = "REGISTER"
  BY <1>1 DEF apply
<1>2. CASE r.op # "REGISTER"
  BY <1>2 DEF apply
<1> QED BY <1>1, <1>2
=============================================================================
