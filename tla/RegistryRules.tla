--------------------------- MODULE RegistryRules ---------------------------
(***************************************************************************)
(* The rules of the registry as pure operators: the record schema          *)
(* (record.ts), the name lifecycle (lifecycle.ts), the difficulty of the   *)
(* proof of work (pow.ts), record verification (verify.ts) and the         *)
(* decision between two conflicting registrations (converge.ts, and the    *)
(* merge path of store.ts).                                                *)
(*                                                                         *)
(* A record is what its bytes mean to the verifier.  Its digest is a       *)
(* positive number (record_hash as a big-endian integer), and a signature  *)
(* is the key that made it: "sig verifies under k" is sig = k.  Names      *)
(* stand for label.tld, entries for whether there are any.                 *)
(*                                                                         *)
(* A store is given by its log, a sequence of records, and its index, a    *)
(* function from the names it holds to NameEntry (a Map in store.ts).      *)
(***************************************************************************)
EXTENDS Integers, Sequences, FiniteSets

CONSTANTS
  Names,                  \* label.tld pairs
  Keys,                   \* Ed25519 keys
  ActiveSuites,           \* suites.ts: suites a record may use
  TldOf,                  \* the TLD of a name
  BaseBits,               \* baseBits(label.length) of a name
  MAX_SEQ,                \* record.ts
  TERM_SECONDS, RENEWAL_WINDOW_SECONDS, MIN_INTERVAL_SECONDS,
  MAX_CLOCK_SKEW_SECONDS, MAX_BACKDATE_SECONDS, SETTLEMENT_SECONDS, \* verify.ts
  GRACE_SECONDS, QUARANTINE_SECONDS,                               \* lifecycle.ts
  EPOCH_SECONDS, RATE_WINDOW_SECONDS, RATE_FLOOR, MAX_DIFFICULTY_BITS \* pow.ts

\* The durations of verify.ts and lifecycle.ts are whole seconds, none negative.
ASSUME DurationsAssumption ==
  /\ TERM_SECONDS \in Nat
  /\ RENEWAL_WINDOW_SECONDS \in Nat
  /\ MIN_INTERVAL_SECONDS \in Nat
  /\ MAX_CLOCK_SKEW_SECONDS \in Nat
  /\ MAX_BACKDATE_SECONDS \in Nat
  /\ SETTLEMENT_SECONDS \in Nat
  /\ GRACE_SECONDS \in Nat
  /\ QUARANTINE_SECONDS \in Nat

\* The parameters of the difficulty rule.
ASSUME DifficultyAssumption ==
  /\ EPOCH_SECONDS \in Nat \ {0}
  /\ RATE_WINDOW_SECONDS \in Nat
  /\ RATE_FLOOR \in Nat \ {0}
  /\ MAX_DIFFICULTY_BITS \in Nat
  /\ BaseBits \in [Names -> Nat]
  /\ ActiveSuites \subseteq Nat
  /\ MAX_SEQ \in Nat

NoKey == "no key"         \* an absent countersignature
ZeroHash == 0             \* the all-zero prevHash of a first registration
NoPow == 0                \* powProof null

ASSUME NoKeyAssumption == NoKey \notin Keys

Operations == {"REGISTER", "UPDATE", "RENEW", "TRANSFER", "RELINQUISH", "REVOKE"}

Record ==
  [hash : Nat \ {0}, suite : Nat, op : Operations, name : Names, ownerKey : Keys,
   seq : Nat, notBefore : Nat, notAfter : Nat, hasEntries : BOOLEAN, pow : Nat,
   prevHash : Nat, sig : Keys, coSig : Keys \cup {NoKey}]

-----------------------------------------------------------------------------
(***************************************************************************)
(* record.ts: what parseRecord decides from the record alone.              *)
(***************************************************************************)
NeedsPow(op) == op \in {"REGISTER", "RENEW"}

parseRecord(r) ==
  IF r.suite \notin ActiveSuites                       THEN "UNKNOWN_SUITE"
  ELSE IF r.seq > MAX_SEQ                              THEN "BAD_SEQ"
  ELSE IF r.notAfter < r.notBefore                     THEN "BAD_TERM"
  ELSE IF NeedsPow(r.op) /\ r.pow = NoPow              THEN "MISSING_POW"
  ELSE IF ~NeedsPow(r.op) /\ r.pow # NoPow             THEN "UNEXPECTED_POW"
  ELSE IF (r.op = "TRANSFER") # (r.coSig # NoKey)      THEN "BAD_COSIG"
  ELSE "parsed"

-----------------------------------------------------------------------------
(***************************************************************************)
(* lifecycle.ts                                                            *)
(***************************************************************************)
\* Mutant: RELINQUISH gets the grace period of any other record.
lifecycleRelinquishedHasGrace(r) ==
  IF r.op = "REVOKE"
  THEN [liveFrom |-> r.notBefore, liveUntil |-> r.notBefore, graceUntil |-> r.notAfter,
        quarantineUntil |-> r.notAfter + QUARANTINE_SECONDS, revoked |-> TRUE]
  ELSE [liveFrom |-> r.notBefore, liveUntil |-> r.notAfter,
        graceUntil |-> r.notAfter + GRACE_SECONDS,
        quarantineUntil |-> r.notAfter + GRACE_SECONDS + QUARANTINE_SECONDS,
        revoked |-> FALSE]

lifecycleOf(r) ==
  IF r.op = "RELINQUISH"
  THEN [liveFrom |-> r.notBefore, liveUntil |-> r.notAfter, graceUntil |-> r.notAfter,
        quarantineUntil |-> r.notAfter + QUARANTINE_SECONDS, revoked |-> FALSE]
  ELSE IF r.op = "REVOKE"
  THEN [liveFrom |-> r.notBefore, liveUntil |-> r.notBefore, graceUntil |-> r.notAfter,
        quarantineUntil |-> r.notAfter + QUARANTINE_SECONDS, revoked |-> TRUE]
  ELSE [liveFrom |-> r.notBefore, liveUntil |-> r.notAfter,
        graceUntil |-> r.notAfter + GRACE_SECONDS,
        quarantineUntil |-> r.notAfter + GRACE_SECONDS + QUARANTINE_SECONDS,
        revoked |-> FALSE]

stateAt(r, now) ==
  LET life == lifecycleOf(r) IN
  IF now < life.liveFrom             THEN "PENDING"
  ELSE IF now < life.liveUntil       THEN "LIVE"
  ELSE IF now < life.graceUntil      THEN "GRACE"
  ELSE IF now < life.quarantineUntil THEN "QUARANTINE"
  ELSE "FREE"

isFullyReleased(r, now) == now >= lifecycleOf(r).quarantineUntil

acceptsSuccessor(prev, now, op) ==
  LET life == lifecycleOf(prev) IN
  /\ ~life.revoked
  /\ now >= life.liveFrom
  /\ now < IF op = "RENEW" THEN life.graceUntil ELSE life.liveUntil

-----------------------------------------------------------------------------
(***************************************************************************)
(* pow.ts and the difficulty a log requires (store.ts).  A record's pow is *)
(* the number of bits it really proves; a claim its tag does not meet      *)
(* proves none.                                                            *)
(***************************************************************************)
requiredBits(base, count) ==
  LET rate == Cardinality({k \in 1..8 : RATE_FLOOR * 2^k <= count})
      bits == base + rate
  IN  IF bits < MAX_DIFFICULTY_BITS THEN bits ELSE MAX_DIFFICULTY_BITS

registrationsInWindow(log, tld, at) ==
  LET end == (at \div EPOCH_SECONDS) * EPOCH_SECONDS
  IN  Cardinality({i \in DOMAIN log :
        /\ NeedsPow(log[i].op)
        /\ TldOf[log[i].name] = tld
        /\ log[i].notBefore >= end - RATE_WINDOW_SECONDS
        /\ log[i].notBefore < end})

requiredBitsFor(log, r) ==
  LET Bits(at) == requiredBits(BaseBits[r.name],
                               registrationsInWindow(log, TldOf[r.name], at))
      this == Bits(r.notBefore)
      previous == Bits(r.notBefore - EPOCH_SECONDS)
  IN  IF this < previous THEN this ELSE previous

powVerified(log, r) == r.pow >= requiredBitsFor(log, r)

-----------------------------------------------------------------------------
(***************************************************************************)
(* The index of a store.  An entry keeps the current record of the name,   *)
(* the key that signed it, whether the name was revoked, and the digest of *)
(* the REGISTER its chain descends from.                                   *)
(***************************************************************************)
NameEntry ==
  [record : Record, signerKey : Keys, revoked : BOOLEAN, rootHash : Nat \ {0}]

EmptyIndex == [n \in {} |-> {}]

\* An index maps names to entries about those names.
IndexOK(names) ==
  /\ DOMAIN names \subseteq Names
  /\ \A n \in DOMAIN names : names[n] \in NameEntry /\ names[n].record.name = n

\* verify.ts: the key a successor dated `at` must be signed by.
controllingKey(held, at) ==
  IF /\ held.record.op = "TRANSFER"
     /\ at < held.record.notBefore + SETTLEMENT_SECONDS
  THEN held.signerKey
  ELSE held.record.ownerKey

\* Mutant: the signer of a TRANSFER is taken to be the key it names.
applyRecipientSigned(names, r) ==
  LET isHeld == r.name \in DOMAIN names
      root == IF r.op # "REGISTER" /\ isHeld THEN names[r.name].rootHash ELSE r.hash
      entry == [record |-> r, signerKey |-> r.ownerKey,
                revoked |-> r.op = "REVOKE", rootHash |-> root]
  IN  [n \in DOMAIN names \cup {r.name} |-> IF n = r.name THEN entry ELSE names[n]]

\* Mutant: the root of a chain is looked up by prevHash.
applyRootByPrevHash(names, r) ==
  LET entry == [record |-> r, signerKey |-> r.ownerKey,
                revoked |-> r.op = "REVOKE", rootHash |-> r.prevHash]
  IN  [n \in DOMAIN names \cup {r.name} |-> IF n = r.name THEN entry ELSE names[n]]

\* store.ts, apply: the index after a record is appended.
apply(names, r) ==
  LET isHeld == r.name \in DOMAIN names
      signer == IF r.op = "TRANSFER" /\ isHeld
                THEN controllingKey(names[r.name], r.notBefore)
                ELSE r.ownerKey
      revoked == /\ r.op # "REGISTER"
                 /\ r.op = "REVOKE" \/ (isHeld /\ names[r.name].revoked)
      root == IF r.op # "REGISTER" /\ isHeld THEN names[r.name].rootHash ELSE r.hash
      entry == [record |-> r, signerKey |-> signer, revoked |-> revoked, rootHash |-> root]
  IN  [n \in DOMAIN names \cup {r.name} |-> IF n = r.name THEN entry ELSE names[n]]

-----------------------------------------------------------------------------
(***************************************************************************)
(* verify.ts.  The order of the checks is normative, so a verdict is the   *)
(* code of the first check that fails.                                     *)
(***************************************************************************)
clockVerdict(r, now) ==
  IF r.notBefore > now + MAX_CLOCK_SKEW_SECONDS    THEN "CLOCK_SKEW"
  ELSE IF r.notBefore < now - MAX_BACKDATE_SECONDS THEN "BACKDATED"
  ELSE "timely"

\* Mutant: only a LIVE name is taken.
verifyRegisterInGrace(log, names, r, now, ignoreIncumbent) ==
  IF r.seq # 0 \/ r.prevHash # ZeroHash                        THEN "BAD_CHAIN"
  ELSE IF /\ r.name \in DOMAIN names
          /\ stateAt(names[r.name].record, now) = "LIVE"
          /\ ~ignoreIncumbent                                  THEN "NAME_TAKEN"
  ELSE IF r.notAfter - r.notBefore # TERM_SECONDS              THEN "BAD_TERM"
  ELSE IF r.sig # r.ownerKey                                   THEN "BAD_SIG"
  ELSE IF ~powVerified(log, r)                                 THEN "BAD_POW"
  ELSE IF clockVerdict(r, now) # "timely"                      THEN clockVerdict(r, now)
  ELSE "accept"

\* Mutant: the signature of a registration is not checked.
verifyRegisterUnsigned(log, names, r, now, ignoreIncumbent) ==
  IF r.seq # 0 \/ r.prevHash # ZeroHash                        THEN "BAD_CHAIN"
  ELSE IF /\ r.name \in DOMAIN names
          /\ ~isFullyReleased(names[r.name].record, now)
          /\ ~ignoreIncumbent                                  THEN "NAME_TAKEN"
  ELSE IF r.notAfter - r.notBefore # TERM_SECONDS              THEN "BAD_TERM"
  ELSE IF ~powVerified(log, r)                                 THEN "BAD_POW"
  ELSE IF clockVerdict(r, now) # "timely"                      THEN clockVerdict(r, now)
  ELSE "accept"

verifyRegister(log, names, r, now, ignoreIncumbent) ==
  IF r.seq # 0 \/ r.prevHash # ZeroHash                        THEN "BAD_CHAIN"
  ELSE IF /\ r.name \in DOMAIN names
          /\ ~isFullyReleased(names[r.name].record, now)
          /\ ~ignoreIncumbent                                  THEN "NAME_TAKEN"
  ELSE IF r.notAfter - r.notBefore # TERM_SECONDS              THEN "BAD_TERM"
  ELSE IF r.sig # r.ownerKey                                   THEN "BAD_SIG"
  ELSE IF ~powVerified(log, r)                                 THEN "BAD_POW"
  ELSE IF clockVerdict(r, now) # "timely"                      THEN clockVerdict(r, now)
  ELSE "accept"

\* Mutant: a RENEW is accepted at any time.
verifyOperationRenewAnyTime(log, prev, r) ==
  LET base == IF prev.notAfter > r.notBefore THEN prev.notAfter ELSE r.notBefore IN
  IF r.op = "RENEW" /\ r.notAfter # base + TERM_SECONDS THEN "BAD_TERM" ELSE "accept"

verifyOperation(log, prev, r) ==
  CASE r.op = "UPDATE" ->
         IF r.notAfter # prev.notAfter THEN "BAD_TERM" ELSE "accept"
    [] r.op = "RENEW" ->
         LET base == IF prev.notAfter > r.notBefore THEN prev.notAfter ELSE r.notBefore IN
         IF r.notBefore < prev.notAfter - RENEWAL_WINDOW_SECONDS  THEN "TOO_SOON"
         ELSE IF r.notAfter # base + TERM_SECONDS                 THEN "BAD_TERM"
         ELSE IF ~powVerified(log, r)                             THEN "BAD_POW"
         ELSE "accept"
    [] r.op = "TRANSFER" ->
         IF r.ownerKey = prev.ownerKey                            THEN "BAD_OWNER"
         ELSE IF r.notAfter # prev.notAfter                       THEN "BAD_TERM"
         ELSE IF r.notAfter - r.notBefore < SETTLEMENT_SECONDS    THEN "UNSETTLED"
         ELSE IF r.coSig # r.ownerKey                             THEN "BAD_COSIG"
         ELSE "accept"
    [] r.op = "RELINQUISH" ->
         IF r.hasEntries                                          THEN "BAD_RECORD_ENTRY"
         ELSE IF r.notAfter # r.notBefore                         THEN "BAD_TERM"
         ELSE "accept"
    [] r.op = "REVOKE" ->
         IF r.hasEntries                                          THEN "BAD_RECORD_ENTRY"
         ELSE IF r.notAfter # prev.notAfter                       THEN "BAD_TERM"
         ELSE "accept"
    [] OTHER -> "UNKNOWN_OP"

\* Mutant: a settling TRANSFER bars a further TRANSFER as well.
UnsettledForAll(prev, r) ==
  /\ prev.op = "TRANSFER"
  /\ r.notBefore < prev.notBefore + SETTLEMENT_SECONDS

\* While a TRANSFER settles, nothing but a further TRANSFER is accepted.
Unsettled(prev, r) ==
  /\ prev.op = "TRANSFER"
  /\ r.notBefore < prev.notBefore + SETTLEMENT_SECONDS
  /\ r.op # "TRANSFER"

verifySuccessor(log, held, r, now) ==
  LET prev == held.record IN
  IF r.seq # prev.seq + 1                                      THEN "BAD_SEQ"
  ELSE IF r.prevHash # prev.hash                               THEN "BAD_CHAIN"
  ELSE IF r.notBefore < prev.notBefore + MIN_INTERVAL_SECONDS  THEN "TOO_SOON"
  ELSE IF r.suite < prev.suite                                 THEN "SUITE_DOWNGRADE"
  ELSE IF held.revoked                                         THEN "REVOKED"
  ELSE IF ~acceptsSuccessor(prev, now, r.op)                   THEN "EXPIRED"
  ELSE IF Unsettled(prev, r)                                   THEN "UNSETTLED"
  ELSE IF r.sig # controllingKey(held, r.notBefore)            THEN "BAD_SIG"
  ELSE IF clockVerdict(r, now) # "timely"                      THEN clockVerdict(r, now)
  ELSE IF r.op # "TRANSFER" /\ r.ownerKey # prev.ownerKey      THEN "BAD_OWNER"
  ELSE verifyOperation(log, prev, r)

verify(log, names, r, now, ignoreIncumbent) ==
  IF parseRecord(r) # "parsed"           THEN parseRecord(r)
  ELSE IF r.op = "REGISTER"              THEN verifyRegister(log, names, r, now, ignoreIncumbent)
  ELSE IF r.name \notin DOMAIN names     THEN "NO_PREDECESSOR"
  ELSE verifySuccessor(log, names[r.name], r, now)

-----------------------------------------------------------------------------
(***************************************************************************)
(* Convergence.  rootEntryFor scans the log from its start, and            *)
(* mergeConflict decides a registration of a name that is held.            *)
(***************************************************************************)
IsRootFor(log, n, i) == /\ log[i].name = n
                        /\ log[i].op = "REGISTER"
                        /\ log[i].seq = 0

rootEntryFor(log, n) ==
  log[CHOOSE i \in DOMAIN log :
        /\ IsRootFor(log, n, i)
        /\ \A j \in DOMAIN log : IsRootFor(log, n, j) => i <= j]

\* Mutant: the registration that is held wins.
resolveForIncumbent(a, b) == b

\* converge.ts: two valid candidates, the smaller record hash wins.
resolveConflict(a, b) == IF a.hash < b.hash THEN a ELSE b

mergeConflict(log, names, r, now) ==
  LET root == rootEntryFor(log, r.name)
      onMerits == verify(log, names, r, now, TRUE)
  IN
  IF r.notBefore - root.notBefore > MAX_BACKDATE_SECONDS  THEN "NAME_TAKEN"
  ELSE IF r.ownerKey = root.ownerKey                      THEN "NAME_TAKEN"
  ELSE IF r.hash >= names[r.name].rootHash                THEN "NAME_TAKEN"
  ELSE IF onMerits # "accept"                             THEN onMerits
  ELSE IF resolveConflict(r, root) # r                    THEN "NAME_TAKEN"
  ELSE "merge"

Has(log, r) == \E i \in DOMAIN log : log[i].hash = r.hash

\* store.ts, append: the verdict on an arriving record.
appendVerdict(log, names, r, now) ==
  LET verdict == verify(log, names, r, now, FALSE) IN
  IF Has(log, r)                   THEN "duplicate"
  ELSE IF verdict = "NAME_TAKEN"   THEN mergeConflict(log, names, r, now)
  ELSE verdict

Accepted(verdict) == verdict \in {"accept", "merge"}

-----------------------------------------------------------------------------
(***************************************************************************)
(* What a lawful chain is, told from its records alone and not from any    *)
(* index: the terms in which the store's properties are stated.            *)
(***************************************************************************)
\* The key entitled to extend a record, told from the record alone: until a
\* TRANSFER settles it is the key that signed the TRANSFER.
RightfulKey(prev, at) ==
  IF prev.op = "TRANSFER" /\ at < prev.notBefore + SETTLEMENT_SECONDS
  THEN prev.sig
  ELSE prev.ownerKey

\* r is a lawful next link of a chain that ends in prev.
Succeeds(prev, r) ==
  /\ r.name = prev.name
  /\ r.prevHash = prev.hash
  /\ r.seq = prev.seq + 1
  /\ r.notBefore >= prev.notBefore + MIN_INTERVAL_SECONDS
  /\ r.sig = RightfulKey(prev, r.notBefore)
  /\ r.ownerKey # prev.ownerKey => r.op = "TRANSFER" /\ r.coSig = r.ownerKey
=============================================================================
