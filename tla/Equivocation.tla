---------------------------- MODULE Equivocation ----------------------------
(***************************************************************************)
(* Equivocation: one key signing two records at one seq of one name        *)
(* (converge.ts), what makes a pair of records evidence of it              *)
(* (replicate.ts), and what the ledger does with a pair (equivocation.ts,  *)
(* noteEquivocation of store.ts).                                          *)
(*                                                                         *)
(* A ledger is the sequence of entries it holds, in the order recorded.    *)
(***************************************************************************)
EXTENDS RegistryRules

CONSTANTS
  DETECTED_BUDGET,        \* EQUIVOCATION_LIMITS.detected
  RECEIVED_BUDGET         \* EQUIVOCATION_LIMITS.received

ASSUME BudgetAssumption == DETECTED_BUDGET \in Nat /\ RECEIVED_BUDGET \in Nat

Origins == {"detected", "received"}

Evidence == [origin : Origins, a : Record, b : Record]

\* converge.ts
conflicts(a, b) == a.name = b.name /\ a.seq = b.seq /\ a.hash # b.hash

isEquivocation(a, b) == conflicts(a, b) /\ a.ownerKey = b.ownerKey

\* Mutant: naming the owner is taken for being signed by it.
namesItsOwner(r) == TRUE

\* replicate.ts: the signature that attributes a record to the owner it names is
\* the countersignature of a TRANSFER and the signature of anything else.
signedByNamedOwner(r) == r.ownerKey = IF r.op = "TRANSFER" THEN r.coSig ELSE r.sig

verifyEquivocation(a, b) ==
  /\ parseRecord(a) = "parsed"
  /\ parseRecord(b) = "parsed"
  /\ isEquivocation(a, b)
  /\ signedByNamedOwner(a)
  /\ signedByNamedOwner(b)

-----------------------------------------------------------------------------
\* equivocation.ts: what a report is about, whatever pair shows it.
equivocationKey(r) == <<r.ownerKey, r.name, r.seq>>

KeysOf(held) == {equivocationKey(held[i].a) : i \in DOMAIN held}

countOf(held, origin) == Cardinality({i \in DOMAIN held : held[i].origin = origin})

budget(origin) == IF origin = "detected" THEN DETECTED_BUDGET ELSE RECEIVED_BUDGET

settled(held, r, origin) ==
  \/ equivocationKey(r) \in KeysOf(held)
  \/ countOf(held, origin) >= budget(origin)

\* Mutant: a fact that is held is recorded again.
recordOutcomeAgain(held, a, b, origin) ==
  IF ~verifyEquivocation(a, b)                           THEN "unverified"
  ELSE IF countOf(held, origin) >= budget(origin)        THEN "full"
  ELSE "recorded"

\* EquivocationLedger.record: the outcome, and the ledger after it.
recordOutcome(held, a, b, origin) ==
  IF ~verifyEquivocation(a, b)                           THEN "unverified"
  ELSE IF equivocationKey(a) \in KeysOf(held)            THEN "duplicate"
  ELSE IF countOf(held, origin) >= budget(origin)        THEN "full"
  ELSE "recorded"

recordEvidence(held, a, b, origin) ==
  IF recordOutcome(held, a, b, origin) = "recorded"
  THEN Append(held, [origin |-> origin, a |-> a, b |-> b])
  ELSE held

\* store.ts: the first entry of the log a refused record equivocates with.
Rivals(log, r) ==
  {i \in DOMAIN log : /\ log[i].seq = r.seq
                      /\ log[i].name = r.name
                      /\ log[i].ownerKey = r.ownerKey
                      /\ log[i].hash # r.hash}

\* store.ts, noteEquivocation: the ledger after append refused r.
noteEquivocation(held, log, names, r) ==
  IF \/ parseRecord(r) # "parsed"
     \/ r.name \notin DOMAIN names
     \/ settled(held, r, "detected")
     \/ ~signedByNamedOwner(r)
     \/ Rivals(log, r) = {}
  THEN held
  ELSE LET first == CHOOSE i \in Rivals(log, r) : \A j \in Rivals(log, r) : i <= j
       IN  recordEvidence(held, log[first], r, "detected")
=============================================================================
