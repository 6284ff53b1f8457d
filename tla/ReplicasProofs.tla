--------------------------- MODULE ReplicasProofs ---------------------------
(***************************************************************************)
(* Proofs about Replicas, for any peers, clocks, keys and records and any  *)
(* number of hostile keys: what a store holds is signed by the owner it    *)
(* names, and no ledger ever accuses a key of what that key did not sign.  *)
(***************************************************************************)
EXTENDS Replicas, RulesProofs, Induction, FiniteSetTheorems

-----------------------------------------------------------------------------
(***************************************************************************)
(* What the command line signs is a record.                                *)
(***************************************************************************)

\* requiredBits (pow.ts) is a number of bits, whatever the count of registrations.
LEMMA RequiredBitsType ==
  ASSUME NEW base \in Nat, NEW count
  PROVE  requiredBits(base, count) \in Nat
<1>1. IsFiniteSet(1..8)
  <2>1. \A x, y \in Int : IsFiniteSet(x..y)
    BY FS_Interval
  <2>2. 1 \in Int /\ 8 \in Int
    OBVIOUS
  <2> QED BY <2>1, <2>2, Zenon
<1> DEFINE steps == {k \in 1..8 : RATE_FLOOR * 2^k <= count}
<1>2. Cardinality(steps) \in Nat
  <2>1. steps \subseteq 1..8
    OBVIOUS
  <2> HIDE DEF steps
  <2> QED BY <1>1, <2>1, FS_Subset, FS_CardinalityType
<1>3. requiredBits(base, count)
        = IF base + Cardinality(steps) < MAX_DIFFICULTY_BITS
          THEN base + Cardinality(steps) ELSE MAX_DIFFICULTY_BITS
  BY DEF requiredBits
<1> HIDE DEF steps
<1> QED BY <1>2, <1>3, DifficultyAssumption

\* The clock of a peer shows a time.
LEMMA ClockType ==
  ASSUME now \in Nat, NEW p \in Peers
  PROVE  Clock(p) \in Nat
BY PeersAssumption DEF Clock

\* cmdRegister builds a record.
LEMMA RegistrationType ==
  ASSUME now \in Nat, NEW p \in Peers, NEW k \in Keys, NEW n \in Names,
         NEW h \in Nat \ {0}
  PROVE  Registration(p, k, n, h) \in Record
<1>1. SolvedBits(p, n) \in Nat
  BY RequiredBitsType, DifficultyAssumption DEF SolvedBits
<1>2. Clock(p) \in Nat /\ TERM_SECONDS \in Nat
  BY ClockType, DurationsAssumption
<1> QED BY <1>1, <1>2 DEF Registration, Record, Operations, ZeroHash

\* cmdSuccessor builds a record.
LEMMA SuccessorType ==
  ASSUME now \in Nat, NEW p \in Peers, IndexOK(names[p]), NEW n \in DOMAIN names[p],
         NEW k \in Keys, NEW h \in Nat \ {0}, NEW op \in Operations, NEW to \in Keys
  PROVE  Successor(p, k, n, h, op, to) \in Record
<1> DEFINE prev == names[p][n].record
<1>1. prev \in Record
  BY DEF IndexOK, NameEntry
<1>2. SolvedBits(p, n) \in Nat
  BY RequiredBitsType, DifficultyAssumption DEF SolvedBits, IndexOK
<1>3. Clock(p) \in Nat /\ TERM_SECONDS \in Nat
  BY ClockType, DurationsAssumption
<1>4. n \in Names
  BY DEF IndexOK
<1>5. Successor(p, k, n, h, op, to) =
        [hash |-> h, suite |-> 1, op |-> op, name |-> n,
         ownerKey |-> IF op = "TRANSFER" THEN to ELSE prev.ownerKey, seq |-> prev.seq + 1,
         notBefore |-> Clock(p), notAfter |-> SuccessorEnd(prev, op, Clock(p)),
         hasEntries |-> FALSE, pow |-> IF op = "RENEW" THEN SolvedBits(p, n) ELSE NoPow,
         prevHash |-> prev.hash, sig |-> k,
         coSig |-> IF op = "TRANSFER" THEN to ELSE NoKey]
  BY DEF Successor
<1> HIDE DEF prev
<1>6. SuccessorEnd(prev, op, Clock(p)) \in Nat
  BY <1>1, <1>3 DEF SuccessorEnd, Record
<1> QED BY <1>1, <1>2, <1>3, <1>4, <1>5, <1>6 DEF Record, NoPow

-----------------------------------------------------------------------------
(***************************************************************************)
(* What append accepts and what a ledger records.                          *)
(***************************************************************************)

\* A record that append accepts is signed by the owner it names: a REGISTER by the
\* key it gives the name to, a TRANSFER is countersigned by its recipient, and any
\* other record comes when no transfer is pending, from the owner itself.
LEMMA AcceptedIsAttributed ==
  ASSUME NEW entries, NEW index, IndexOK(index), NEW r \in Record, NEW at \in Nat,
         Accepted(appendVerdict(entries, index, r, at))
  PROVE  signedByNamedOwner(r)
<1>1. \/ /\ r.op # "REGISTER"
         /\ r.name \in DOMAIN index
         /\ SuccessorFacts(index[r.name], r, at)
      \/ r.op = "REGISTER" /\ RegisterFacts(r, at)
  BY AppendAccepted
<1>2. CASE r.op = "REGISTER"
  BY <1>1, <1>2 DEF RegisterFacts, signedByNamedOwner
<1>3. CASE r.op = "TRANSFER"
  <2>1. verify(entries, index, r, at, FALSE) = "accept"
    <3>1. verify(entries, index, r, at, FALSE) # "NAME_TAKEN"
      BY <1>3, TakenIsRegister
    <3>2. verify(entries, index, r, at, FALSE) # "merge"
      BY VerifyNeverMerges
    <3> QED BY <3>1, <3>2 DEF appendVerdict, Accepted
  <2>2. verifySuccessor(entries, index[r.name], r, at) = "accept"
    BY <1>3, <2>1 DEF verify, parseRecord
  <2>3. verifyOperation(entries, index[r.name].record, r) = "accept"
    BY <2>2 DEF verifySuccessor, clockVerdict
  <2>4. r.coSig = r.ownerKey
    BY <1>3, <2>3 DEF verifyOperation
  <2> QED BY <1>3, <2>4 DEF signedByNamedOwner
<1>4. CASE r.op \notin {"REGISTER", "TRANSFER"}
  <2> DEFINE held == index[r.name]
  <2>1. SuccessorFacts(held, r, at)
    BY <1>1, <1>4
  <2> HIDE DEF held
  <2>2. r.sig = controllingKey(held, r.notBefore) /\ ~Unsettled(held.record, r)
    BY <2>1 DEF SuccessorFacts
  <2>3. r.ownerKey = held.record.ownerKey
    BY <1>4, <2>1 DEF SuccessorFacts
  <2>4. controllingKey(held, r.notBefore) = held.record.ownerKey
    BY <1>4, <2>2 DEF controllingKey, Unsettled
  <2> QED BY <1>4, <2>2, <2>3, <2>4 DEF signedByNamedOwner
<1> QED BY <1>2, <1>3, <1>4

\* EquivocationLedger.record adds nothing but the verified pair it is given.
LEMMA RecordEvidence ==
  ASSUME NEW held \in Seq(Evidence), NEW a \in Record, NEW b \in Record,
         NEW origin \in Origins
  PROVE  \/ recordEvidence(held, a, b, origin) = held
         \/ /\ verifyEquivocation(a, b)
            /\ recordEvidence(held, a, b, origin)
                 = Append(held, [origin |-> origin, a |-> a, b |-> b])
            /\ [origin |-> origin, a |-> a, b |-> b] \in Evidence
BY DEF recordEvidence, recordOutcome, Evidence

\* noteEquivocation records the refused record beside one that the log holds.
LEMMA NoteEquivocation ==
  ASSUME NEW held \in Seq(Evidence), NEW entries \in Seq(Record), NEW index,
         NEW r \in Record
  PROVE  \/ noteEquivocation(held, entries, index, r) = held
         \/ \E i \in DOMAIN entries :
              noteEquivocation(held, entries, index, r)
                = recordEvidence(held, entries[i], r, "detected")
<1>1. CASE noteEquivocation(held, entries, index, r) = held
  BY <1>1
<1>2. CASE noteEquivocation(held, entries, index, r) # held
  <2> DEFINE first == CHOOSE i \in Rivals(entries, r) : \A j \in Rivals(entries, r) : i <= j
  <2>1. /\ Rivals(entries, r) # {}
        /\ noteEquivocation(held, entries, index, r)
             = recordEvidence(held, entries[first], r, "detected")
    BY <1>2 DEF noteEquivocation
  <2>2. \E i \in Rivals(entries, r) : \A j \in Rivals(entries, r) : i <= j
    <3>1. Rivals(entries, r) \subseteq Nat
      BY DEF Rivals
    <3> QED BY <2>1, <3>1, NatMin
  <2>3. first \in Rivals(entries, r)
    BY <2>2
  <2>4. first \in DOMAIN entries
    BY <2>3 DEF Rivals
  <2> QED BY <2>1, <2>4
<1> QED BY <1>1, <1>2

-----------------------------------------------------------------------------
(***************************************************************************)
(* The inductive invariant.                                                *)
(***************************************************************************)

\* The initial state satisfies the invariant.
LEMMA InitInv == Init => ReplicasInv
<1> SUFFICES ASSUME Init PROVE ReplicasInv
  OBVIOUS
<1> USE DEF Init
<1>1. TypeOK
  BY EmptyIndexOK DEF TypeOK
<1>2. OnlySignedIsHeld
  BY DEF OnlySignedIsHeld
<1> QED BY <1>1, <1>2 DEF ReplicasInv

\* What OnlySignedIsHeld says of a log, and of a ledger.
LogIsSigned(entries, known) ==
  \A i \in DOMAIN entries : entries[i] \in known /\ signedByNamedOwner(entries[i])

LedgerIsSigned(held, known) ==
  \A i \in DOMAIN held : /\ {held[i].a, held[i].b} \subseteq known
                         /\ verifyEquivocation(held[i].a, held[i].b)

\* Recording evidence about known records keeps a ledger verified.
LEMMA RecordKeepsLedger ==
  ASSUME NEW known \in SUBSET Record, NEW held \in Seq(Evidence),
         LedgerIsSigned(held, known), NEW a \in known, NEW b \in known,
         NEW origin \in Origins
  PROVE  /\ recordEvidence(held, a, b, origin) \in Seq(Evidence)
         /\ LedgerIsSigned(recordEvidence(held, a, b, origin), known)
<1> DEFINE e == [origin |-> origin, a |-> a, b |-> b]
<1>1. CASE recordEvidence(held, a, b, origin) = held
  BY <1>1
<1>2. CASE /\ verifyEquivocation(a, b)
           /\ recordEvidence(held, a, b, origin) = Append(held, e)
           /\ e \in Evidence
  <2>1. e.a = a /\ e.b = b
    OBVIOUS
  <2> HIDE DEF e
  <2>2. LedgerIsSigned(Append(held, e), known)
    BY <1>2, <2>1 DEF LedgerIsSigned
  <2> QED BY <1>2, <2>2
<1> QED BY <1>1, <1>2, RecordEvidence

\* append with a recorder attached, on any known record: the store stays typed and
\* signed, and so does the ledger, whether the record is accepted, refused or known.
LEMMA AppendWatchedKeeps ==
  ASSUME ReplicasInv, NEW p \in Peers, NEW known \in SUBSET Record,
         issued \cup forged \subseteq known, NEW r \in known, AppendWatched(p, r)
  PROVE  /\ log' \in [Peers -> Seq(Record)]
         /\ DOMAIN names' = Peers
         /\ \A q \in Peers : IndexOK(names'[q])
         /\ ledger' \in [Peers -> Seq(Evidence)]
         /\ heard' \in [Peers -> SUBSET known]
         /\ \A q \in Peers : LogIsSigned(log'[q], known)
         /\ \A q \in Peers : LedgerIsSigned(ledger'[q], known)
<1> DEFINE verdict == appendVerdict(log[p], names[p], r, Clock(p))
<1>1. /\ log \in [Peers -> Seq(Record)]
      /\ DOMAIN names = Peers
      /\ \A q \in Peers : IndexOK(names[q])
      /\ ledger \in [Peers -> Seq(Evidence)]
      /\ heard \in [Peers -> SUBSET (issued \cup forged)]
      /\ now \in Nat
  BY DEF ReplicasInv, TypeOK
<1>2. /\ \A q \in Peers : LogIsSigned(log[q], known)
      /\ \A q \in Peers : LedgerIsSigned(ledger[q], known)
  BY DEF ReplicasInv, OnlySignedIsHeld, LogIsSigned, LedgerIsSigned
<1>3. heard' \in [Peers -> SUBSET known]
  <2>1. heard \in [Peers -> SUBSET known]
    BY <1>1
  <2>2. heard' = heard \/ heard' = [heard EXCEPT ![p] = @ \cup {r}]
    BY DEF AppendWatched
  <2> QED BY <2>1, <2>2
<1>4. CASE Accepted(verdict)
  <2>1. /\ log' = [log EXCEPT ![p] = Append(@, r)]
        /\ names' = [names EXCEPT ![p] = apply(@, r)]
        /\ ledger' = ledger
    BY <1>4 DEF AppendWatched, Accepted
  <2>2. signedByNamedOwner(r)
    BY <1>1, <1>4, AcceptedIsAttributed, ClockType
  <2>3. IndexOK(apply(names[p], r))
    BY <1>1, ApplyType
  <2>4. log[p] \in Seq(Record) /\ LogIsSigned(log[p], known)
    BY <1>1, <1>2
  <2>5. LogIsSigned(Append(log[p], r), known)
    BY <2>2, <2>4 DEF LogIsSigned
  <2>6. log' \in [Peers -> Seq(Record)]
    BY <1>1, <2>1, <2>4
  <2>7. \A q \in Peers : LogIsSigned(log'[q], known)
    BY <1>1, <1>2, <2>1, <2>5
  <2>8. DOMAIN names' = Peers /\ \A q \in Peers : IndexOK(names'[q])
    BY <1>1, <2>1, <2>3
  <2> QED BY <1>1, <1>2, <1>3, <2>1, <2>6, <2>7, <2>8
<1>5. CASE ~Accepted(verdict)
  <2>1. log' = log /\ names' = names
    BY <1>5 DEF AppendWatched
  <2>2. \/ ledger' = ledger
        \/ ledger' = [ledger EXCEPT ![p] = noteEquivocation(@, log[p], names[p], r)]
    BY <1>5 DEF AppendWatched
  <2>3. /\ noteEquivocation(ledger[p], log[p], names[p], r) \in Seq(Evidence)
        /\ LedgerIsSigned(noteEquivocation(ledger[p], log[p], names[p], r), known)
    <3>1. /\ ledger[p] \in Seq(Evidence)
          /\ log[p] \in Seq(Record)
          /\ \A i \in DOMAIN log[p] : log[p][i] \in known
          /\ LedgerIsSigned(ledger[p], known)
      BY <1>1, <1>2 DEF LogIsSigned
    <3>2. "detected" \in Origins
      BY DEF Origins
    <3>3. \A i \in DOMAIN log[p] :
            /\ recordEvidence(ledger[p], log[p][i], r, "detected") \in Seq(Evidence)
            /\ LedgerIsSigned(recordEvidence(ledger[p], log[p][i], r, "detected"), known)
      BY <3>1, <3>2, RecordKeepsLedger
    <3>4. r \in Record
      OBVIOUS
    <3>5. \/ noteEquivocation(ledger[p], log[p], names[p], r) = ledger[p]
          \/ \E i \in DOMAIN log[p] :
               noteEquivocation(ledger[p], log[p], names[p], r)
                 = recordEvidence(ledger[p], log[p][i], r, "detected")
      BY <3>1, <3>4, NoteEquivocation
    <3> QED BY <3>1, <3>3, <3>5
  <2>4. ledger' \in [Peers -> Seq(Evidence)]
    BY <1>1, <2>2, <2>3
  <2>5. \A q \in Peers : LedgerIsSigned(ledger'[q], known)
    BY <1>1, <1>2, <2>2, <2>3
  <2> QED BY <1>1, <1>2, <1>3, <2>1, <2>4, <2>5
<1> QED BY <1>4, <1>5

\* What a peer can be sent was signed by somebody.
LEMMA CirculatingIsSigned ==
  ASSUME ReplicasInv, NEW r \in InCirculation
  PROVE  r \in issued \cup forged
BY DEF ReplicasInv, OnlySignedIsHeld, InCirculation, Held

\* finish (cli.ts): signing at the command line and appending at home keeps the
\* invariant, whether the store accepts the record or not.
LEMMA PublishKeeps ==
  ASSUME ReplicasInv, NEW p \in Peers, NEW r \in Record, Publish(p, r)
  PROVE  ReplicasInv'
<1> DEFINE known == issued \cup forged \cup {r}
<1>1. /\ known \in SUBSET Record
      /\ issued \cup forged \subseteq known
      /\ r \in known
  BY DEF ReplicasInv, TypeOK
<1>2. /\ issued' = issued \cup {r}
      /\ forged' = forged
      /\ now' = now
      /\ AppendWatched(p, r)
  BY DEF Publish
<1>3. issued' \cup forged' = known
  BY <1>2
<1> HIDE DEF known
<1>4. /\ log' \in [Peers -> Seq(Record)]
      /\ DOMAIN names' = Peers
      /\ \A q \in Peers : IndexOK(names'[q])
      /\ ledger' \in [Peers -> Seq(Evidence)]
      /\ heard' \in [Peers -> SUBSET known]
      /\ \A q \in Peers : LogIsSigned(log'[q], known)
      /\ \A q \in Peers : LedgerIsSigned(ledger'[q], known)
  BY <1>1, <1>2, AppendWatchedKeeps
<1>5. TypeOK'
  BY <1>2, <1>3, <1>4 DEF TypeOK, ReplicasInv
<1>6. OnlySignedIsHeld'
  BY <1>2, <1>3, <1>4 DEF OnlySignedIsHeld, ReplicasInv, LogIsSigned, LedgerIsSigned
<1> QED BY <1>5, <1>6 DEF ReplicasInv

\* A delivery keeps the invariant, however often and in whatever order it comes.
LEMMA DeliverKeeps ==
  ASSUME ReplicasInv, NEW p \in Peers, NEW r \in InCirculation, Deliver(p, r)
  PROVE  ReplicasInv'
<1> DEFINE known == issued \cup forged
<1>1. known \in SUBSET Record /\ r \in known
  BY CirculatingIsSigned DEF ReplicasInv, TypeOK
<1>2. issued' \cup forged' = known /\ forged' = forged /\ now' = now /\ AppendWatched(p, r)
  BY DEF Deliver
<1>3. issued \cup forged \subseteq known /\ issued' = issued
  BY DEF Deliver
<1> HIDE DEF known
<1>4. /\ log' \in [Peers -> Seq(Record)]
      /\ DOMAIN names' = Peers
      /\ \A q \in Peers : IndexOK(names'[q])
      /\ ledger' \in [Peers -> Seq(Evidence)]
      /\ heard' \in [Peers -> SUBSET known]
      /\ \A q \in Peers : LogIsSigned(log'[q], known)
      /\ \A q \in Peers : LedgerIsSigned(ledger'[q], known)
  BY <1>1, <1>2, <1>3, AppendWatchedKeeps
<1>5. TypeOK'
  BY <1>2, <1>3, <1>4 DEF TypeOK, ReplicasInv
<1>6. OnlySignedIsHeld'
  BY <1>2, <1>4 DEF OnlySignedIsHeld, ReplicasInv, LogIsSigned, LedgerIsSigned
<1> QED BY <1>5, <1>6 DEF ReplicasInv

\* A report of signed records, whoever makes it, keeps the invariant: the ledger that
\* receives it verifies it.
LEMMA ReportKeeps ==
  ASSUME ReplicasInv, NEW q \in Peers, NEW a \in issued \cup forged,
         NEW b \in issued \cup forged, Report(q, a, b)
  PROVE  ReplicasInv'
<1> DEFINE known == issued \cup forged
           after == recordEvidence(ledger[q], a, b, "received")
<1>1. known \in SUBSET Record /\ ledger \in [Peers -> Seq(Evidence)]
  BY DEF ReplicasInv, TypeOK
<1>2. \A p \in Peers : LedgerIsSigned(ledger[p], known)
  BY DEF ReplicasInv, OnlySignedIsHeld, LedgerIsSigned
<1>3. after \in Seq(Evidence) /\ LedgerIsSigned(after, known)
  <2>1. "received" \in Origins /\ ledger[q] \in Seq(Evidence) /\ LedgerIsSigned(ledger[q], known)
    BY <1>1, <1>2 DEF Origins
  <2>2. a \in known /\ b \in known
    OBVIOUS
  <2> HIDE DEF known
  <2> QED BY <1>1, <2>1, <2>2, RecordKeepsLedger
<1>4. ledger' = [ledger EXCEPT ![q] = after]
  BY DEF Report
<1>5. UNCHANGED <<now, log, names, issued, forged, heard>>
  BY DEF Report
<1> HIDE DEF after
<1>6. ledger' \in [Peers -> Seq(Evidence)]
  BY <1>1, <1>3, <1>4
<1>7. \A p \in Peers : LedgerIsSigned(ledger'[p], known)
  BY <1>1, <1>2, <1>3, <1>4
<1>8. TypeOK'
  BY <1>5, <1>6 DEF TypeOK, ReplicasInv
<1>9. OnlySignedIsHeld'
  BY <1>5, <1>7 DEF OnlySignedIsHeld, ReplicasInv, LedgerIsSigned
<1> QED BY <1>8, <1>9 DEF ReplicasInv

\* Every step of the replicas keeps the invariant.
LEMMA NextInv == ReplicasInv /\ [Next]_vars => ReplicasInv'
<1> SUFFICES ASSUME ReplicasInv, [Next]_vars PROVE ReplicasInv'
  OBVIOUS
<1>0. /\ now \in Nat
      /\ \A p \in Peers : IndexOK(names[p])
      /\ Honest \subseteq Keys
      /\ \A k \in Honest : Home[k] \in Peers
      /\ Published \subseteq Operations
      /\ "REGISTER" \in Operations
  BY PeersAssumption DEF ReplicasInv, TypeOK, Operations
<1>1. CASE Tick
  BY <1>1 DEF Tick, ReplicasInv, TypeOK, OnlySignedIsHeld
<1>2. ASSUME NEW k \in Honest, NEW n \in Names, Register(k, n) PROVE ReplicasInv'
  <2>1. PICK h \in Digests("REGISTER") : Publish(Home[k], Registration(Home[k], k, n, h))
    BY <1>2 DEF Register
  <2>2. h \in Nat \ {0}
    BY DEF Digests
  <2>3. Registration(Home[k], k, n, h) \in Record
    BY <1>0, <2>2, RegistrationType
  <2> QED BY <1>0, <2>1, <2>3, PublishKeeps
<1>3. ASSUME NEW k \in Honest, NEW n \in Names, Succeed(k, n) PROVE ReplicasInv'
  <2>1. PICK op \in Published \ {"REGISTER"}, to \in Honest : \E h \in Digests(op) :
          Publish(Home[k], Successor(Home[k], k, n, h, op, to))
    BY <1>3 DEF Succeed
  <2>2. PICK h \in Digests(op) : Publish(Home[k], Successor(Home[k], k, n, h, op, to))
    BY <2>1
  <2>3. h \in Nat \ {0}
    BY DEF Digests
  <2>4. n \in DOMAIN names[Home[k]]
    BY <1>3 DEF Succeed
  <2>5. Successor(Home[k], k, n, h, op, to) \in Record
    BY <1>0, <2>3, <2>4, SuccessorType
  <2> QED BY <1>0, <2>2, <2>5, PublishKeeps
<1>4. ASSUME NEW r, Forge(r) PROVE ReplicasInv'
  <2>1. /\ r \in Record
        /\ {r.sig, r.coSig} \cap Honest = {}
        /\ forged' = forged \cup {r}
        /\ UNCHANGED <<now, log, names, ledger, issued, heard>>
    BY <1>4 DEF Forge
  <2>2. TypeOK'
    BY <2>1 DEF ReplicasInv, TypeOK
  <2>3. OnlySignedIsHeld'
    BY <2>1 DEF ReplicasInv, OnlySignedIsHeld
  <2> QED BY <2>2, <2>3 DEF ReplicasInv
<1>5. ASSUME NEW p \in Peers, NEW r \in InCirculation, Deliver(p, r) PROVE ReplicasInv'
  BY <1>5, DeliverKeeps
<1>6. ASSUME NEW p \in Peers, NEW q \in Peers, NEW i \in DOMAIN ledger[p],
             Report(q, ledger[p][i].a, ledger[p][i].b)
      PROVE  ReplicasInv'
  <2>1. {ledger[p][i].a, ledger[p][i].b} \subseteq issued \cup forged
    BY DEF ReplicasInv, OnlySignedIsHeld
  <2> QED BY <1>6, <2>1, ReportKeeps
<1>7. ASSUME NEW q \in Peers, NEW a \in InCirculation, NEW b \in forged, Report(q, a, b)
      PROVE  ReplicasInv'
  BY <1>7, CirculatingIsSigned, ReportKeeps
<1>8. CASE UNCHANGED vars
  BY <1>8 DEF vars, ReplicasInv, TypeOK, OnlySignedIsHeld
<1> QED BY <1>1, <1>2, <1>3, <1>4, <1>5, <1>6, <1>7, <1>8 DEF Next

-----------------------------------------------------------------------------
(***************************************************************************)
(* The theorems.                                                           *)
(***************************************************************************)

\* ReplicasInv is an invariant of the replicated registry.
THEOREM ReplicasInvariant == Spec => []ReplicasInv
BY InitInv, NextInv, PTL DEF Spec

\* Stores, indexes and ledgers of all peers are well typed, always.
THEOREM ReplicasTypeCorrect == Spec => []TypeOK
<1>1. ReplicasInv => TypeOK
  BY DEF ReplicasInv
<1> QED BY <1>1, ReplicasInvariant, PTL

\* No store ever holds a record that names an honest key as its owner and that the
\* key did not sign or countersign (verify.ts), whatever hostile keys do.
THEOREM NeverImpersonatedHolds == Spec => []NeverImpersonated
<1>1. ReplicasInv => NeverImpersonated
  <2> SUFFICES ASSUME ReplicasInv, NEW p \in Peers, NEW i \in DOMAIN log[p],
                      log[p][i].ownerKey \in Honest
               PROVE  log[p][i] \in issued
    BY DEF NeverImpersonated
  <2>1. log[p][i] \in issued \cup forged /\ signedByNamedOwner(log[p][i])
    BY DEF ReplicasInv, OnlySignedIsHeld
  <2>2. log[p][i].ownerKey \in {log[p][i].sig, log[p][i].coSig}
    BY <2>1 DEF signedByNamedOwner
  <2> QED BY <2>1, <2>2 DEF ReplicasInv, OnlySignedIsHeld
<1> QED BY <1>1, ReplicasInvariant, PTL

\* No ledger of any peer ever accuses an honest key of a pair that key did not sign
\* (noteEquivocation, EquivocationLedger.record), whatever hostile keys sign, report
\* or replay.
THEOREM NeverFramedHolds == Spec => []NeverFramed
<1>1. ReplicasInv => NeverFramed
  <2> SUFFICES ASSUME ReplicasInv, NEW p \in Peers, NEW i \in DOMAIN ledger[p],
                      ledger[p][i].a.ownerKey \in Honest
               PROVE  /\ {ledger[p][i].a, ledger[p][i].b} \subseteq issued
                      /\ isEquivocation(ledger[p][i].a, ledger[p][i].b)
    BY DEF NeverFramed
  <2> DEFINE a == ledger[p][i].a
             b == ledger[p][i].b
  <2>1. {a, b} \subseteq issued \cup forged /\ verifyEquivocation(a, b)
    BY DEF ReplicasInv, OnlySignedIsHeld
  <2>2. a.ownerKey \in Honest
    OBVIOUS
  <2>3. \A r \in forged : {r.sig, r.coSig} \cap Honest = {}
    BY DEF ReplicasInv, OnlySignedIsHeld
  <2> HIDE DEF a, b
  <2>4. isEquivocation(a, b) /\ a.ownerKey = b.ownerKey
    BY <2>1 DEF verifyEquivocation, isEquivocation
  <2>5. a.ownerKey \in {a.sig, a.coSig} /\ b.ownerKey \in {b.sig, b.coSig}
    BY <2>1 DEF verifyEquivocation, signedByNamedOwner
  <2>6. {a, b} \subseteq issued
    BY <2>1, <2>2, <2>3, <2>4, <2>5
  <2> QED BY <2>4, <2>6 DEF a, b
<1> QED BY <1>1, ReplicasInvariant, PTL
=============================================================================
