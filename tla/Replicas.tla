------------------------------ MODULE Replicas ------------------------------
(***************************************************************************)
(* Peers that replicate the registry.  Each peer runs one store with its   *)
(* equivocation ledger (openWithLedger of cli.ts) under a clock of its     *)
(* own.  An honest key is used through the command line of its home peer,  *)
(* a hostile key signs whatever it likes.  Records travel in any order and *)
(* any number of times, and so do equivocation reports; how a session      *)
(* carries them is not part of this module.                                *)
(***************************************************************************)
EXTENDS Equivocation

CONSTANTS
  Peers,
  Offset,                 \* seconds each peer's clock is ahead of `now`
  Home,                   \* the peer whose command line an honest key is used at
  Published,              \* operations the honest keys use
  Drawn(_, _),            \* digests a new record may get: its operation, those in use
  Forgeable(_, _),        \* records hostile keys may sign: those in existence, the time
  MaxTime,                \* bound: last second
  MaxIssued,              \* bound: records signed by honest keys
  MaxForged               \* bound: records signed by hostile keys

Honest == DOMAIN Home

ASSUME PeersAssumption ==
  /\ Offset \in [Peers -> Nat]
  /\ Honest \subseteq Keys
  /\ \A k \in Honest : Home[k] \in Peers
  /\ Published \subseteq Operations

VARIABLES
  now,
  log, names,             \* the store of each peer
  ledger,                 \* the equivocation ledger of each peer
  issued,                 \* records signed by honest keys, refused ones included
  forged,                 \* records signed by hostile keys
  heard                   \* registrations that reached a peer in time, and the releases
                          \* it accepted (history)

vars == <<now, log, names, ledger, issued, forged, heard>>

Clock(p) == now + Offset[p]

Held(p) == {log[p][i] : i \in DOMAIN log[p]}

\* What a peer can be sent: records peers hold, and those of hostile keys.
InCirculation == forged \cup UNION {Held(p) : p \in Peers}

Init ==
  /\ now = 0
  /\ log = [p \in Peers |-> << >>]
  /\ names = [p \in Peers |-> EmptyIndex]
  /\ ledger = [p \in Peers |-> << >>]
  /\ issued = {}
  /\ forged = {}
  /\ heard = [p \in Peers |-> {}]

Tick ==
  /\ now < MaxTime
  /\ now' = now + 1
  /\ UNCHANGED <<log, names, ledger, issued, forged, heard>>

\* store.ts, append with a recorder attached: apply what is accepted, look for
\* equivocation in what is refused or deferred.
AppendWatched(p, r) ==
  LET verdict == appendVerdict(log[p], names[p], r, Clock(p)) IN
  /\ \/ /\ Accepted(verdict)
        /\ log' = [log EXCEPT ![p] = Append(@, r)]
        /\ names' = [names EXCEPT ![p] = apply(@, r)]
        /\ UNCHANGED ledger
     \/ /\ ~Accepted(verdict)
        /\ verdict # "duplicate"
        /\ ledger' = [ledger EXCEPT ![p] = noteEquivocation(@, log[p], names[p], r)]
        /\ UNCHANGED <<log, names>>
     \/ /\ verdict = "duplicate"
        /\ UNCHANGED <<log, names, ledger>>
  /\ heard' = IF \/ r.op = "REGISTER" /\ clockVerdict(r, Clock(p)) = "timely"
                 \/ r.op = "RELINQUISH" /\ Accepted(verdict)
              THEN [heard EXCEPT ![p] = @ \cup {r}]
              ELSE heard

-----------------------------------------------------------------------------
(***************************************************************************)
(* What the command line signs (cmdRegister, cmdSuccessor of cli.ts).      *)
(***************************************************************************)
SolvedBits(p, n) ==
  requiredBits(BaseBits[n], registrationsInWindow(log[p], TldOf[n], Clock(p)))

Registration(p, k, n, h) ==
  [hash |-> h, suite |-> 1, op |-> "REGISTER", name |-> n, ownerKey |-> k, seq |-> 0,
   notBefore |-> Clock(p), notAfter |-> Clock(p) + TERM_SECONDS, hasEntries |-> FALSE,
   pow |-> SolvedBits(p, n), prevHash |-> ZeroHash, sig |-> k, coSig |-> NoKey]

SuccessorEnd(prev, op, at) ==
  CASE op = "RELINQUISH" -> at
    [] op = "RENEW"      -> (IF prev.notAfter > at THEN prev.notAfter ELSE at) + TERM_SECONDS
    [] OTHER             -> prev.notAfter

Successor(p, k, n, h, op, to) ==
  LET prev == names[p][n].record IN
  [hash |-> h, suite |-> 1, op |-> op, name |-> n,
   ownerKey |-> IF op = "TRANSFER" THEN to ELSE prev.ownerKey, seq |-> prev.seq + 1,
   notBefore |-> Clock(p), notAfter |-> SuccessorEnd(prev, op, Clock(p)),
   hasEntries |-> FALSE, pow |-> IF op = "RENEW" THEN SolvedBits(p, n) ELSE NoPow,
   prevHash |-> prev.hash, sig |-> k, coSig |-> IF op = "TRANSFER" THEN to ELSE NoKey]

Digests(op) == Drawn(op, {r.hash : r \in issued \cup forged}) \cap (Nat \ {0})

\* finish: sign and append at the home peer.  What is refused there is not stored.
Publish(p, r) ==
  /\ Cardinality(issued) < MaxIssued
  /\ issued' = issued \cup {r}
  /\ AppendWatched(p, r)
  /\ UNCHANGED <<now, forged>>

\* cmdRegister does not look whether the name is held: append decides.
Register(k, n) ==
  /\ "REGISTER" \in Published
  /\ \E h \in Digests("REGISTER") : Publish(Home[k], Registration(Home[k], k, n, h))

Succeed(k, n) ==
  /\ n \in DOMAIN names[Home[k]]
  /\ \E op \in Published \ {"REGISTER"}, to \in Honest : \E h \in Digests(op) :
       Publish(Home[k], Successor(Home[k], k, n, h, op, to))

\* A hostile key signs a record; no honest key's signature is on it.
Forge(r) ==
  /\ Cardinality(forged) < MaxForged
  /\ r \in Record
  /\ {r.sig, r.coSig} \cap Honest = {}
  /\ forged' = forged \cup {r}
  /\ UNCHANGED <<now, log, names, ledger, issued, heard>>

\* A record reaches a peer.
Deliver(p, r) ==
  /\ AppendWatched(p, r)
  /\ UNCHANGED <<now, issued, forged>>

\* A peer forwards a report it holds, or a hostile one makes one up from what it has
\* seen; the ledger that receives it verifies it (onEquivocation, record).
Report(q, a, b) ==
  /\ ledger' = [ledger EXCEPT ![q] = recordEvidence(@, a, b, "received")]
  /\ UNCHANGED <<now, log, names, issued, forged, heard>>

Next ==
  \/ Tick
  \/ \E k \in Honest, n \in Names : Register(k, n) \/ Succeed(k, n)
  \/ \E r \in Forgeable(issued \cup forged, now) : Forge(r)
  \/ \E p \in Peers : \E r \in InCirculation : Deliver(p, r)
  \/ \E p, q \in Peers : \E i \in DOMAIN ledger[p] :
       Report(q, ledger[p][i].a, ledger[p][i].b)
  \/ \E q \in Peers : \E a \in InCirculation, b \in forged : Report(q, a, b)

Spec == Init /\ [][Next]_vars

-----------------------------------------------------------------------------
\* Stores hold records and indexes of them, ledgers hold evidence, and peers hear of
\* records somebody signed.
TypeOK ==
  /\ now \in Nat
  /\ log \in [Peers -> Seq(Record)]
  /\ DOMAIN names = Peers
  /\ \A p \in Peers : IndexOK(names[p])
  /\ ledger \in [Peers -> Seq(Evidence)]
  /\ issued \in SUBSET Record
  /\ forged \in SUBSET Record
  /\ heard \in [Peers -> SUBSET (issued \cup forged)]

HeardOf(p, n) == {r \in heard[p] : r.name = n}

\* REPLICATION.md 4.7 and 8.1, store.ts mergeConflict: two peers that the same
\* registrations of a name reached in time, and that accepted the same releases of it,
\* in whatever order and however chains grew meanwhile, hold the name under the same
\* registration.
RootsAgree ==
  \A p, q \in Peers : \A n \in DOMAIN names[p] \cap DOMAIN names[q] :
    HeardOf(p, n) = HeardOf(q, n) => names[p][n].rootHash = names[q][n].rootHash

\* REPLICATION.md 6.4, noteEquivocation: whatever hostile keys sign or report and
\* whatever is delivered twice, a ledger accuses an honest key only of two records
\* that key did sign, at one seq of one name.
NeverFramed ==
  \A p \in Peers : \A i \in DOMAIN ledger[p] :
    LET e == ledger[p][i] IN
    e.a.ownerKey \in Honest =>
      /\ {e.a, e.b} \subseteq issued
      /\ isEquivocation(e.a, e.b)

\* verify.ts, the signature checks: whatever hostile keys sign and in whatever order
\* records arrive, no store holds a record that names an honest key as owner which
\* that key did not sign or countersign.
NeverImpersonated ==
  \A p \in Peers : \A i \in DOMAIN log[p] :
    log[p][i].ownerKey \in Honest => log[p][i] \in issued

\* Everything a store or a ledger holds was signed by somebody, hostile keys sign
\* nothing for honest ones, a store holds only what its owner signed, and a ledger
\* only what verifies.
OnlySignedIsHeld ==
  /\ \A r \in forged : {r.sig, r.coSig} \cap Honest = {}
  /\ \A p \in Peers : \A i \in DOMAIN log[p] :
       /\ log[p][i] \in issued \cup forged
       /\ signedByNamedOwner(log[p][i])
  /\ \A p \in Peers : \A i \in DOMAIN ledger[p] :
       /\ {ledger[p][i].a, ledger[p][i].b} \subseteq issued \cup forged
       /\ verifyEquivocation(ledger[p][i].a, ledger[p][i].b)

\* The inductive invariant of the proofs.
ReplicasInv == TypeOK /\ OnlySignedIsHeld

\* equivocation.ts, "Why the log cannot be the ledger": of the two halves of a report
\* a log holds one, the second "would have been refused when it arrived"; so what some
\* store accepted twice over is never reported by another as equivocation.
LogHoldsOneHalf ==
  \A p, q \in Peers : \A i \in DOMAIN ledger[p] :
    ~({ledger[p][i].a, ledger[p][i].b} \subseteq Held(q))
=============================================================================
