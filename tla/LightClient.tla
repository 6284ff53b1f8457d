---------------------------- MODULE LightClient ----------------------------
(***************************************************************************)
(* Peers that state checkpoints of their logs, and a client that holds no  *)
(* log (cli.ts, prove and light-verify; swarm.ts, stateCheckpoint and the  *)
(* ledger of what was stated).                                             *)
(*                                                                         *)
(* Every honest peer appends what it accepts in the order it arrives, so   *)
(* honest logs may differ; a record follows the one it links to.  A liar   *)
(* states any checkpoint of LiarCheckpoints and claims any of LiarClaims.  *)
(* A proof document is untrusted: any record with any proof.               *)
(***************************************************************************)
EXTENDS Merkle, Checkpoints

CONSTANTS
  Peers, Liars,           \* honest peers, and those that are not
  NoPrev, PrevOf,         \* the record an entry links to, if any
  NameOf,                 \* the name an entry is a record of
  LiarCheckpoints,        \* checkpoints a liar may state
  LiarClaims,             \* claims a liar may make
  LiarLogs,               \* logs a liar can build documents from
  Quorum,                 \* --quorum
  MaxLog, MaxHeard        \* bounds of the model

ASSUME LightAssumption ==
  /\ IsFiniteSet(Liars) /\ Peers \cap Liars = {}
  /\ \A c \in LiarCheckpoints :        \* what decodes as a checkpoint
       /\ c.logLength \in Nat
       /\ c = [logLength |-> c.logLength, treeRoot |-> c.treeRoot, indexRoot |-> c.indexRoot]
  /\ \A c \in LiarClaims : c.logLength \in Nat     \* claimsFrom refuses any other
  /\ LiarLogs \subseteq Seq(Data)
  /\ Quorum \in Nat \ {0}

VARIABLES
  log,                    \* the log of each honest peer
  heard,                  \* every checkpoint that reached the ledger, in order
  ledger,                 \* CheckpointLedger
  claims                  \* the claims file: at most one claim of each peer

lightVars == <<log, heard, ledger, claims>>

\* The current record of each name.
indexSnapshot(entries) ==
  {d \in Data : \E i \in DOMAIN entries :
      /\ entries[i] = d
      /\ \A j \in i + 1 .. Len(entries) : NameOf[entries[j]] # NameOf[d]}

\* The hash of the snapshot in key order: equal exactly for equal snapshots.
indexRoot(current) == <<"index", current>>

checkpointOf(entries) ==
  [logLength |-> Len(entries), treeRoot |-> root(treeOf(entries)),
   indexRoot |-> indexRoot(indexSnapshot(entries))]

LightInit ==
  /\ log = [p \in Peers |-> <<>>]
  /\ heard = <<>>
  /\ ledger = EmptyLedger
  /\ claims = <<>>

Accept(p, d) ==
  /\ Len(log[p]) < MaxLog
  /\ \A i \in DOMAIN log[p] : log[p][i] # d
  /\ PrevOf[d] # NoPrev => \E i \in DOMAIN log[p] : log[p][i] = PrevOf[d]
  /\ log' = [log EXCEPT ![p] = Append(@, d)]
  /\ UNCHANGED <<heard, ledger, claims>>

\* A CHECKPOINT message arrives: record() hands it to the ledger.
Receive(checkpoint) ==
  /\ Len(heard) < MaxHeard
  /\ heard' = Append(heard, checkpoint)
  /\ ledger' = observe(ledger, checkpoint)
  /\ UNCHANGED <<log, claims>>

\* stateCheckpoint: only at a length a peer may serve.
StateCheckpoint(p) ==
  /\ isCheckpointLength(Len(log[p]))
  /\ Receive(checkpointOf(log[p]))

LiarStates == \E c \in LiarCheckpoints : Receive(c)

\* A peer is asked for its length and root, which join the claims file.
Answer(p, claim) ==
  /\ p \notin DOMAIN claims
  /\ claims' = [q \in DOMAIN claims \cup {p} |-> IF q = p THEN claim ELSE claims[q]]
  /\ UNCHANGED <<log, heard, ledger>>

Claim(p) == Answer(p, [logLength |-> Len(log[p]), treeRoot |-> root(treeOf(log[p]))])

LiarAnswers == \E l \in Liars, c \in LiarClaims : Answer(l, c)

LightNext ==
  \/ \E p \in Peers, d \in Data : Accept(p, d)
  \/ \E p \in Peers : StateCheckpoint(p)
  \/ LiarStates
  \/ \E p \in Peers : Claim(p)
  \/ LiarAnswers

LightSpec == LightInit /\ [][LightNext]_lightVars

-----------------------------------------------------------------------------
\* cmdProve: the document for the leaf at i of a log.
Document(entries, i) ==
  [record |-> entries[i + 1], logLength |-> Len(entries), proof |-> proveInclusion(entries, i)]

\* verifyNameInclusion: steps 1 and 2 of the procedure.
verifyNameInclusion(document, treeRoot, logLength) ==
  /\ document.proof.leafIndex < logLength
  /\ verifyInclusion(document.record, document.proof, treeRoot)

\* cmdLightVerify: the corroborated length, the one root claimed at it, and a
\* proof made for that length.
chosen == greatestCorroboratedLength(claims, Quorum)
rootsAt(n) == {claims[p].treeRoot : p \in {p \in DOMAIN claims : claims[p].logLength = n}}

lightVerify(document) ==
  /\ chosen # NoLength
  /\ Cardinality(rootsAt(chosen)) = 1
  /\ document.logLength = chosen
  /\ \A r \in rootsAt(chosen) : verifyNameInclusion(document, r, chosen)

\* What a client may be handed: the documents of a prefix of any log, a liar's
\* included, each with its record or another in its place.
Documents(n) ==
  {[Document(l, i) EXCEPT !.record = d] : i \in 0 .. n - 1, d \in Data,
     l \in {SubSeq(l, 1, n) : l \in {l \in {log[p] : p \in Peers} \cup LiarLogs : Len(l) >= n}}}

-----------------------------------------------------------------------------
\* The peaks kept while a log grows are the peaks a prover computes from the
\* entries alone, so every proof it makes checks against the checkpoint's root
\* (merkle.ts append, proveInclusion, verifyInclusion).  Two logs end to end are
\* a longer list of entries, for trees of more peaks.
TreesAgree ==
  \A p, q \in Peers :
    LET entries == log[p] \o log[q]
        spans == peakSpans(Len(entries))
        grown == treeOf(entries)
    IN  /\ grown.peaks = [i \in DOMAIN spans |->
                             subtreeRoot(entries, spans[i].start, spans[i].span)]
        /\ \A i \in 0 .. Len(entries) - 1 :
             verifyInclusion(entries[i + 1], proveInclusion(entries, i), root(grown))

\* Whatever document light-verify is handed, it verifies only a record that is
\* in the log of an honest peer that made a claim (cli.ts cmdLightVerify).
VerifiedIsLogged ==
  \A document \in Documents(chosen) :
    lightVerify(document) =>
      \E p \in Peers \cap DOMAIN claims : \E i \in DOMAIN log[p] : log[p][i] = document.record

\* Where an honest peer claims the corroborated length, light-verify verifies only
\* what is among the first entries of that peer's log, whoever made the document
\* (cli.ts cmdLightVerify, merkle.ts verifyInclusion).
VerifiedIsHeld ==
  \A p \in Peers \cap DOMAIN claims, document \in Documents(chosen) :
    (claims[p].logLength = chosen /\ lightVerify(document)) =>
      \E i \in 1 .. chosen : log[p][i] = document.record

\* Liars fewer than the quorum cannot push the length past what some honest peer
\* really holds (checkpoint.ts greatestCorroboratedLength).
CorroboratedIsHeld ==
  (Cardinality(Liars) < Quorum /\ chosen # NoLength) =>
    \E p \in Peers \cap DOMAIN claims : chosen <= Len(log[p])

\* A disagreement at one length is reported beside what was heard first there,
\* unless the ledger has counted something it turned away
\* (checkpoint.ts CheckpointLedger.observe).
ForksSurface ==
  \A i, j \in DOMAIN heard :
    (/\ ledger.refused = 0
     /\ i < j
     /\ heard[i].logLength = heard[j].logLength
     /\ \A k \in 1 .. i - 1 : heard[k].logLength # heard[i].logLength
     /\ heard[i] # heard[j])
      => \E k \in DOMAIN ledger.forks :
           ledger.forks[k].first = heard[i] /\ ledger.forks[k].other = heard[j]
=============================================================================
