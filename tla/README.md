# A TLA+ model of the VayuWeb registry

VayuWeb is a peer-to-peer name registry.  Names are held by chains of signed records in an
append-only log that every peer keeps and verifies for itself; peers replicate logs over
HyperSwarm connections; conflicting registrations are decided by a rule that every peer is
meant to evaluate alike.  The reference implementation is the TypeScript package `registry/`;
`client/` is a second implementation of the rules, in Rust, and a tool for publishers.

This directory models `registry/src`: the record rules, the store, the equivocation ledger,
the replication session, the network of replicas, checkpoints and light clients, the resolver
with its cache, content, and the process that serves them.  TLC checks the models on small
instances; TLAPS proves the safety properties of the store, the equivocation ledger, the
replicas, the session, the light client, the listener, the local surface and content for every
instance, and that the store implements an abstract registry.

Run a check with `tlc -workers 2 -config <cfg> <module>` and the proofs of a module with
`tlapm <module>.tla`.  `PROJECT.json` lists the runs, the lines of source every
definition stands for, and at least one mutation of the code per checked property.

## Inventory

| Part | Source (`registry/src`) | State | Operations | What is hard about it |
|---|---|---|---|---|
| Record rules | `record.ts`, `lifecycle.ts`, `pow.ts`, `verify.ts`, `suites.ts` | none | parse, verdict on a record against a view, lifecycle, difficulty | boundaries of terms, grace, quarantine and settlement; the order of checks |
| Convergence | `converge.ts`, `store.ts` (`mergeConflict`) | none | decide two registrations of one name | must not depend on arrival order, clocks or on how chains grew |
| Store | `store.ts` | log file, entries, name index, difficulty windows | open (replay), append (verify, merge, write, apply), checkpoint, lookups | failed and torn writes, crash between write and apply, several processes on one file, replay under other conditions than append |
| Equivocation | `equivocation.ts`, `replicate.ts` (`verifyEquivocation`), `store.ts` (`noteEquivocation`) | ledger file, entries, budgets | detect, record, read back, forward | torn entries, budgets, accusing the innocent |
| Session and driver | `replicate.ts`, `swarm.ts` | cursors, request slots, deferral queue, offered flags | HELLO, WANT, RECORDS, EQUIVOCATION, CHECKPOINT, timer, close | expiry racing a late reply, short replies, hostile messages, deferral, liveness |
| Publishing | `cli.ts` | none of its own | register, update, renew, transfer, release, revoke, sync, serve | uses the store while a sync may be running |
| Checkpoints, light clients | `checkpoint.ts`, `merkle.ts` | first checkpoint per length, forks | observe, prove and verify inclusion | bounded ledger, forks seen in any order |
| Resolver | `resolve.ts`, `cache.ts` | positive and negative cache, manifests, generation | resolve, alias following, eviction, clearing | stale entries, expiry, aliases spanning records |
| Content | `content.ts`, `unixfs.ts`, `fetch.ts`, `blockstore.ts`, `blockx.ts`, `pins.ts` | blocks, pins, budgets | import, fetch verified, prefetch, exchange, pin | bounds on traversal, partial fetches |
| Local surface | `serve.ts`, `proxy.ts`, `control.ts`, `egress.ts`, `scan.ts`, `mime.ts` | listeners, connection counter, token | requests, token rotation, cache and pin control | limits, order of refusals |
| Encoding, names, keys | `cbor.ts`, `names.ts`, `domain.ts`, `keys.ts`, `signature.ts` | none | parse, encode, sign, verify | pure functions over bytes |
| Rust client | `client/src` | view of accepted records, evidence, blocks, identities | verify, publish flow, doctor, control client | a second reading of the same rules |

How the parts meet: the command line opens a `Store` with an `EquivocationLedger` beside it
and appends records to it; `drivePeer` gives each connection a `ReplicationSession` over the
same store (`sinkOver`), so every connection, and the command line of another process, changes
the log under the others.  What `append` refuses is handed to the ledger, and the ledger's
entries are offered to each new connection.  Everything in one process runs on one event
loop: a handler is atomic; processes and peers interleave freely.

## Modules

| Module | Models | State and actions |
|---|---|---|
| `RegistryRules` | parse, lifecycle, difficulty, `verify`, `apply`, `mergeConflict`, the verdict of `append` | operators only, named as in the code |
| `LawfulRegistry` | what the registry promises, without processes, memory or failures | `log`, `now`; `Enter` (a lawful registration or a lawful successor), `TimePasses` |
| `Store` | `store.ts` and the processes that hold the log | `disk`, `torn`, `mem`; `ReadLog`, `ReplayEntry`, `Opened` (`Store.open`), `AppendRecord`, `FailedWrite`, `CrashInAppend` (`append`), `Stop`, `Tick` |
| `RulesProofs` | lemmas about the rules: what an accepting verdict says, what `apply` keeps | |
| `StoreProofs`, `ReplicasProofs`, `SessionProofs`, `ContentProofs` | theorems about `Store`, `Replicas`, `Session`, `Content` | |
| `LedgerProofs` | theorems about the two ledgers of a peer: `EquivocationLedger`, and `LightClient` with `Checkpoints` and `Merkle` | |
| `SurfaceProofs` | theorems about the process behind `serve`: `Listener` and `LocalSurface` | |
| `Induction` | induction over numbers, intervals and iterated steps, as facts about sets | |
| `Equivocation` | what evidence is, the ledger's rules, `noteEquivocation` | operators only |
| `EquivocationLedger` | processes that share one ledger file | `file`, `held` per process, `running`; `Open`, `RecordReport`, `TornRecord`, `Stop` |
| `Replicas` | several peers, each a store with a ledger | `log`, `names`, `ledger` per peer; `Register`, `Succeed` (command line), `Deliver`, `Report`, `Forge`, `Tick` |
| `Session` | one connection, both ends | `store`, `session`, `channel`; `OnData` (`OnHello`, `OnWant`, `OnRecords`, `OnEquivocation`), `Heartbeat`, `Connect`, `Disconnect`, `Arrive`, `Inject`, `Tick` |
| `Merkle` | `merkle.ts`: the tree as it grows, proofs, their verification | operators only |
| `Checkpoints` | `checkpoint.ts`: comparison, `CheckpointLedger.observe`, the corroborated length | operators only |
| `LightClient` | peers that state checkpoints and claims, a ledger of them, `prove` and `light-verify` | `log` per peer, `heard`, `ledger`, `claims`; `Accept`, `StateCheckpoint`, `LiarStates`, `Claim`, `LiarAnswers` |
| `Resolver` | `cache.ts`, `resolve.ts`, `proxy.ts` | operators only: a call returns the cache beside its answer |
| `LocalSurface` | the process behind `serve`: proxy and control API over one cache and pin set | `registry`, `cache`, `pinned`, `port`, `token`, `diagnostics`; `ProxyRequest`, one action per control operation, `RegistryAppend`, `Tick` |
| `Listener` | the sockets of `serve.ts` | `server`, `open` (slots), `conn`; `Admit`, `Data`, `Timeout`, `PeerEnd`, `SocketError`, `Close`, `StopListening`, `ServerClosed` |
| `UnixFs` | `content.ts`, `unixfs.ts`, `fetch.ts`: import and verified traversal | operators only |
| `Content` | `blockstore.ts`: `prefetch` over blocks nobody trusts | the locals of `prefetch`, `awaiting`, `status`; `Take`, `Answer`, `AnswerNotBytes`, `Deadline`, `Return` |
| `MCStore`, `MCEquivocationLedger`, `MCReplicas`, `MCSession`, `MCLightClient`, `MCLocalSurface`, `MCListener`, `MCContent` | instances for TLC | |

Abstractions.  A record is what the verifier reads from its bytes: its digest is a positive
number (the order of digests is the order of `record_hash`), a signature is the key that made
it, a proof of work is the number of bits it proves, and its entries are whether there are
any.  SHA-256 is collision free and Ed25519 unforgeable (`Forge` cannot put an honest key's
signature on anything).  `label.tld` is one name.  Verdicts keep the code's names, and the
order of checks is the code's.  What `append` refuses is a step that changes nothing, and is
left out of `Store`; it matters in `Replicas` and `Session`, where the ledger sees it.

In `Session` the stream keeps order and loses nothing until it closes; a reply to WANT is some
non-empty prefix of what was asked for, because the code cuts it by bytes.  The two
ends are distinct and what a hostile end sends has the shape `decodeMessage` demands; limits are
positive.  An append that throws is a position of the batch that is counted as rejected.  `Inject` is a remote that
sends any well formed message.  `covered` (and `heard`, `issued` in `Replicas`,
`acknowledged` in the ledger, `heard` in `LightClient`, `offered` in `Content`) are history
variables that only properties read.

Hashes are terms: a tree hash is the term that was hashed and a CID's digest is the bytes, so
two are equal exactly when their inputs are.  In `Resolver` a `Map` is the sequence of its
entries in insertion order, a record's entries are the first value of each known type, a path is
its segments and whether it ends in a slash, and syntax errors are one malformed value.  The
code of `resolve.ts`, `cache.ts` and `proxy.ts` is synchronous, so a request is one step of
`LocalSurface`; `RegistryAppend` is the growing log that `generation` exists for (`serve` itself
reads its log once).  Of a content port the model keeps which CIDs it holds, which of them fail
their hash, and whether it tells why a traversal failed.  `SitePort` is the one `serve` has
(`siteContentOf`): it holds the root it imported, whose blocks it hashed itself, and turns every
failure of a traversal into a missing path.  `OtherPorts` are hypothetical: no build has a port
that hands a failed hash on, but `ContentPort` is an exported interface whose contract is a
numbered failure, `handleRequest` has a branch for it, and `proxy.test.ts` tests that branch with a
port of its own.  In `Listener` a peer's request is the sizes of its head and body and what
parsing the head finds, and the network cuts it into chunks anywhere.  In `Content` a block
weighs what its data or its links weigh; `Cids` is every CID that occurs in a tree or in what a
peer answers, and `Blocks` what the bytes behind one may be.

## Runs

| Run | Expected | What it shows |
|---|---|---|
| `MCStore` | pass | two processes, one file, any record on time, crashes and failing writes: `Custody`, `ClosedIsFinal`, `TermBound`, `MemoryIsDurable`, `TransferorCanCancel`, `TitleIsDefended`, and the refinement `ImplementsLawfulRegistry` |
| `MCStoreReopenMerged` | violation | `Reopens`: a log with a merged conflict does not open again |
| `MCLedger` | pass | two processes on one file, torn entries and restarts: `EarlierEvidenceSurvives`, `BoundedAndDistinct` |
| `MCReplicas` | pass | two peers, two honest keys and a hostile one: `RootsAgree`, `NeverFramed`, `NeverImpersonated` |
| `MCReplicasThree` | violation | `RootsAgree` with three honest registrants spaced over the backdate window |
| `MCSession` | pass | two honest ends: `SlotsAreRequests`, and, with fairness, `FetchCompletes`, `ExchangeCompletes` |
| `MCSessionHostile` | pass | a hostile end: `NothingSkipped`, `DeferredDistinct` |
| `MCLight` | pass | two honest peers and one that inflates its length: `TreesAgree`, `VerifiedIsHeld`, `CorroboratedIsHeld`, `ForksSurface` |
| `MCLightClaims` | violation | `VerifiedIsLogged` when the liar claims a length below the honest ones |
| `MCSurface` | pass | proxy and control API on one cache: `PagesAreCurrent`, `RefusalsWereTrue`, `NoStaleOutage`, `NoDowngrade`, `CacheIsBounded` |
| `MCListener` | pass | connections over the cap, cut and silent requests: `SlotsAreHeld`, `WholeRequestOnce`, `BufferIsBounded`, and, with fairness, `EveryConnectionIsDecided` |
| `MCContent` | pass | published and hostile trees from peers of any kind: `PublishedIsFetched`, `FetchIsTrue`, `PullSuffices`, `MemoryIsBounded`, and, with fairness, `PullEnds` |

**Bounds.**  Durations are a few seconds in the order of the real ones; what matters is that
every window can be entered, left and missed.  In `MCStore` time runs past a term and its
grace, a relinquished name is released and registered again, and three entries suffice for
every property about a predecessor, a record and its rival; two keys and two registration
digests give a transfer, a rival that wins and one that loses.  `MCReplicas` has as many
digests as there are registrations, so every order of digests occurs; time runs past the
backdate window, so a record can be late.  In `MCSession` the remote log is longer than a
WANT may ask for, replies may be cut at every length, a request expires while its reply is in
flight, and one record is ahead of the receiver's clock.  In `MCSessionHostile` the messages
include wrong versions, lengths and positions, records ahead of the clock and false reports,
three distinct deferrable records against a queue of two, so that the oldest is evicted, and a
second connection.
In `MCLedger` four entries of the file are enough for a torn one, one after it by another
process, and one over a budget.  `MCLight` grows logs of three records and evaluates trees of up
to six, so that carries of two levels and two and three peaks occur; the ledger holds one length
and one fork, so both limits are met.  `MCSurface` has a record that is updated and one that is
an alias of it, `serve`'s own port and one that tells and has bytes that fail their hash, a file
too large to load, a pointer, caches of two entries that may be lowered
to one, a manifest cache of one, and time past a term.  `MCListener` has one slot for two connections, and plans that meet
and exceed each bound.  `MCContent` has an empty file, a file of one chunk, one of several, a
nested directory, a tree deeper and one wider than the limits, one with a foreign codec and ones
whose nodes disagree with their links, and a node's bytes addressed as content; the largest
published trees have seven blocks and a pull may hold six.  `Symmetric` in `MCStore` permutes processes and keys, in
`MCEquivocationLedger` processes, and `Symmetry` in `MCLightClient` honest peers; none of them is
ordered or chosen.

**Deadlock** is checked except where the system may rest: a connection with nothing to send when
the clock has reached its bound (`Session`), a server that has closed (`Listener`), a pull that
has ended (`Content`), and peers whose logs, messages and claims have reached their bounds
(`LightClient`).

**Fairness** (`FairSpec` of `Session`): weak fairness of `OnData` and `Heartbeat` of each end
and of `Tick`.  The event loop delivers data that has arrived and fires the interval of
`drivePeer`; time passes.  Nothing is assumed about connecting, disconnecting, or what other
connections bring; the liveness properties excuse an end whose connection was closed.
`Listener` assumes that timers that are due fire and close events are delivered, and nothing of
any peer.  `Content` assumes that the loop of `prefetch` goes on when nothing is awaited and that
its timer fires, and not that any peer answers.

**Findings.**  The violation runs state what the repository says of itself and show a
behaviour of the code that departs from it; `PROJECT.json` quotes the lines.  `MCStoreReopenMerged`
and `MCReplicasThree` share two causes.  `rootEntryFor` returns the first registration of a name in the local
log, which after a merge or a release is not the one the incumbent chain descends from; and
verification asks at one clock on arrival and at another on replay, while replay has no merge
path.  `MCLightClaims` is about `light-verify`: lengths are corroborated by every claim that reaches
them, roots only by the claims made at that length.

**Further departures** met on the way, each found by TLC with the model as it is and the
constants changed as shown:

| Property | Module, constants changed | Behaviour |
|---|---|---|
| `Reopens` | `MCStore`; one process, one key, one digest, `Offered <- AnyRecord`, `MaxTime = 10` | a registration accepted after release but dated before it does not replay |
| `Reopens` | `MCStore`; two processes, `Offered <- SoleRegistrantRecord` | processes interleave records neither verified against the other |
| `LateClaimIsRefused` | `MCStore`; three keys and digests, `Offered <- RegistrationOnly`, `MAX_BACKDATE_SECONDS = 2` | lateness is measured from the first registration in the log |
| `OwnRegistrationStands` | `MCStore`; three digests, `Offered <- RegistrationOnly` | a key displaces its own registration when another key was first |
| `EveryTransferIsCancellable` | `MCStore`; one process, `TERM_SECONDS = 5` | a transfer made near the end of a term cannot be taken back |
| `RootsAgree` | `MCReplicas`; three peers, `Offset <- OneAhead`, registrations only | with tolerated skew an older rival arrives in time and only late ones are refused |
| `RootsAgree` | `MCReplicas`; registrations and `RELINQUISH`, `MaxTime = 4`, `MaxIssued = 4` | after a release rivals are compared with the first life of the name |
| `RootsAgree` | `MCReplicas`; `Home <- NoHome`, `Forgeable <- SelfEquivocation` | two registrations by one key: each peer keeps the first it saw |
| `LogHoldsOneHalf` | `MCReplicas`; `Keys = {k1}`, `Home <- HomeOfOne`, `Published = {"REGISTER", "RELINQUISH"}`, no forgery, `MaxTime = 5` | an owner who relinquished and registered again is accused of equivocation by a peer that saw the second registration first, while its own log holds both (equivocation.ts:20 "a log *cannot* contain both halves") |
| `EarlierEvidenceSurvives` | `MCLedger`; the property for entries recorded after a torn one too | they are acknowledged and never read again: `readEntries` stops at the torn entry and nothing truncates it (equivocation.test.ts:203 "a record that does not outlive the process is not a record") |
| `GrowthIsFetched` | `MCSession`; `Elsewhere <- OneRegistration` | the remote length is read once, at HELLO |
| `ExchangeCompletes` | `MCSession`; `Elsewhere <- AheadChain`, `MaxTime = 3` | the successor of a deferred record is rejected, not deferred, and the cursor passes it (REPLICATION.md:149 "defer (CLOCK_SKEW): hold, retry after the skew window") |
| `ExchangeCompletes` | `MCSession`; `Elsewhere <- OneRegistration`, `Offset <- SameClock`, `MAX_BACKDATE_SECONDS = 1` | a fresh end rejects every record older than the backdate window (ARCHITECTURE.md:307 "A fresh node joins HyperDHT ..., replicates the log") |
| `TooLargeIsNotMissing` | `MCSurface` | `siteContentOf` turns every failure of a traversal into a missing path, so the site's 404 or fallback page answers for a published file over 256 MiB (RESOLUTION.md:294 "beyond which the resolver returns 1413"; proxy.ts:714 "Only a missing PATH is a reason to look at the manifest") |
| `ManifestIsTrue` | `MCSurface`; `OtherPorts = {}` | a site asked for a directory while it is unpinned is remembered for good as having no manifest (cache.ts:436 "an entry keyed by one cannot go stale") |
| `BodyIsNotAHead` | `MCListener`; `Plans <- Legitimate`, `MaxChunk = 4` | a small head and a lawful body in one chunk are refused as a head that is too large |
| `RefusedIsNotHandled` | `MCListener` | a connection over the cap is answered and ended, but its reader is in place and its request is handled (serve.ts:99 "new sockets are closed immediately") |

Read off the models and the code, without a property: an answer or a timeout of `serve.ts` only
ends this side of a socket, so its slot is held until the peer ends too; `compareCheckpoints`
says of a difference that one side is wrong, but honest peers that accepted the same records in
another order differ as well; a checkpoint that disagrees is reported again each time it is
stated, so one peer can fill the list of forks; `fileBlocks` links every chunk from one node and
can make a tree whose node exceeds `fetch.ts`'s limit on links; `prefetch` lets the
`ContentError` of a foreign codec escape; two processes that share a ledger can together exceed a
budget, and the next reader drops the rest.

## Proofs

Everything here holds for any sets of names, keys, processes, peers and connections, any records
offered, any trees and logs, and any durations, limits and bounds.  The assumptions on constants
say no more than that numbers are numbers, that no key is the absent one, that honest keys are
keys with a home, that a connection has two ends, that liars are finitely many and none of them is
honest, that plans, reports, messages, records, checkpoints and blocks have the shape the code
parses them into, and that no name is written like the key of a content source (`content:...` in
`proxy.ts`; a name has no colon).

### Store (`StoreProofs`)

* `TypeCorrect`: `TypeOK`;
* `InvariantHolds`: `StoreInv`, the inductive invariant;
* `CustodyHolds`, `ClosedIsFinalHolds`, `TermBoundHolds`, `MemoryIsDurableHolds`;
* `TransferorCanCancelHolds`;
* `TitleIsDefendedHolds`: the action property, from `StoreInv`;
* `StoreImplementsLawfulRegistry`: `Spec => Lawful!Spec`, with the file as the abstract log.

*The argument.*  `Custody` and `ClosedIsFinal` speak of the file, but a process verifies a
record against its own memory, which another process may have left behind.  `StoreInv` ties
the two together: `ReplaysTheFile` (a process that is opening replays a prefix of the file),
`MemoryIsDurable` (the entries of a process are a subsequence of the file), `SignerSigned`
(each index entry is a record of the log, and the signer key kept beside it did sign it) and
`WellFormedFile` (one digest, one record, and a RELINQUISH ends when it begins).  Then the
predecessor a successor was verified against is in the file, and the key `controllingKey`
answers is the rightful one.  `ClosedIsFinal` needs that any record with the digest of a
REVOKE or RELINQUISH *is* that record, and that `acceptsSuccessor` then refuses; `TermBound`
needs that the predecessor in the file already obeys the bound, and that a renewal is dated
within the window.  `SuccessorFacts` and `RegisterFacts` collect what an accepting verdict
says, so that the step proofs do not expand `verify`.

`TransferorCanCancel` says that the record a transferor would sign to take a name back is
accepted, so every check of `verify` must be passed and not only the interesting one.  It rests
on `IndexIsParsed`: what the index holds was parsed (so a TRANSFER carries both signatures and a
term that has not ended before it began) and is revoked only by a REVOKE.

*The refinement.*  `LawfulRegistry` has one log and no processes: a record enters as a
registration signed by its owner, for one term, dated within the skew, or as the extension, by
the key rightfully entitled to it, of an earlier record of the log that is not closed, for the
rest of its term or at most a renewal.  Only the append of a
process, completed or cut short after the write, changes the file; every other step is a stutter
or the passing of time.  That an appended record is lawful *for the file* (`AcceptedIsLawful`)
follows from `StoreInv`: the verdict was reached in memory, and the predecessor it was reached
against is in the file with the signer the process remembers.

### Equivocation ledger (`LedgerProofs`)

* `LedgerInvariant`: `LedgerInv`, the inductive invariant;
* `BoundedAndDistinctHolds`, `EarlierEvidenceSurvivesHolds`.

*The argument.*  `EarlierEvidenceSurvives` speaks of what a process that opens the file would
hold, that is, of the fold of `record` over the whole entries of the file.  `AcknowledgedIsWritten`
keeps the evidence where the fold reaches it: whatever was acknowledged while the file was whole
stands in it before any fragment.  `ReplaySettles` then shows that the fold settles every fact
whose entry it passes: it is taken, or was held already, or its budget is spent, and a budget once
spent stays spent.  `ReplayKeeps` shows that no fold exceeds a budget or holds a fact twice.

### Replicas (`ReplicasProofs`)

* `ReplicasInvariant`: `ReplicasInv`, the inductive invariant; `ReplicasTypeCorrect`;
* `NeverImpersonatedHolds`: no log holds a record that names an honest owner who did not sign it;
* `NeverFramedHolds`: no ledger accuses an honest key of what it did not sign.

*The argument.*  Neither property is inductive: a pair is put together from a log and an arriving
record, long after either was signed.  `OnlySignedIsHeld` says where everything comes from
(issued by an honest key or forged, and nothing forged bears an honest signature), that a log
holds only what its named owner signed and a ledger only what verifies.  `AcceptedIsAttributed`
is the rule behind it: whatever verdict admits a record, a conflict that is merged included, the
signature of the named owner was checked; for a TRANSFER that is the countersignature.

### Session (`SessionProofs`)

* `SessionInvariant`: `SessionInv`, the inductive invariant; `SessionTypeCorrect`;
* `NothingSkippedHolds`, `DeferredDistinctHolds`: whatever a hostile end sends;
* `SlotsAreRequestsHolds`: if neither end is hostile.

*The argument.*  `NothingSkipped` follows the cursor through `onRecords`: it advances only over a
batch that begins at or before it, and then the batch is in `covered`; expiry pulls the request
cursor back to it and leaves it alone; a new connection starts both again.  `DeferredDistinct` is
a fact about the fold over a batch: `Offer` keeps it, by `Iteration` so does every batch, and a
retry starts from an empty queue.  `SlotsAreRequests` is an equality of a length and two
cardinalities across both ends.  `SlotsAreBounded` says that no slot was taken before the clock
began, so none expires before the first deadline; `AsksForWhatIsThere` says that HELLO comes first
on the channel, that the length it states is one the log behind it keeps, and that what is asked
for is there, so every WANT is answered.  With a hostile end it is false, since RECORDS nobody
asked for free a slot; the theorem has `Hostile = {}` for that reason.

### Checkpoints and light clients (`LedgerProofs`)

* `ForksSurfaceHolds`: the ledger of checkpoints hides no fork it does not count as turned away;
* `CorroboratedIsHeldHolds`: liars fewer than the quorum push no length past the honest logs;
* `TreesAgreeHolds`: the tree as it grows and the tree a prover builds are one, and every proof
  made verifies, for logs of any length;
* `InclusionIsSound`: whatever proof is shown, only a record of the log verifies against the root
  of the tree that grew over it;
* `VerifiedIsHeldHolds`: where an honest peer claims the corroborated length, `light-verify`
  verifies only what is in that peer's log.

*The argument.*  The inductive invariant `LightInv` has two halves.  `HeardInv` ties the
checkpoint ledger to the history of what was heard: unless it has counted a refusal, it keeps for
each length the first checkpoint heard there and a report for each that differs; `ForksSurface` is
not inductive without the first part.  `ClaimsInv` says that an honest claim is about a prefix of
the peer's log as it is now, although the log has grown since the claim.  A corroborated length
that no honest peer holds would need a quorum of liars.

The rest is about `merkle.ts`.  `MerkleTree` keeps peaks and carries; a prover decomposes a length
into powers of two and hashes subtrees from the entries.  By induction on the length, the peaks
that grew are complete subtrees whose spans are powers of two, strictly decreasing and end to end:
a carry combines equal spans and keeps that form (`CarryKeeps`, `CarriedToTree`, `TreeOfIs`).  Any
such tiling is the one `peakSpans` finds (`PeakSpansAre`), so both trees are one (`PeaksAre`).
A proof then folds back to its peak (`PathFolds`, by induction over the powers of two).  For
soundness, hashes are terms: equal roots are equal peaks, and a fold that reaches a peak's hash
retraces that peak's tree downwards, step by step (`HashesTell`, `FoldSound`), until it meets a
leaf; a leaf's hash is never a parent's, so it cannot stop early or go on.

### Listener (`SurfaceProofs`)

* `ListenerInvariant`: `ListenerInv`, the inductive invariant; `ListenerTypeCorrect`;
* `SlotsAreHeldHolds`, `WholeRequestOnceHolds`, `BufferIsBoundedHolds`.

*The argument.*  `Reading` says what the buffer of a connection means at every moment: before
the request is decided its handler has not run, the head is within its bound if it is complete,
and the bytes held are within the sum of the bounds; after that the handler ran at most once, on
exactly the request the peer planned, and the buffer exceeds the bounds by a chunk at most.
`SlotsAreHeld` counts connections, so the set of those that hold a slot is shown finite.

### Local surface (`SurfaceProofs`)

* `SurfaceInvariant`: `SurfaceInv`, the inductive invariant; `SurfaceTypeCorrect`;
* `PagesAreCurrentHolds`, `RefusalsWereTrueHolds`: of every answer;
* `NoDowngradeHolds`: of every answer of `handleRequest` over a port that tells.  It is a statement
  about the fallback loop and any port an embedder may pass; over `SitePort` it is empty, since no
  block of it fails its hash;
* `NoStaleOutageHolds`, `CacheIsBoundedHolds`: of the cache, whatever is in it.

*The argument.*  What an answer says was often put into the cache many steps before, by another
request or by the control API, so the properties of answers need a property of the cache.
`Faithful` is that property, in three parts.  Its bounds hold and its keys are distinct.  If the
generation it was last told is the present length of the registry, each record it keeps is in
force and stays live until the entry expires (`Vouched`: `putPositive` cuts the time to live at
the end of the term, and `LiveUntilItsTerm` shows that nothing else ends it), and each refusal of
a name was true when it was kept (`TrueWhenKept`).  And each failure of a source still stands
(`StillFails`): content said to be unavailable is not pinned, and content that failed in another
way does not fail its hash; without the second half a kept failure could hide a corrupt preferred
source, and `NoDowngrade` would not be inductive.  `FetchIs` is where the port enters: what is
pinned is held, so an outage is a missing pin, and a port with bytes that fail their hash is one that
tells (`SurfaceAssumption`; over one that did not, the branch of `proxy.ts` that ends the request
would never be reached, and the fallback would be taken).  A cache that is behind the registry
promises nothing of names: that is how `RegistryAppend` keeps `Faithful`, since the registry is
never shorter than the cache was told, and why `setGeneration` must come before a request is
served.  `ControlResolve` uses the cache without telling it, so every lemma about resolution is
stated for a cache of any generation.

The lemmas follow the code: `WithoutMap`, `TrimmedMap` and `PutMap` are about a `Map` in insertion
order, one lemma per operation of the cache shows that it stays faithful, `HopKeeps` and
`ResolveKeeps` follow the alias loop, `TrySourceKeeps` and `ServeRecordKeeps` the fallback loop.

### Content (`ContentProofs`)

* `MemoryIsBoundedHolds`: what a pull holds is within both limits and hashes to its CIDs;
* `FetchIsTrueHolds`: over whatever blocks peers answered, a fetch that succeeds gives what the
  tree says is at the path;
* `PullSufficesHolds`: after a pull that ended well no fetch finds a block missing or wrong;
* `FetchedIsPublishedHolds`: of a published site a fetch gives a file only where the site has one,
  and as it was published, whatever peers answered;
* `PublishedIsFetchedHolds`: once a published site was pulled, a fetch finds every file and nothing
  else, as long as no fetch exceeds a limit of a request (`WithinLimits`).

*The argument.*  `MemoryIsBounded` is not inductive: the limits are tested against a running total
and before a block is awaited, and the sum is over what is held.  `PullInv` closes the gap
(`WeighsInv`: until the pull fails, `weighed` is what the blocks held weigh; `AwaitsInv`: what is
awaited is not held, and there is room for it).  The sum over a set is taken in the order a
`CHOOSE` picks, so `WeightsAdd` first shows that the order does not matter.  `ClosesInv` says that
every CID met is held, awaited or queued, so when the queue is empty the blocks are closed under
links.

`FetchIsTrue` then needs no more of the state than that the root is a CID: it is a fact about
`fetchPath` over any source (`FetchGives`).  A fetch is a recursion over the levels still allowed,
and within a level over the links of a node.  `LinksGive` follows the links, `FilesGive` the
levels: what level *n* gives is what the tree means when read *n* levels deep *or deeper*, which is
the form in which the induction goes through.  `EnterIs` shows that a segment leads to the one
entry of its name, `WalkLeads` follows a path.  `PullSuffices` takes the same two inductions with
another predicate (`Blameless`) over blocks that are closed under links (`Whole`); it rests on
`childrenOf` of `blockstore.ts` naming at least the links `fetch.ts` follows (`WholeLinks`).

The last two relate what `importSite` makes of a site to what `fetchPath` reads.  `importSite` is a
recursion from a directory to those one segment below it, so `TreeExists` takes its induction from
the longest path upwards, which needs that a site is finite.  `ByNameIs` shows that sorting loses and repeats
no entry, and `NoNameTwice` that no two entries of a directory share a name, which is what keeps a
file from being hidden behind another (`DirectoryIs`).  `ChunksJoin` shows that the chunks of a
file are the file, for any size of chunk, and `TotalIs` that they are as long as its node declares.
The walk then keeps the invariant `LeadsTo`: after *i* segments it is at the directory or the file
of the first *i* segments of the path (`WalkOfSite`).  For `FetchedIsPublished` that and `FilesGive`
suffice.  For the converse, `EnterFine`, `WalkFine`, `DirectoryFine` and `FileFine` go through every
way a fetch can end and leave, of a site that is held, only success, `PATH_NOT_FOUND` where there is
no file, and `RESPONSE_TOO_LARGE`.  `WithinLimits` rules out the last: a site larger than the limits
of a request is published and not fetched.  Every site of `MCContent` that a pull can finish
satisfies it, since there `PublishedIsFetched` holds with no such hypothesis.

### Induction

The provers cannot instantiate a theorem that takes an operator, so `Induction` states induction
for a set (`SetInduction`: a set that contains 0 and successors contains every number) and for a
sequence of states related by a step (`Iteration`): a fold written as a recursive function is
shown to exist, and to keep whatever set its step keeps.  The folds of the ledger and of a batch
of records are reasoned about that way, and so are the loops of the resolver.  Where a step has no
set to keep (hashes, trees, content), each recursive function has a lemma of its own that it
exists (`GrownExists`, `FilesExists`, ...), by `SetInduction` on the set of numbers up to which it
does.

### Only model-checked

`RootsAgree` holds on the instance of `MCReplicas` and not in general: the table of departures
lists constants that refute it, so there is nothing to prove.  `Reopens`, `VerifiedIsLogged`,
`TooLargeIsNotMissing` and
`ManifestIsTrue` are refuted likewise; `VerifiedIsHeld` is what remains of the second.  `PublishedIsFetched`
without `WithinLimits` depends on the constants.  Liveness
(`FetchCompletes`, `ExchangeCompletes`, `EveryConnectionIsDecided`, `PullEnds`) is out of the
prover's reach.

## Not modelled

CBOR, names, signatures and hashing are pure functions over bytes and are abstracted.  The
byte framing of `swarm.ts` is left out of `Session`, whose channel delivers messages; CHECKPOINT
messages are in `LightClient` and not in `Session`, which they do not influence.  Of the local
surface, header and host syntax, the scan of a document, egress policy, MIME types and the
control endpoints that only read are left out; of content, the bytes of CIDs and dag-pb, the
availability report, and the block exchange codec, which nothing in this build calls.  The Rust
client is a second implementation of the rules and is not modelled; test vectors, site, scripts
and documents have no behaviour to model.

## Plan

1. *Done*: rules, store, ledger, replicas, session; the abstract registry and the proof that the
   store implements it; checkpoints and light clients; resolver, local surface and listener;
   content.
2. The deframer of `swarm.ts` against the stream of messages that `Session` assumes.
3. The Rust client's view and publish flow.
4. *Done*: proofs about the store, the ledgers, the replicas, the session, the light client, the
   listener, the local surface and content.
5. Which sites are within the limits of a request, from their sizes alone.
