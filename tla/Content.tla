------------------------------ MODULE Content ------------------------------
(***************************************************************************)
(* The pull of a published tree from a source nobody trusts, before the    *)
(* traversal runs over what was pulled (blockstore.ts).  The source is the *)
(* blockstore of a peer: for a CID it answers the right bytes, others,     *)
(* something that is not bytes, or never.                                  *)
(***************************************************************************)
EXTENDS UnixFs

CONSTANTS
  Sites,                    \* sites a publisher imports: sets of files
  Hostile,                  \* roots of trees no importer makes
  WrongBytes,               \* bytes a peer may answer in place of the right ones
  Paths,                    \* paths asked of a tree
  LimitBlocks, LimitBytes,  \* prefetch's limits.blocks and limits.totalBytes
  None

ASSUME ContentAssumption ==
  /\ \A s \in Sites :
       /\ IsFiniteSet(DOMAIN s) /\ \A path \in DOMAIN s : path \in Seq(Nat) /\ s[path] \in Seq(Nat)
       /\ Importable(s) => importSite(s) \in Cids
  /\ Hostile \subseteq Cids /\ WrongBytes \subseteq Blocks /\ None \notin Cids
  /\ \A path \in Paths : path \in Seq(Nat)
  /\ LimitBlocks \in Nat /\ LimitBytes \in Nat

VARIABLES
  site,                     \* the site published, or None for a hostile tree
  root,                     \* the CID asked for
  queue, seen, held, weighed, \* the locals of prefetch
  awaiting,                 \* the CID whose bytes are awaited, or None
  offered,                  \* every block a peer has answered, right or wrong
  status                    \* "pulling", "done", or the error prefetch threw

vars == <<site, root, queue, seen, held, weighed, awaiting, offered, status>>

Init ==
  /\ \/ \E s \in Sites : Importable(s) /\ site = s /\ root = importSite(s)
     \/ site = None /\ root \in Hostile
  /\ queue = <<root>>
  /\ seen = {}
  /\ held = <<>>
  /\ weighed = 0
  /\ awaiting = None
  /\ offered = <<>>
  /\ status = "pulling"

Throw(code) ==
  /\ status' = code
  /\ awaiting' = None
  /\ UNCHANGED <<site, root, queue, seen, held>>

\* The head of the loop: the next CID not yet seen is asked for.
Take ==
  /\ status = "pulling" /\ awaiting = None /\ queue # <<>>
  /\ LET cid == Head(queue)
     IN  /\ queue' = Tail(queue)
         /\ seen' = seen \cup {cid}
         /\ awaiting' = IF cid \in seen \/ Cardinality(DOMAIN held) >= LimitBlocks
                        THEN None ELSE cid
         /\ status' = IF cid \notin seen /\ Cardinality(DOMAIN held) >= LimitBlocks
                      THEN "RESPONSE_TOO_LARGE" ELSE status
  /\ UNCHANGED <<site, root, held, weighed, offered>>

\* Mutant: bytes are weighed once they are held, and only each block by itself.
WeighsTooMuchAlone(bytes, total) == SizeOf(bytes) > BLOCK_BYTES

WeighsTooMuch(bytes, total) == SizeOf(bytes) > BLOCK_BYTES \/ total > LimitBytes

\* The awaited bytes arrive: weighed, hashed, held, and their links queued.
Answer(bytes) ==
  LET total == IF SizeOf(bytes) > BLOCK_BYTES THEN weighed ELSE weighed + SizeOf(bytes)
  IN  /\ awaiting # None
      /\ offered' = [c \in DOMAIN offered \cup {awaiting} |->
                       IF c = awaiting THEN bytes ELSE offered[c]]
      /\ weighed' = total
      /\ \/ WeighsTooMuch(bytes, total) /\ Throw("RESPONSE_TOO_LARGE")
         \/ ~WeighsTooMuch(bytes, total) /\ ~IsCid(awaiting) /\ Throw("ContentError")
         \/ /\ ~WeighsTooMuch(bytes, total) /\ IsCid(awaiting)
            /\ bytes # awaiting.digest
            /\ Throw("CONTENT_INTEGRITY")
         \/ /\ ~WeighsTooMuch(bytes, total) /\ IsCid(awaiting)
            /\ bytes = awaiting.digest
            /\ held' = [c \in DOMAIN held \cup {awaiting} |->
                          IF c = awaiting THEN bytes ELSE held[c]]
            /\ queue' = queue \o childrenOf(awaiting, bytes)
            /\ awaiting' = None
            /\ UNCHANGED <<site, root, seen, status>>

\* blockBytes: the store answered something that is not bytes.
AnswerNotBytes ==
  /\ awaiting # None
  /\ Throw("MALFORMED_BLOCK")
  /\ UNCHANGED <<weighed, offered>>

\* Mutant: the deadline is the request's, and a first block was enough to meet it.
DeadlineOfFirst ==
  /\ awaiting # None /\ held = <<>>
  /\ Throw("CONTENT_UNAVAILABLE")
  /\ UNCHANGED <<weighed, offered>>

\* withDeadline: the timer wins the race.
Deadline ==
  /\ awaiting # None
  /\ Throw("CONTENT_UNAVAILABLE")
  /\ UNCHANGED <<weighed, offered>>

Return ==
  /\ status = "pulling" /\ awaiting = None /\ queue = <<>>
  /\ status' = "done"
  /\ UNCHANGED <<site, root, queue, seen, held, weighed, awaiting, offered>>

Next ==
  \/ Take
  \/ \E bytes \in WrongBytes : Answer(bytes)
  \/ awaiting # None /\ Answer(awaiting.digest)
  \/ AnswerNotBytes
  \/ Deadline
  \/ Return

\* The loop runs when nothing is awaited, and the event loop fires a timer that
\* is due; no peer is obliged to answer.
Spec == Init /\ [][Next]_vars /\ WF_vars(Take) /\ WF_vars(Return) /\ WF_vars(Deadline)

-----------------------------------------------------------------------------
\* What a tree says is in a file, read off the tree itself: digests are the bytes.
\* A fetch goes no further than DEPTH + 1 levels down.
Says(cid, below) ==
  IF cid.codec = "raw" THEN DataOf(cid.digest)
  ELSE FlattenSeq([i \in DOMAIN cid.digest.links |-> below[cid.digest.links[i].cid]])

Meaning(cid) ==
  LET file[levels \in 0 .. DEPTH + 1] ==
        IF levels = 0 THEN [c \in Cids |-> <<>>]
        ELSE [c \in Cids |-> Says(c, file[levels - 1])]
  IN  file[DEPTH + 1][cid]

MeaningAt(cid, path) ==
  LET at[i \in 0 .. Len(path)] ==
        IF i = 0 THEN cid
        ELSE (CHOOSE link \in ToSet(at[i - 1].digest.links) : link.name = path[i]).cid
  IN  Meaning(at[Len(path)])

\* Every file of a published site, and nothing else, is at its path once the
\* tree was pulled (unixfs.ts importSite, blockstore.ts prefetch, fetch.ts
\* fetchPath).
PublishedIsFetched ==
  (status = "done" /\ site # None) =>
    \A path \in Paths \cup DOMAIN site :
      LET got == fetchPath(held, root, path)
      IN  IF path \in DOMAIN site THEN got.code = "OK" /\ got.data = site[path]
          ELSE got.code = "PATH_NOT_FOUND"

\* Over the blocks as peers answered them, right or wrong, a fetch that succeeds
\* gives what the requested tree says is at the path (fetch.ts fetchVerified).
FetchIsTrue ==
  \A path \in Paths :
    LET got == fetchPath(offered, root, path)
    IN  got.code = "OK" => got.data = MeaningAt(root, path)

\* After a pull that ended well, the traversal lacks no block and distrusts none,
\* for any tree: what it refuses, it refuses for what the tree is
\* (blockstore.ts childrenOf against fetch.ts).
PullSuffices ==
  status = "done" =>
    \A path \in Paths :
      fetchPath(held, root, path).code \notin {"CONTENT_UNAVAILABLE", "CONTENT_INTEGRITY"}

\* What a pull keeps is bounded in blocks and in bytes at every step, whatever
\* the tree and the peers (blockstore.ts prefetch).
MemoryIsBounded ==
  /\ Cardinality(DOMAIN held) <= LimitBlocks
  /\ MapThenSumSet(LAMBDA c : SizeOf(held[c]), DOMAIN held) <= LimitBytes
  /\ \A c \in DOMAIN held : held[c] = c.digest

\* A pull ends, with the tree or with an error, even if no peer ever answers
\* (blockstore.ts withDeadline).
PullEnds == <>(status # "pulling")
=============================================================================
