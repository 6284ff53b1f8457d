------------------------------- MODULE UnixFs -------------------------------
(***************************************************************************)
(* A site as a tree of blocks (content.ts, unixfs.ts) and its verified     *)
(* traversal (fetch.ts).                                                   *)
(*                                                                         *)
(* The bytes of a block are a leaf, [kind, data], or an encoded dag-pb     *)
(* node, [kind, type, links, filesize, blocksizes].  A CID is a codec and  *)
(* a digest, and the digest of bytes is the bytes: two digests are equal   *)
(* exactly when the bytes are.  Names are numbers, so that they have the   *)
(* byte order directories are sorted in; a path is a sequence of names.    *)
(***************************************************************************)
EXTENDS Integers, Sequences, SequencesExt, FiniteSetsExt

CONSTANTS
  CHUNK_BYTES,                                    \* CID_PARAMETERS.chunkBytes
  BLOCKS, DEPTH, RESOURCE_BYTES, BLOCK_BYTES, LINKS_PER_NODE,  \* FETCH_LIMITS
  NODE_BYTES,                                     \* what a node weighs beside its links
  Dots,                                           \* the names "." and ".."
  Cids                                            \* every CID that occurs, in a tree or an answer

\* What the bytes of a block may be: anything, or what decodes as a node.
Blocks ==
  [kind : {"leaf"}, data : Seq(Nat)] \cup
  [kind : {"node"}, type : {"file", "directory"}, links : Seq([name : Nat, cid : Cids]),
   filesize : Nat, blocksizes : Seq(Nat)]

ASSUME UnixFsAssumption ==
  /\ CHUNK_BYTES \in Nat \ {0}
  /\ {BLOCKS, DEPTH, RESOURCE_BYTES, BLOCK_BYTES, LINKS_PER_NODE, NODE_BYTES} \subseteq Nat
  /\ \A cid \in Cids : cid.digest \in Blocks

leaf(data) == [kind |-> "leaf", data |-> data]
encodePbNode(type, links, blocksizes) ==
  [kind |-> "node", type |-> type, links |-> links,
   filesize |-> FoldSeq(+, 0, blocksizes), blocksizes |-> blocksizes]

SizeOf(bytes) == IF bytes.kind = "leaf" THEN Len(bytes.data) ELSE NODE_BYTES + Len(bytes.links)

rawLeafCid(data) == [codec |-> "raw", digest |-> leaf(data)]
dagPbBlock(node) == [codec |-> "dag-pb", digest |-> node]
IsCid(cid) == cid.codec \in {"raw", "dag-pb"}     \* decodeCid refuses any other codec

-----------------------------------------------------------------------------
\* Import.  Mutant: the last, shorter chunk is dropped.
chunkWhole(data) ==
  IF data = <<>> THEN <<<<>>>>
  ELSE [i \in 1 .. Len(data) \div CHUNK_BYTES |->
          SubSeq(data, (i - 1) * CHUNK_BYTES + 1, i * CHUNK_BYTES)]

\* An empty file is one empty chunk.
chunk(data) ==
  IF data = <<>> THEN <<<<>>>>
  ELSE [i \in 1 .. (Len(data) + CHUNK_BYTES - 1) \div CHUNK_BYTES |->
          SubSeq(data, (i - 1) * CHUNK_BYTES + 1,
                 IF i * CHUNK_BYTES < Len(data) THEN i * CHUNK_BYTES ELSE Len(data))]

Unnamed == 0

fileBlocks(data) ==
  LET chunks == chunk(data)
  IN  IF Len(chunks) = 1 THEN rawLeafCid(chunks[1])
      ELSE dagPbBlock(encodePbNode("file",
             [i \in DOMAIN chunks |-> [name |-> Unnamed, cid |-> rawLeafCid(chunks[i])]],
             [i \in DOMAIN chunks |-> Len(chunks[i])]))

\* Entries in the order of their names, which differ.
ByName(entries) ==
  [i \in 1 .. Cardinality(entries) |->
     CHOOSE e \in entries : Cardinality({f \in entries : f.name < e.name}) = i - 1]

directoryNode(entries) == dagPbBlock(encodePbNode("directory", ByName(entries), <<>>))

\* files: every path with its content.  A directory is named by its prefix.
buildDirectory(files) ==
  LET below(at) == {p \in DOMAIN files : IsStrictPrefix(at, p)}
      name(at, p) == p[Len(at) + 1]
      directory[at \in {<<>>} \cup UNION {Prefixes(p) : p \in DOMAIN files}] ==
        directoryNode(
          {[name |-> name(at, p), cid |-> fileBlocks(files[p])] :
             p \in {p \in below(at) : Len(p) = Len(at) + 1}}
          \cup
          {[name |-> n, cid |-> directory[Append(at, n)]] :
             n \in {name(at, p) : p \in {p \in below(at) : Len(p) > Len(at) + 1}}})
  IN  directory[<<>>]

\* The paths importSite accepts: no relative segment, and no name that is both a
\* file and a directory, which directoryNode refuses as a duplicate entry.
Importable(files) ==
  \A p \in DOMAIN files :
    /\ Len(p) > 0 /\ \A i \in DOMAIN p : p[i] \notin Dots
    /\ \A q \in DOMAIN files : p # q => ~IsPrefix(p, q)

importSite(files) == buildDirectory(files)

-----------------------------------------------------------------------------
\* Decoding.  A leaf's bytes are not a node, and no bytes at all are a node
\* without a type.
NoNode == [kind |-> "node", type |-> "none", links |-> <<>>, filesize |-> 0, blocksizes |-> <<>>]

DecodeError(bytes) ==
  IF bytes.kind = "leaf" /\ bytes.data # <<>> THEN "MALFORMED_BLOCK"
  ELSE IF bytes.kind = "node" /\ Len(bytes.links) > LINKS_PER_NODE THEN "RESPONSE_TOO_LARGE"
  ELSE "OK"

decodeNode(bytes) == IF bytes.kind = "leaf" THEN NoNode ELSE bytes

\* A block's bytes as content: the encoding of a node is as long as the node weighs.
DataOf(bytes) == IF bytes.kind = "leaf" THEN bytes.data ELSE [i \in 1 .. SizeOf(bytes) |-> bytes]

\* The links a pull follows: what does not decode links to nothing.
\* Mutant: a file's chunks are not followed.
childrenOfDirectory(cid, bytes) ==
  IF cid.codec # "dag-pb" \/ DecodeError(bytes) # "OK" \/ decodeNode(bytes).type # "directory"
  THEN <<>>
  ELSE [i \in DOMAIN decodeNode(bytes).links |-> decodeNode(bytes).links[i].cid]

childrenOf(cid, bytes) ==
  IF cid.codec # "dag-pb" \/ DecodeError(bytes) # "OK" THEN <<>>
  ELSE [i \in DOMAIN decodeNode(bytes).links |-> decodeNode(bytes).links[i].cid]

-----------------------------------------------------------------------------
\* Traversal.  A request has one Budget: the blocks it has fetched and the bytes it
\* has returned.  A result carries what is spent of it.
Budgets == [blocks : Nat, bytes : Nat]
Budget == [blocks |-> 0, bytes |-> 0]

Result(code, data, budget) == [code |-> code, data |-> data, budget |-> budget]
Refused(code, budget) == Result(code, <<>>, budget)

\* Mutant: the bytes a source offers are taken for the bytes asked for.
VerifyCodeTrusting(source, cid) ==
  IF cid \notin DOMAIN source THEN "CONTENT_UNAVAILABLE"
  ELSE IF SizeOf(source[cid]) > BLOCK_BYTES THEN "RESPONSE_TOO_LARGE"
  ELSE IF ~IsCid(cid) THEN "MALFORMED_BLOCK"
  ELSE "OK"

VerifyCode(source, cid) ==
  IF cid \notin DOMAIN source THEN "CONTENT_UNAVAILABLE"
  ELSE IF SizeOf(source[cid]) > BLOCK_BYTES THEN "RESPONSE_TOO_LARGE"
  ELSE IF ~IsCid(cid) THEN "MALFORMED_BLOCK"
  ELSE IF source[cid] # cid.digest THEN "CONTENT_INTEGRITY"
  ELSE "OK"

fetchVerified(source, cid, budget) ==
  LET spent == [budget EXCEPT !.blocks = @ + 1]
  IN  Refused(IF spent.blocks > BLOCKS THEN "RESPONSE_TOO_LARGE" ELSE VerifyCode(source, cid), spent)

spendBytes(budget, data) ==
  LET spent == [budget EXCEPT !.bytes = @ + Len(data)]
  IN  IF spent.bytes > RESOURCE_BYTES THEN Refused("RESPONSE_TOO_LARGE", spent)
      ELSE Result("OK", data, spent)

\* A chunk joins those before it if it is as long as its node declares.
Join(before, part, blocksize) ==
  IF part.code # "OK" THEN part
  ELSE IF Len(part.data) # blocksize THEN Refused("MALFORMED_BLOCK", part.budget)
  ELSE Result("OK", before.data \o part.data, part.budget)

\* The chunks of a file node in order; fetch gives the file at each CID, one level down.
FetchLinks(node, fetch, got) ==
  LET parts[i \in 0 .. Len(node.links)] ==
        IF i = 0 THEN got
        ELSE LET before == parts[i - 1]
             IN  IF before.code # "OK" THEN before
                 ELSE Join(before, fetch[node.links[i].cid][before.budget], node.blocksizes[i])
  IN  parts[Len(node.links)]

FileAt(source, cid, fetch, budget) ==
  LET got == fetchVerified(source, cid, budget)
      bytes == source[cid]
      node == decodeNode(bytes)
      whole == FetchLinks(node, fetch, got)
  IN  IF got.code # "OK" THEN got
      ELSE IF cid.codec = "raw" THEN spendBytes(got.budget, DataOf(bytes))
      ELSE IF DecodeError(bytes) # "OK" THEN Refused(DecodeError(bytes), got.budget)
      ELSE IF node.type = "directory" THEN Refused("PATH_NOT_FOUND", got.budget)
      ELSE IF node.type # "file" \/ Len(node.blocksizes) # Len(node.links)
      THEN Refused("MALFORMED_BLOCK", got.budget)
      ELSE IF whole.code = "OK" /\ Len(whole.data) # node.filesize
      THEN Refused("MALFORMED_BLOCK", whole.budget)
      ELSE whole

TooDeep == [cid \in Cids |-> [budget \in Budgets |-> Refused("RESPONSE_TOO_LARGE", budget)]]

\* Levels are counted from the deepest a request may reach.
fetchFile(source, cid, depth, budget) ==
  LET file[levels \in 0 .. DEPTH + 1] ==
        IF levels = 0 THEN TooDeep
        ELSE [c \in Cids |-> [b \in Budgets |-> FileAt(source, c, file[levels - 1], b)]]
  IN  IF depth > DEPTH THEN Refused("RESPONSE_TOO_LARGE", budget)
      ELSE file[DEPTH + 1 - depth][cid][budget]

\* One segment of a path: from a directory to its one entry of that name.
Enter(source, at, segment, index) ==
  LET got == fetchVerified(source, at.cid, at.budget)
      bytes == source[at.cid]
      links == decodeNode(bytes).links
      matches == {j \in DOMAIN links : links[j].name = segment}
      stop(code, budget) == [at EXCEPT !.code = code, !.budget = budget]
  IN  IF at.code # "OK" THEN at
      ELSE IF index > DEPTH THEN stop("RESPONSE_TOO_LARGE", at.budget)
      ELSE IF got.code # "OK" THEN stop(got.code, got.budget)
      ELSE IF at.cid.codec # "dag-pb" THEN stop("PATH_NOT_FOUND", got.budget)
      ELSE IF DecodeError(bytes) # "OK" THEN stop(DecodeError(bytes), got.budget)
      ELSE IF decodeNode(bytes).type # "directory" \/ matches = {}
      THEN stop("PATH_NOT_FOUND", got.budget)
      ELSE IF Cardinality(matches) > 1 THEN stop("MALFORMED_BLOCK", got.budget)
      ELSE [cid |-> links[CHOOSE j \in matches : TRUE].cid, code |-> "OK", budget |-> got.budget]

fetchPath(source, root, path) ==
  LET at[i \in 0 .. Len(path)] ==
        IF i = 0 THEN [cid |-> root, code |-> "OK", budget |-> Budget]
        ELSE Enter(source, at[i - 1], path[i], i - 1)
      end == at[Len(path)]
  IN  IF \E i \in DOMAIN path : path[i] \in Dots THEN Refused("PATH_NOT_FOUND", Budget)
      ELSE IF end.code # "OK" THEN Refused(end.code, end.budget)
      ELSE fetchFile(source, end.cid, Len(path), end.budget)
=============================================================================
