------------------------------- MODULE Merkle -------------------------------
(***************************************************************************)
(* The log's Merkle tree of merkle.ts: the tree as it grows, inclusion     *)
(* proofs, and their verification by someone who does not hold the log.    *)
(*                                                                         *)
(* A hash is the term that was hashed, so two hashes are equal exactly     *)
(* when they cover the same thing; the byte length an entry contributes is *)
(* SizeOf.  Leaves are counted from 0, as in the code.                     *)
(***************************************************************************)
EXTENDS Integers, Sequences, FiniteSets

CONSTANTS Data, SizeOf

leafHash(d) == <<"leaf", SizeOf[d], d>>
parentHash(left, right) == <<"parent", left.size + right.size, left.hash, right.hash>>
treeHash(roots) == <<"root", roots>>

flatIndex(start, count) == 2 * start + count - 1

LeafNode(d, at) == [hash |-> leafHash(d), index |-> flatIndex(at, 1), size |-> SizeOf[d]]

\* The node over two nodes.
Over(left, right, index) ==
  [hash |-> parentHash(left, right), index |-> index, size |-> left.size + right.size]

-----------------------------------------------------------------------------
\* The tree as MerkleTree keeps it: the peaks and the leaves each one covers.
EmptyTree == [peaks |-> <<>>, spans |-> <<>>, length |-> 0]

Last(s) == s[Len(s)]
Front(s) == SubSeq(s, 1, Len(s) - 1)

\* Mutant: peaks are paired by the bytes they cover.
SameSpanByBytes(c) == c.spans # <<>> /\ Last(c.peaks).size = c.node.size

SameSpan(c) == c.spans # <<>> /\ Last(c.spans) = c.span

\* One round of the loop that carries a node up a tree that is now `length` long.
Carry(c, length) ==
  IF SameSpan(c)
  THEN [peaks |-> Front(c.peaks), spans |-> Front(c.spans),
        node |-> Over(Last(c.peaks), c.node, flatIndex(length - 2 * c.span, 2 * c.span)),
        span |-> 2 * c.span]
  ELSE c

\* Each round that combines takes one peak, so there are no more rounds than peaks.
append(tree, d) ==
  LET carry[k \in 0 .. Len(tree.peaks)] ==
        IF k = 0
        THEN [peaks |-> tree.peaks, spans |-> tree.spans,
              node |-> LeafNode(d, tree.length), span |-> 1]
        ELSE Carry(carry[k - 1], tree.length + 1)
      c == carry[Len(tree.peaks)]
  IN  [peaks |-> Append(c.peaks, c.node), spans |-> Append(c.spans, c.span),
       length |-> tree.length + 1]

treeOf(entries) ==
  LET grown[n \in 0 .. Len(entries)] ==
        IF n = 0 THEN EmptyTree ELSE append(grown[n - 1], entries[n])
  IN  grown[Len(entries)]

root(tree) == treeHash(tree.peaks)

-----------------------------------------------------------------------------
\* What a prover builds, from the entries alone.
subtreeRoot(entries, start, span) ==
  LET node[s \in 1 .. Len(entries)] ==
        IF s = 1 THEN [at \in Nat |-> LeafNode(entries[at + 1], at)]
        ELSE [at \in Nat |-> Over(node[s \div 2][at], node[s \div 2][at + s \div 2],
                                  flatIndex(at, s))]
  IN  node[span][start]

\* The greatest power of two that is not above n.
greatestSpan(n) ==
  LET doubled[k \in 0 .. n] ==
        IF k = 0 THEN 1
        ELSE IF 2 * doubled[k - 1] <= n THEN 2 * doubled[k - 1] ELSE doubled[k - 1]
  IN  doubled[n]

\* A log as complete subtrees, largest first.
peakSpans(length) ==
  LET from[remaining \in 0 .. length] ==
        IF remaining = 0 THEN <<>>
        ELSE <<[start |-> length - remaining, span |-> greatestSpan(remaining)]>>
               \o from[remaining - greatestSpan(remaining)]
  IN  from[length]

\* The sibling at each level, from the peak down.
Siblings(entries, leafIndex, start, span) ==
  LET below[s \in 1 .. Len(entries)] ==
        IF s = 1 THEN [lo \in Nat |-> <<>>]
        ELSE [lo \in Nat |->
                IF leafIndex >= lo + s \div 2
                THEN <<[node |-> subtreeRoot(entries, lo, s \div 2), isLeft |-> TRUE]>>
                       \o below[s \div 2][lo + s \div 2]
                ELSE <<[node |-> subtreeRoot(entries, lo + s \div 2, s \div 2), isLeft |-> FALSE]>>
                       \o below[s \div 2][lo]]
  IN  below[span][start]

proveInclusion(entries, leafIndex) ==
  LET peaks == peakSpans(Len(entries))
      covering == CHOOSE i \in DOMAIN peaks :
                    leafIndex >= peaks[i].start /\ leafIndex < peaks[i].start + peaks[i].span
  IN  [leafIndex |-> leafIndex,
       leafSize |-> SizeOf[entries[leafIndex + 1]],
       siblings |-> Siblings(entries, leafIndex, peaks[covering].start, peaks[covering].span),
       roots |-> [i \in DOMAIN peaks |-> subtreeRoot(entries, peaks[i].start, peaks[i].span)],
       rootIndex |-> covering]

-----------------------------------------------------------------------------
\* The node over a node and its sibling.
Parent(node, s) ==
  IF s.isLeft THEN Over(s.node, node, 0) ELSE Over(node, s.node, 0)

\* The fold upward: siblings are held top first and consumed from the end.
Fold(node, siblings) ==
  LET upTo[k \in 0 .. Len(siblings)] ==
        IF k = 0 THEN node ELSE Parent(upTo[k - 1], siblings[Len(siblings) + 1 - k])
  IN  upTo[Len(siblings)]

\* Mutant: only the root over the peaks is compared.
verifyInclusionOfPeaks(d, proof, expectedRoot) ==
  /\ SizeOf[d] = proof.leafSize
  /\ proof.rootIndex \in DOMAIN proof.roots
  /\ treeHash(proof.roots) = expectedRoot

verifyInclusion(d, proof, expectedRoot) ==
  /\ SizeOf[d] = proof.leafSize
  /\ proof.rootIndex \in DOMAIN proof.roots
  /\ Fold([hash |-> leafHash(d), index |-> 0, size |-> SizeOf[d]], proof.siblings).hash
       = proof.roots[proof.rootIndex].hash
  /\ treeHash(proof.roots) = expectedRoot
=============================================================================
