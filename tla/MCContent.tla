----------------------------- MODULE MCContent -----------------------------
(***************************************************************************)
(* Small sites, and the trees an importer never makes: a node that links   *)
(* to one child again and again, sizes that lie, a name twice, a chain     *)
(* past the depth, leaves too large alone or together, too many links, a   *)
(* codec nobody addresses content with, bytes that are not a node, and a   *)
(* node's bytes addressed as content.                                      *)
(***************************************************************************)
EXTENDS Content, TLC

\* Every site over these paths and contents, and one three directories deep.
SitePaths == {<<1>>, <<2>>, <<2, 1>>, <<2, 3>>}
Contents == {<<>>, <<7>>, <<7, 8, 9>>}
MCSites ==
  UNION {[ps -> Contents] : ps \in SUBSET SitePaths} \cup
  {(<<1>> :> <<7, 8>>) @@ (<<2>> :> <<7, 8>>) @@ (<<3, 3, 3>> :> <<9, 9, 9, 9>>)}

Chunk(cid) == [name |-> Unnamed, cid |-> cid]
Entry(n, cid) == [name |-> n, cid |-> cid]
Twice(cid, size) == dagPbBlock(encodePbNode("file", <<Chunk(cid), Chunk(cid)>>, <<size, size>>))
Once(cid) == dagPbBlock(encodePbNode("file", <<Chunk(cid)>>, <<1>>))
Directory(links) == dagPbBlock(encodePbNode("directory", links, <<>>))
One == rawLeafCid(<<7>>)

MCHostile ==
  {Directory(<<Entry(1, Twice(Twice(One, 1), 2)), Entry(2, Twice(Twice(Twice(One, 1), 2), 4))>>),
   Directory(<<Entry(1, Twice(One, 2)), Entry(2, Once(Twice(One, 1)))>>),
   Directory(<<Entry(1, One), Entry(1, rawLeafCid(<<8>>)), Entry(2, One)>>),
   Directory(<<Entry(1, Once(Once(Once(Once(One)))))>>),
   Directory(<<Entry(1, rawLeafCid(<<1, 2, 3, 4, 5, 6, 7>>))>>),
   Directory([i \in 1..4 |-> Entry(i, rawLeafCid(<<i, i, i, i, i, i>>))]),
   Directory([i \in 1..5 |-> Entry(i, rawLeafCid(<<i>>))]),
   Directory(<<Entry(1, [One EXCEPT !.codec = "dag-json"])>>),
   Directory(<<Entry(1, [One EXCEPT !.codec = "dag-pb"]),
               Entry(2, [rawLeafCid(<<>>) EXCEPT !.codec = "dag-pb"]),
               Entry(3, [Once(One) EXCEPT !.codec = "raw"])>>)}

\* A forged leaf, a forged directory and a block too large to look at.
MCWrongBytes ==
  {leaf(<<6>>), Directory(<<Entry(1, rawLeafCid(<<6>>))>>).digest, leaf(<<6, 6, 6, 6, 6, 6, 6>>)}

MCRoots == {importSite(s) : s \in {s \in MCSites : Importable(s)}} \cup MCHostile

\* Everything the trees and the forged blocks link to, as deep as they go.
LinkedFrom(bytes) == IF bytes.kind = "leaf" THEN {} ELSE {link.cid : link \in ToSet(bytes.links)}
WithLinks(cids) == cids \cup UNION {LinkedFrom(cid.digest) : cid \in cids}
MCCids ==
  WithLinks(WithLinks(WithLinks(WithLinks(WithLinks(
    MCRoots \cup UNION {LinkedFrom(bytes) : bytes \in MCWrongBytes})))))

MCPaths == {<<>>, <<1>>, <<2>>, <<2, 1>>, <<2, 3>>, <<3>>, <<1, 1>>, <<3, 3, 3>>, <<9>>, <<9, 1>>}
=============================================================================
