--------------------------- MODULE MCLightClient ---------------------------
(***************************************************************************)
(* Two honest peers and a liar.  Records a and b register two names, a2    *)
(* updates a's; sizes make two leaves weigh as much as the third.  The     *)
(* record x is in no honest log.                                           *)
(***************************************************************************)
EXTENDS LightClient, TLC

CONSTANTS a, a2, b, x, p1, p2, Inflated

MCSizeOf == (a :> 1 @@ a2 :> 2 @@ b :> 1 @@ x :> 1)
MCNameOf == (a :> 1 @@ a2 :> 1 @@ b :> 2 @@ x :> 3)
MCPrevOf == (a :> NoPrev @@ a2 :> a @@ b :> NoPrev @@ x :> x)

MCLiarLogs == {<<x>>, <<a, x>>}

\* The liar names a length past every log, or one it may reach.
MCLiarClaims ==
  {[logLength |-> MaxLog + 1, treeRoot |-> root(treeOf(<<x>>))]} \cup
  (IF Inflated THEN {} ELSE {[logLength |-> Len(l), treeRoot |-> root(treeOf(l))] : l \in MCLiarLogs})

\* One off the interval, one with an honest history and a wrong index, and one
\* at a length no honest peer reaches.
MCLiarCheckpoints ==
  {[logLength |-> 3, treeRoot |-> root(treeOf(<<x>>)), indexRoot |-> indexRoot({x})],
   [checkpointOf(<<a, b>>) EXCEPT !.indexRoot = indexRoot({a})],
   checkpointOf(<<a, x, a2, b>>)}

Symmetry == Permutations(Peers)
=============================================================================
