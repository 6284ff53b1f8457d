--------------------------- MODULE ContentProofs ---------------------------
(***************************************************************************)
(* Proofs about Content, for any trees, peers, limits and answers: a pull  *)
(* never holds more than its limits and holds only what hashes to its CID, *)
(* a fetch that succeeds gives what the tree says is at the path, a pull   *)
(* that ended well lacks nothing a fetch would ask for, and of a published *)
(* site a fetch gives the files it was made of and nothing else.           *)
(***************************************************************************)
EXTENDS Content, Induction, FiniteSetTheorems, SequenceTheorems

-----------------------------------------------------------------------------
(***************************************************************************)
(* What the blocks of a set weigh together.                                *)
(***************************************************************************)

Pick(s) == CHOOSE x \in s : TRUE

\* What the blocks h gives the CIDs of S weigh.
Weight(h, S) == MapThenSumSet(LAMBDA c : SizeOf(h[c]), S)

\* g is that weight for each of the sets in D.
IsWeights(g, h, D) ==
  g = [s \in D |-> IF s = {} THEN 0 ELSE SizeOf(h[Pick(s)]) + g[s \ {Pick(s)}]]

\* A set that is not empty and the one without the element picked from it.
LEMMA Picked ==
  ASSUME NEW S, IsFiniteSet(S), S # {}
  PROVE  /\ Pick(S) \in S /\ IsFiniteSet(S \ {Pick(S)})
         /\ Cardinality(S) \in Nat \ {0} /\ Cardinality(S \ {Pick(S)}) = Cardinality(S) - 1
<1>1. Pick(S) \in S
  BY DEF Pick
<1>2. IsFiniteSet(S \ {Pick(S)}) /\ Cardinality(S \ {Pick(S)}) = Cardinality(S) - 1
  BY <1>1, FS_RemoveElement
<1>3. Cardinality(S) \in Nat /\ Cardinality(S) # 0
  BY FS_CardinalityType, FS_EmptySet
<1> QED BY <1>1, <1>2, <1>3

\* The recursion over the subsets of a finite set is well founded.
LEMMA WeightsExist ==
  ASSUME NEW h, NEW S, IsFiniteSet(S)
  PROVE  \E g : IsWeights(g, h, SUBSET S)
<1> DEFINE Small(n) == {s \in SUBSET S : Cardinality(s) <= n}
           T == {n \in Nat : \E g : IsWeights(g, h, Small(n))}
           Step(s, x) == SizeOf(h[Pick(s)]) + x
<1>1. \A s \in SUBSET S : IsFiniteSet(s) /\ Cardinality(s) \in Nat /\ Cardinality(s) <= Cardinality(S)
  BY FS_Subset, FS_CardinalityType
<1>2. \A s \in SUBSET S : Cardinality(s) = 0 <=> s = {}
  BY <1>1, FS_EmptySet
<1>3. 0 \in T
  <2> DEFINE g == [s \in Small(0) |-> 0]
  <2>1. \A s \in Small(0) : s = {}
    BY <1>1, <1>2
  <2>2. IsWeights(g, h, Small(0))
    BY <2>1 DEF IsWeights
  <2> QED BY <2>2
<1>4. ASSUME NEW n \in T PROVE n + 1 \in T
  <2>1. PICK g : IsWeights(g, h, Small(n))
    OBVIOUS
  <2> DEFINE f == [s \in Small(n + 1) |->
                     IF s \in Small(n) THEN g[s] ELSE Step(s, g[s \ {Pick(s)}])]
  <2>2. \A s \in Small(n) : g[s] = IF s = {} THEN 0 ELSE Step(s, g[s \ {Pick(s)}])
    BY <2>1 DEF IsWeights
  <2> HIDE DEF Step
  <2>3. ASSUME NEW s \in Small(n + 1)
        PROVE  f[s] = IF s = {} THEN 0 ELSE Step(s, f[s \ {Pick(s)}])
    <3>1. ASSUME s # {}
          PROVE  s \ {Pick(s)} \in Small(n) /\ s \ {Pick(s)} \in Small(n + 1)
      <4>1. /\ Cardinality(s \ {Pick(s)}) = Cardinality(s) - 1 /\ Cardinality(s) \in Nat
            /\ Cardinality(s) <= n + 1
        BY <1>1, <3>1, Picked
      <4>2. s \ {Pick(s)} \in SUBSET S
        OBVIOUS
      <4> QED BY <4>1, <4>2
    <3>2. s # {} => f[s \ {Pick(s)}] = g[s \ {Pick(s)}]
      BY <3>1
    <3>3. CASE s \in Small(n)
      <4>1. f[s] = g[s]
        BY <3>3
      <4> HIDE DEF f, Small
      <4> QED BY <2>2, <3>2, <3>3, <4>1
    <3>4. CASE s \notin Small(n)
      <4>1. s # {}
        BY <1>2, <3>4
      <4>2. f[s] = Step(s, g[s \ {Pick(s)}])
        BY <3>4
      <4> HIDE DEF f, Small
      <4> QED BY <3>2, <4>1, <4>2
    <3> QED BY <3>3, <3>4
  <2>4. f = [s \in Small(n + 1) |-> f[s]]
    OBVIOUS
  <2> HIDE DEF f, Small
  <2>5. f = [s \in Small(n + 1) |-> IF s = {} THEN 0 ELSE Step(s, f[s \ {Pick(s)}])]
    BY <2>3, <2>4
  <2>6. IsWeights(f, h, Small(n + 1))
    BY <2>5 DEF IsWeights, Step
  <2> QED BY <2>6
<1>5. T = Nat
  <2>1. T \in SUBSET Nat
    OBVIOUS
  <2> HIDE DEF T
  <2> QED BY <1>3, <1>4, <2>1, SetInduction
<1>6. Cardinality(S) \in Nat /\ Small(Cardinality(S)) = SUBSET S
  BY <1>1, FS_CardinalityType
<1>7. \E g : IsWeights(g, h, Small(Cardinality(S)))
  <2> HIDE DEF Small
  <2> QED BY <1>5, <1>6
<1> HIDE DEF Small
<1> QED BY <1>6, <1>7

\* A weight does not depend on the order in which blocks are weighed.
LEMMA WeightsAdd ==
  ASSUME NEW h, NEW S, IsFiniteSet(S), \A c \in S : SizeOf(h[c]) \in Nat,
         NEW g, IsWeights(g, h, SUBSET S)
  PROVE  \A s \in SUBSET S : g[s] \in Nat /\ \A x \in s : g[s] = SizeOf(h[x]) + g[s \ {x}]
<1> DEFINE W(c) == SizeOf(h[c])
           Good(s) == g[s] \in Nat /\ \A x \in s : g[s] = W(x) + g[s \ {x}]
           T == {n \in Nat : \A s \in SUBSET S : Cardinality(s) <= n => Good(s)}
<1>1. \A s \in SUBSET S : IsFiniteSet(s) /\ Cardinality(s) \in Nat
  BY FS_Subset, FS_CardinalityType
<1>2. \A s \in SUBSET S : g[s] = IF s = {} THEN 0 ELSE W(Pick(s)) + g[s \ {Pick(s)}]
  BY DEF IsWeights
<1>3. \A c \in S : W(c) \in Nat
  OBVIOUS
<1> HIDE DEF W
<1>4. 0 \in T
  <2> SUFFICES ASSUME NEW s \in SUBSET S, Cardinality(s) <= 0 PROVE Good(s)
    OBVIOUS
  <2>1. s = {}
    BY <1>1, FS_EmptySet
  <2>2. g[s] = 0
    BY <1>2, <2>1
  <2> QED BY <2>1, <2>2
<1>5. ASSUME NEW n \in T PROVE n + 1 \in T
  <2> SUFFICES ASSUME NEW s \in SUBSET S, Cardinality(s) <= n + 1 PROVE Good(s)
    OBVIOUS
  <2>1. n \in Nat /\ \A q \in SUBSET S : Cardinality(q) <= n => Good(q)
    OBVIOUS
  <2>2. CASE s = {}
    BY <1>2, <2>2
  <2>3. CASE s # {}
    <3> DEFINE y == Pick(s)
    <3>1. y \in s /\ g[s] = W(y) + g[s \ {y}]
      BY <1>1, <1>2, <2>3, Picked
    <3> HIDE DEF y, Good
    <3>2. ASSUME NEW x \in s PROVE s \ {x} \in SUBSET S /\ Cardinality(s \ {x}) <= n
      <4>1. Cardinality(s \ {x}) = Cardinality(s) - 1 /\ Cardinality(s) \in Nat
        BY <1>1, FS_RemoveElement
      <4> QED BY <2>1, <4>1
    <3>3. \A x \in s : Good(s \ {x})
      BY <2>1, <3>2
    <3>4. g[s] \in Nat
      <4>1. g[s \ {y}] \in Nat /\ W(y) \in Nat
        BY <1>3, <3>1, <3>3 DEF Good
      <4> QED BY <3>1, <4>1
    <3>5. ASSUME NEW x \in s PROVE g[s] = W(x) + g[s \ {x}]
      <4>1. CASE x = y
        BY <3>1, <4>1
      <4>2. CASE x # y
        <5> DEFINE r == (s \ {y}) \ {x}
        <5>1. x \in s \ {y} /\ y \in s \ {x} /\ (s \ {x}) \ {y} = r /\ r \in SUBSET S
          BY <3>1, <4>2
        <5>2. Cardinality(r) <= n
          <6>1. IsFiniteSet(s \ {y}) /\ Cardinality(s \ {y}) <= n /\ Cardinality(s \ {y}) \in Nat
            BY <1>1, <3>1, <3>2
          <6>2. Cardinality(r) = Cardinality(s \ {y}) - 1
            BY <5>1, <6>1, FS_RemoveElement
          <6> HIDE DEF r
          <6> QED BY <2>1, <6>1, <6>2
        <5> HIDE DEF r
        <5>3. g[r] \in Nat
          BY <2>1, <5>1, <5>2 DEF Good
        <5>4. g[s \ {y}] = W(x) + g[r]
          BY <3>1, <3>3, <5>1 DEF Good, r
        <5>5. g[s \ {x}] = W(y) + g[r]
          BY <3>3, <5>1 DEF Good
        <5>6. W(x) \in Nat /\ W(y) \in Nat
          BY <1>3, <3>1
        <5> QED BY <3>1, <5>3, <5>4, <5>5, <5>6
      <4> QED BY <4>1, <4>2
    <3> QED BY <3>4, <3>5 DEF Good
  <2> QED BY <2>2, <2>3
<1>6. T = Nat
  <2>1. T \in SUBSET Nat
    OBVIOUS
  <2> HIDE DEF T
  <2> QED BY <1>4, <1>5, <2>1, SetInduction
<1>7. ASSUME NEW s \in SUBSET S PROVE Good(s)
  <2>1. Cardinality(s) \in T
    <3> HIDE DEF T
    <3> QED BY <1>1, <1>6
  <2>2. Cardinality(s) <= Cardinality(s)
    BY <1>1
  <2> QED BY <2>1, <2>2
<1> QED BY <1>7 DEF W

\* What is weighed depends only on the blocks weighed.
LEMMA WeightsSame ==
  ASSUME NEW h, NEW S, IsFiniteSet(S), NEW j, NEW R, R \subseteq S,
         \A c \in R : h[c] = j[c],
         NEW g, IsWeights(g, h, SUBSET S), NEW f, IsWeights(f, j, SUBSET R)
  PROVE  g[R] = f[R]
<1> DEFINE T == {n \in Nat : \A s \in SUBSET R : Cardinality(s) <= n => g[s] = f[s]}
<1>1. \A s \in SUBSET R : IsFiniteSet(s) /\ Cardinality(s) \in Nat /\ s \in SUBSET S
  BY FS_Subset, FS_CardinalityType
<1>2. \A s \in SUBSET R : g[s] = IF s = {} THEN 0 ELSE SizeOf(h[Pick(s)]) + g[s \ {Pick(s)}]
  BY <1>1 DEF IsWeights
<1>3. \A s \in SUBSET R : f[s] = IF s = {} THEN 0 ELSE SizeOf(j[Pick(s)]) + f[s \ {Pick(s)}]
  BY DEF IsWeights
<1>4. 0 \in T
  <2> SUFFICES ASSUME NEW s \in SUBSET R, Cardinality(s) <= 0 PROVE g[s] = f[s]
    OBVIOUS
  <2>1. s = {}
    BY <1>1, FS_EmptySet
  <2> QED BY <1>2, <1>3, <2>1
<1>5. ASSUME NEW n \in T PROVE n + 1 \in T
  <2> SUFFICES ASSUME NEW s \in SUBSET R, Cardinality(s) <= n + 1 PROVE g[s] = f[s]
    OBVIOUS
  <2>1. n \in Nat /\ \A q \in SUBSET R : Cardinality(q) <= n => g[q] = f[q]
    OBVIOUS
  <2>2. CASE s = {}
    BY <1>2, <1>3, <2>2
  <2>3. CASE s # {}
    <3> DEFINE y == Pick(s)
    <3>1. /\ y \in s /\ Cardinality(s \ {y}) = Cardinality(s) - 1 /\ Cardinality(s) \in Nat
          /\ s \ {y} \in SUBSET R
      BY <1>1, <2>3, Picked
    <3>2. g[s] = SizeOf(h[y]) + g[s \ {y}] /\ f[s] = SizeOf(j[y]) + f[s \ {y}]
      BY <1>2, <1>3, <2>3
    <3> HIDE DEF y
    <3>3. Cardinality(s \ {y}) <= n
      BY <2>1, <3>1
    <3>4. g[s \ {y}] = f[s \ {y}]
      BY <2>1, <3>1, <3>3
    <3>5. h[y] = j[y]
      BY <3>1
    <3> QED BY <3>2, <3>4, <3>5
  <2> QED BY <2>2, <2>3
<1>6. T = Nat
  <2>1. T \in SUBSET Nat
    OBVIOUS
  <2> HIDE DEF T
  <2> QED BY <1>4, <1>5, <2>1, SetInduction
<1>7. Cardinality(R) \in T /\ Cardinality(R) <= Cardinality(R)
  <2>1. Cardinality(R) \in Nat
    BY <1>1
  <2> HIDE DEF T
  <2> QED BY <1>6, <2>1
<1> QED BY <1>7

\* The weight of one block more.
LEMMA WeightAdds ==
  ASSUME NEW h, NEW S, IsFiniteSet(S), \A c \in S : SizeOf(h[c]) \in Nat,
         NEW j, NEW x, x \notin S, \A c \in S : j[c] = h[c], SizeOf(j[x]) \in Nat,
         NEW R, x \in R, S \subseteq R, R \subseteq S \cup {x}
  PROVE  Weight(h, S) \in Nat /\ Weight(j, R) = Weight(h, S) + SizeOf(j[x])
<1> DEFINE f == CHOOSE g : IsWeights(g, h, SUBSET S)
           k == CHOOSE g : IsWeights(g, j, SUBSET R)
<1>1. IsFiniteSet(R)
  <2>1. R = S \cup {x}
    OBVIOUS
  <2> QED BY <2>1, FS_AddElement
<1>2. IsWeights(f, h, SUBSET S) /\ IsWeights(k, j, SUBSET R)
  <2>1. IsWeights(f, h, SUBSET S)
    BY WeightsExist
  <2>2. IsWeights(k, j, SUBSET R)
    BY <1>1, WeightsExist
  <2> QED BY <2>1, <2>2
<1>3. Weight(h, S) = f[S]
  BY DEF Weight, MapThenSumSet, MapThenFoldSet, IsWeights, Pick
<1>4. Weight(j, R) = k[R]
  BY DEF Weight, MapThenSumSet, MapThenFoldSet, IsWeights, Pick
<1> HIDE DEF f, k
<1>5. f[S] \in Nat
  BY <1>2, WeightsAdd
<1>6. \A c \in R : SizeOf(j[c]) \in Nat
  <2>1. \A c \in S : SizeOf(j[c]) \in Nat
    <3> TAKE c \in S
    <3>1. j[c] = h[c] /\ SizeOf(h[c]) \in Nat
      OBVIOUS
    <3> QED BY <3>1
  <2> QED BY <2>1
<1>7. k[R] = SizeOf(j[x]) + k[R \ {x}] /\ R \ {x} = S
  <2>1. x \in R /\ R \in SUBSET R /\ R \ {x} = S
    OBVIOUS
  <2> QED BY <1>1, <1>2, <1>6, <2>1, WeightsAdd
<1>8. k[S] = f[S]
  <2>1. S \subseteq R /\ \A c \in S : j[c] = h[c]
    OBVIOUS
  <2> QED BY <1>1, <1>2, <2>1, WeightsSame
<1>9. k[R] = f[S] + SizeOf(j[x])
  <2> DEFINE w == SizeOf(j[x])
  <2>1. w \in Nat /\ k[R] = w + f[S]
    BY <1>7, <1>8
  <2> HIDE DEF w
  <2>2. k[R] = f[S] + w
    BY <1>5, <2>1
  <2> QED BY <2>2 DEF w
<1> QED BY <1>3, <1>4, <1>5, <1>9

\* Nothing weighs nothing.
LEMMA WeightNone ==
  ASSUME NEW h
  PROVE  Weight(h, {}) = 0
<1> DEFINE f == CHOOSE g : IsWeights(g, h, SUBSET {})
<1>1. IsWeights(f, h, SUBSET {})
  BY WeightsExist, FS_EmptySet
<1>2. Weight(h, {}) = f[{}]
  BY DEF Weight, MapThenSumSet, MapThenFoldSet, IsWeights, Pick
<1> HIDE DEF f
<1> QED BY <1>1, <1>2 DEF IsWeights

-----------------------------------------------------------------------------
(***************************************************************************)
(* Blocks and the links between them.                                      *)
(***************************************************************************)

\* A block has a size.
LEMMA SizeType ==
  ASSUME NEW bytes \in Blocks
  PROVE  SizeOf(bytes) \in Nat
<1>1. NODE_BYTES \in Nat
  BY UnixFsAssumption
<1>2. CASE bytes.kind = "leaf"
  BY <1>2 DEF SizeOf, Blocks
<1>3. CASE bytes.kind # "leaf"
  <2>1. bytes.links \in Seq([name : Nat, cid : Cids])
    BY <1>3 DEF Blocks
  <2>2. Len(bytes.links) \in Nat
    BY <2>1
  <2> QED BY <1>1, <1>3, <2>2 DEF SizeOf
<1> QED BY <1>2, <1>3

\* What a pull queues for a block are CIDs.
LEMMA ChildrenType ==
  ASSUME NEW c \in Cids
  PROVE  childrenOf(c, c.digest) \in Seq(Cids)
<1>1. c.digest \in Blocks
  BY UnixFsAssumption
<1>2. decodeNode(c.digest).links \in Seq([name : Nat, cid : Cids])
  <2>1. CASE c.digest.kind = "leaf"
    BY <2>1 DEF decodeNode, NoNode
  <2>2. CASE c.digest.kind # "leaf"
    BY <1>1, <2>2 DEF decodeNode, Blocks
  <2> QED BY <2>1, <2>2
<1> DEFINE links == decodeNode(c.digest).links
<1>3. [i \in DOMAIN links |-> links[i].cid] \in Seq(Cids)
  <2> HIDE DEF links
  <2> DEFINE Links == [name : Nat, cid : Cids]
  <2>1. links \in Seq(Links)
    BY <1>2 DEF links
  <2> HIDE DEF Links
  <2>2. DOMAIN links = 1 .. Len(links) /\ Len(links) \in Nat
    BY <2>1
  <2>3. ASSUME NEW i \in DOMAIN links PROVE links[i].cid \in Cids
    <3>1. links[i] \in Links
      BY <2>1
    <3> QED BY <3>1 DEF Links
  <2> QED BY <2>2, <2>3
<1> QED BY <1>3 DEF childrenOf

\* The elements of a queue.
LEMMA QueueHead ==
  ASSUME NEW s \in Seq(Cids), s # <<>>
  PROVE  Head(s) \in Cids /\ Tail(s) \in Seq(Cids) /\ ToSet(s) = {Head(s)} \cup ToSet(Tail(s))
<1>1. /\ Len(s) \in Nat \ {0} /\ DOMAIN s = 1 .. Len(s) /\ Head(s) = s[1]
      /\ Len(Tail(s)) = Len(s) - 1 /\ DOMAIN Tail(s) = 1 .. (Len(s) - 1)
      /\ \A i \in 1 .. (Len(s) - 1) : Tail(s)[i] = s[i + 1]
  OBVIOUS
<1>2. Head(s) \in Cids /\ Tail(s) \in Seq(Cids)
  OBVIOUS
<1>3. ToSet(s) \subseteq {Head(s)} \cup ToSet(Tail(s))
  <2> SUFFICES ASSUME NEW i \in 1 .. Len(s), i # 1 PROVE s[i] \in ToSet(Tail(s))
    BY <1>1 DEF ToSet
  <2>1. i - 1 \in 1 .. (Len(s) - 1) /\ (i - 1) + 1 = i
    BY <1>1
  <2>2. Tail(s)[i - 1] = s[i]
    BY <1>1, <2>1
  <2> QED BY <1>1, <2>1, <2>2 DEF ToSet
<1>4. {Head(s)} \cup ToSet(Tail(s)) \subseteq ToSet(s)
  <2>1. Head(s) \in ToSet(s)
    BY <1>1 DEF ToSet
  <2>2. ASSUME NEW i \in 1 .. (Len(s) - 1) PROVE Tail(s)[i] \in ToSet(s)
    <3>1. i + 1 \in 1 .. Len(s)
      BY <1>1
    <3> QED BY <1>1, <3>1 DEF ToSet
  <2> QED BY <1>1, <2>1, <2>2 DEF ToSet
<1> QED BY <1>2, <1>3, <1>4

\* The elements of two queues joined.
LEMMA QueueJoin ==
  ASSUME NEW s \in Seq(Cids), NEW t \in Seq(Cids)
  PROVE  s \o t \in Seq(Cids) /\ ToSet(s \o t) = ToSet(s) \cup ToSet(t)
<1>1. /\ s \o t \in Seq(Cids) /\ DOMAIN (s \o t) = 1 .. (Len(s) + Len(t))
      /\ Len(s) \in Nat /\ Len(t) \in Nat /\ DOMAIN s = 1 .. Len(s) /\ DOMAIN t = 1 .. Len(t)
      /\ \A i \in 1 .. (Len(s) + Len(t)) :
           (s \o t)[i] = IF i <= Len(s) THEN s[i] ELSE t[i - Len(s)]
  OBVIOUS
<1>2. ASSUME NEW i \in 1 .. (Len(s) + Len(t)) PROVE (s \o t)[i] \in ToSet(s) \cup ToSet(t)
  <2>1. CASE i <= Len(s)
    BY <1>1, <2>1 DEF ToSet
  <2>2. CASE ~(i <= Len(s))
    <3>1. i - Len(s) \in 1 .. Len(t)
      BY <1>1, <2>2
    <3> QED BY <1>1, <2>2, <3>1 DEF ToSet
  <2> QED BY <2>1, <2>2
<1>3. ASSUME NEW i \in 1 .. Len(s) PROVE s[i] \in ToSet(s \o t)
  <2>1. i \in 1 .. (Len(s) + Len(t)) /\ i <= Len(s)
    BY <1>1
  <2> QED BY <1>1, <2>1 DEF ToSet
<1>4. ASSUME NEW i \in 1 .. Len(t) PROVE t[i] \in ToSet(s \o t)
  <2>1. /\ Len(s) + i \in 1 .. (Len(s) + Len(t)) /\ ~(Len(s) + i <= Len(s))
        /\ (Len(s) + i) - Len(s) = i
    BY <1>1
  <2>2. (s \o t)[Len(s) + i] = t[i]
    BY <1>1, <2>1
  <2> QED BY <1>1, <2>1, <2>2 DEF ToSet
<1>5. ToSet(s \o t) \subseteq ToSet(s) \cup ToSet(t)
  BY <1>1, <1>2 DEF ToSet
<1>6. ToSet(s) \subseteq ToSet(s \o t) /\ ToSet(t) \subseteq ToSet(s \o t)
  BY <1>1, <1>3, <1>4 DEF ToSet
<1> QED BY <1>1, <1>5, <1>6

-----------------------------------------------------------------------------
(***************************************************************************)
(* The pull.                                                               *)
(***************************************************************************)

\* The CIDs a block links to.
Kids(c) == ToSet(childrenOf(c, c.digest))

PullTypeOK ==
  /\ root \in Cids /\ queue \in Seq(Cids) /\ seen \subseteq Cids
  /\ DOMAIN held \subseteq seen /\ IsFiniteSet(DOMAIN held)
  /\ awaiting \in Cids \cup {None} /\ weighed \in Nat

\* What is awaited was not held, and there is room for it.
AwaitsInv ==
  awaiting # None =>
    /\ status = "pulling" /\ awaiting \notin DOMAIN held
    /\ Cardinality(DOMAIN held) < LimitBlocks

\* Until a pull fails, weighed is what the blocks held weigh.
WeighsInv ==
  /\ Cardinality(DOMAIN held) <= LimitBlocks
  /\ Weight(held, DOMAIN held) <= LimitBytes
  /\ status = "pulling" => weighed = Weight(held, DOMAIN held)

HoldsInv ==
  \A c \in DOMAIN held : held[c] = c.digest /\ IsCid(c) /\ SizeOf(held[c]) <= BLOCK_BYTES

\* Until a pull fails, every CID it met is held, awaited or queued, and all are
\* held once it is done.
ClosesInv ==
  /\ status = "pulling" =>
       /\ seen = DOMAIN held \cup ({awaiting} \ {None})
       /\ {root} \cup UNION {Kids(c) : c \in DOMAIN held} \subseteq seen \cup ToSet(queue)
  /\ status = "done" => {root} \cup UNION {Kids(c) : c \in DOMAIN held} \subseteq DOMAIN held

PullInv == PullTypeOK /\ AwaitsInv /\ WeighsInv /\ HoldsInv /\ ClosesInv

\* Before the pull nothing is held and the root is queued.
LEMMA PullInit ==
  ASSUME Init
  PROVE  PullInv
<1> USE DEF Init
<1>1. root \in Cids
  BY ContentAssumption
<1>2. queue \in Seq(Cids) /\ ToSet(queue) = {root}
  <2>1. queue = <<root>>
    OBVIOUS
  <2>2. DOMAIN queue = {1} /\ queue[1] = root
    BY <2>1
  <2> QED BY <1>1, <2>1, <2>2 DEF ToSet
<1>3. DOMAIN held = {} /\ IsFiniteSet({}) /\ Cardinality({}) = 0
  BY FS_EmptySet
<1>4. Weight(held, DOMAIN held) = 0
  BY <1>3, WeightNone
<1>5. LimitBlocks \in Nat /\ LimitBytes \in Nat
  BY ContentAssumption
<1>6. PullTypeOK
  BY <1>1, <1>2, <1>3 DEF PullTypeOK
<1>7. AwaitsInv /\ HoldsInv /\ ClosesInv
  BY <1>2, <1>3 DEF AwaitsInv, HoldsInv, ClosesInv
<1>8. WeighsInv
  BY <1>3, <1>4, <1>5 DEF WeighsInv
<1> QED BY <1>6, <1>7, <1>8 DEF PullInv

\* A pull that throws keeps what it held, and no more.
LEMMA ThrowKeeps ==
  ASSUME PullInv, NEW code, Throw(code), code \notin {"pulling", "done"}, weighed' \in Nat
  PROVE  PullInv'
<1> USE DEF Throw
<1>1. PullTypeOK'
  BY DEF PullInv, PullTypeOK
<1>2. AwaitsInv' /\ HoldsInv' /\ ClosesInv'
  BY DEF PullInv, AwaitsInv, HoldsInv, ClosesInv
<1>3. WeighsInv'
  BY DEF PullInv, WeighsInv
<1> QED BY <1>1, <1>2, <1>3 DEF PullInv

\* A CID is taken from the queue: it was met before, or there is room for it.
LEMMA TakeKeeps ==
  ASSUME PullInv, Take
  PROVE  PullInv'
<1> DEFINE cid == Head(queue)
<1>1. /\ PullTypeOK /\ AwaitsInv /\ WeighsInv /\ HoldsInv /\ ClosesInv
      /\ status = "pulling" /\ awaiting = None /\ held' = held /\ weighed' = weighed
      /\ root' = root /\ queue' = Tail(queue) /\ seen' = seen \cup {cid}
  BY DEF PullInv, Take
<1>2. cid \in Cids /\ Tail(queue) \in Seq(Cids) /\ ToSet(queue) = {cid} \cup ToSet(Tail(queue))
  <2>1. queue \in Seq(Cids) /\ queue # <<>>
    BY DEF PullInv, PullTypeOK, Take
  <2> QED BY <2>1, QueueHead
<1>3. None \notin Cids /\ LimitBlocks \in Nat /\ Cardinality(DOMAIN held) \in Nat
  BY <1>1, ContentAssumption, FS_CardinalityType DEF PullTypeOK
<1>4. seen = DOMAIN held
  BY <1>1 DEF ClosesInv
<1>5. /\ awaiting' = IF cid \in seen \/ Cardinality(DOMAIN held) >= LimitBlocks THEN None ELSE cid
      /\ status' = IF cid \notin seen /\ Cardinality(DOMAIN held) >= LimitBlocks
                   THEN "RESPONSE_TOO_LARGE" ELSE "pulling"
  BY <1>1 DEF Take
<1>6. {root} \cup UNION {Kids(c) : c \in DOMAIN held} \subseteq seen' \cup ToSet(queue')
  BY <1>1, <1>2 DEF ClosesInv
<1> HIDE DEF cid
<1>7. PullTypeOK'
  BY <1>1, <1>2, <1>5 DEF PullTypeOK
<1>8. AwaitsInv'
  BY <1>1, <1>3, <1>4, <1>5 DEF AwaitsInv
<1>9. HoldsInv'
  BY <1>1 DEF HoldsInv
<1>10. WeighsInv'
  BY <1>1, <1>5 DEF WeighsInv
<1>11. ClosesInv'
  <2>1. status' = "pulling" => seen' = DOMAIN held \cup ({awaiting'} \ {None})
    BY <1>1, <1>2, <1>3, <1>4, <1>5
  <2>2. status' # "done"
    BY <1>5
  <2>3. {root'} \cup UNION {Kids(c) : c \in DOMAIN held'} \subseteq seen' \cup ToSet(queue')
    BY <1>1, <1>6
  <2> QED BY <1>1, <2>1, <2>2, <2>3 DEF ClosesInv
<1> QED BY <1>7, <1>8, <1>9, <1>10, <1>11 DEF PullInv

\* Bytes are held only if they hash to their CID and, with those held, weigh no more
\* than the limit.
LEMMA AnswerKeeps ==
  ASSUME PullInv, NEW bytes \in Blocks, Answer(bytes)
  PROVE  PullInv'
<1> DEFINE total == IF SizeOf(bytes) > BLOCK_BYTES THEN weighed ELSE weighed + SizeOf(bytes)
<1>1. PullTypeOK /\ AwaitsInv /\ WeighsInv /\ HoldsInv /\ ClosesInv /\ awaiting # None
  BY DEF PullInv, Answer
<1>2. SizeOf(bytes) \in Nat /\ weighed \in Nat /\ weighed' = total
  BY <1>1, SizeType DEF PullTypeOK, Answer
<1>3. weighed' \in Nat
  BY <1>2
<1>4. ASSUME NEW code \in {"RESPONSE_TOO_LARGE", "ContentError", "CONTENT_INTEGRITY"}, Throw(code)
      PROVE  PullInv'
  <2>1. code \notin {"pulling", "done"}
    OBVIOUS
  <2> QED BY <1>3, <1>4, <2>1, ThrowKeeps
<1>5. ASSUME /\ ~WeighsTooMuch(bytes, total) /\ IsCid(awaiting) /\ bytes = awaiting.digest
             /\ held' = [c \in DOMAIN held \cup {awaiting} |->
                           IF c = awaiting THEN bytes ELSE held[c]]
             /\ queue' = queue \o childrenOf(awaiting, bytes)
             /\ awaiting' = None
             /\ UNCHANGED <<site, root, seen, status>>
      PROVE  PullInv'
  <2>1. /\ awaiting \in Cids /\ awaiting \notin DOMAIN held /\ status = "pulling"
        /\ IsFiniteSet(DOMAIN held) /\ Cardinality(DOMAIN held) < LimitBlocks
        /\ seen = DOMAIN held \cup {awaiting}
    BY <1>1 DEF PullTypeOK, AwaitsInv, ClosesInv
  <2>2. /\ DOMAIN held' = DOMAIN held \cup {awaiting} /\ held'[awaiting] = bytes
        /\ \A c \in DOMAIN held : held'[c] = held[c]
    BY <1>5, <2>1
  <2>3. IsFiniteSet(DOMAIN held') /\ Cardinality(DOMAIN held') = Cardinality(DOMAIN held) + 1
    BY <2>1, <2>2, FS_AddElement
  <2>4. SizeOf(bytes) <= BLOCK_BYTES /\ total <= LimitBytes /\ total = weighed + SizeOf(bytes)
    <3>1. BLOCK_BYTES \in Nat /\ LimitBytes \in Nat
      BY UnixFsAssumption, ContentAssumption
    <3> QED BY <1>2, <1>5, <3>1 DEF WeighsTooMuch
  <2>5. Weight(held', DOMAIN held') = Weight(held, DOMAIN held) + SizeOf(bytes)
    <3>1. \A c \in DOMAIN held : SizeOf(held[c]) \in Nat
      <4> TAKE c \in DOMAIN held
      <4>1. held[c] = c.digest /\ c \in Cids
        BY <1>1 DEF HoldsInv, PullTypeOK
      <4>2. held[c] \in Blocks
        BY <4>1, UnixFsAssumption
      <4> QED BY <4>2, SizeType
    <3>2. SizeOf(held'[awaiting]) \in Nat
      BY <1>2, <2>2
    <3> QED BY <2>1, <2>2, <3>1, <3>2, WeightAdds
  <2>6. PullTypeOK'
    <3>1. queue' \in Seq(Cids)
      BY <1>1, <1>5, <2>1, ChildrenType, QueueJoin DEF PullTypeOK
    <3> QED BY <1>1, <1>3, <1>5, <2>1, <2>2, <2>3, <3>1 DEF PullTypeOK
  <2>7. AwaitsInv'
    BY <1>5 DEF AwaitsInv
  <2>8. WeighsInv'
    <3>1. Cardinality(DOMAIN held) \in Nat /\ LimitBlocks \in Nat
      BY <2>1, FS_CardinalityType, ContentAssumption
    <3>2. Cardinality(DOMAIN held') <= LimitBlocks
      BY <2>1, <2>3, <3>1
    <3>3. weighed = Weight(held, DOMAIN held)
      BY <1>1, <2>1 DEF WeighsInv
    <3>4. weighed' = Weight(held', DOMAIN held') /\ weighed' <= LimitBytes
      BY <1>2, <2>4, <2>5, <3>3
    <3> QED BY <3>2, <3>4 DEF WeighsInv
  <2>9. HoldsInv'
    BY <1>1, <1>5, <2>2, <2>4 DEF HoldsInv
  <2>10. ClosesInv'
    <3>1. ToSet(queue') = ToSet(queue) \cup Kids(awaiting)
      BY <1>1, <1>5, <2>1, ChildrenType, QueueJoin DEF PullTypeOK, Kids
    <3>2. {root} \cup UNION {Kids(c) : c \in DOMAIN held} \subseteq seen \cup ToSet(queue)
      BY <1>1, <2>1 DEF ClosesInv
    <3>3. \A c \in DOMAIN held' : c = awaiting \/ c \in DOMAIN held
      BY <2>2
    <3>4. {root} \cup UNION {Kids(c) : c \in DOMAIN held'} \subseteq seen \cup ToSet(queue')
      BY <3>1, <3>2, <3>3
    <3> QED BY <1>5, <2>1, <2>2, <3>4 DEF ClosesInv
  <2> QED BY <2>6, <2>7, <2>8, <2>9, <2>10 DEF PullInv
<1> QED BY <1>4, <1>5 DEF Answer

\* The loop ends when the queue is empty: nothing met is missing.
LEMMA ReturnKeeps ==
  ASSUME PullInv, Return
  PROVE  PullInv'
<1>1. ToSet(queue) = {}
  <2>1. queue = <<>>
    BY DEF Return
  <2>2. DOMAIN queue = {}
    BY <2>1
  <2> QED BY <2>2 DEF ToSet
<1>2. PullTypeOK' /\ AwaitsInv' /\ HoldsInv'
  BY DEF Return, PullInv, PullTypeOK, AwaitsInv, HoldsInv
<1>3. WeighsInv'
  BY DEF Return, PullInv, WeighsInv
<1>4. ClosesInv'
  BY <1>1 DEF Return, PullInv, ClosesInv
<1> QED BY <1>2, <1>3, <1>4 DEF PullInv

\* PullInv is inductive.
LEMMA PullStep ==
  ASSUME PullInv, [Next]_vars
  PROVE  PullInv'
<1>1. CASE Take
  BY <1>1, TakeKeeps
<1>2. ASSUME NEW bytes \in WrongBytes, Answer(bytes) PROVE PullInv'
  <2>1. bytes \in Blocks
    BY ContentAssumption
  <2> QED BY <1>2, <2>1, AnswerKeeps
<1>3. CASE awaiting # None /\ Answer(awaiting.digest)
  <2>1. awaiting.digest \in Blocks
    BY <1>3, UnixFsAssumption DEF PullInv, PullTypeOK
  <2> QED BY <1>3, <2>1, AnswerKeeps
<1>4. CASE AnswerNotBytes
  <2>1. Throw("MALFORMED_BLOCK") /\ weighed' \in Nat
    BY <1>4 DEF AnswerNotBytes, PullInv, PullTypeOK
  <2> QED BY <2>1, ThrowKeeps
<1>5. CASE Deadline
  <2>1. Throw("CONTENT_UNAVAILABLE") /\ weighed' \in Nat
    BY <1>5 DEF Deadline, PullInv, PullTypeOK
  <2> QED BY <2>1, ThrowKeeps
<1>6. CASE Return
  BY <1>6, ReturnKeeps
<1>7. CASE UNCHANGED vars
  BY <1>7 DEF vars, PullInv, PullTypeOK, AwaitsInv, WeighsInv, HoldsInv, ClosesInv
<1> QED BY <1>1, <1>2, <1>3, <1>4, <1>5, <1>6, <1>7 DEF Next

\* At every step of a pull, PullInv holds.
LEMMA PullAlways == Spec => []PullInv
<1> QED BY PullInit, PullStep, PTL DEF Spec

\* What a pull keeps is bounded in blocks and in bytes at every step, and each block
\* is the bytes its CID names, for any tree, any answers and any limits
\* (blockstore.ts prefetch).
THEOREM MemoryIsBoundedHolds == Spec => []MemoryIsBounded
<1>1. PullInv => MemoryIsBounded
  BY DEF PullInv, WeighsInv, HoldsInv, MemoryIsBounded, Weight
<1> QED BY <1>1, PullAlways, PTL

-----------------------------------------------------------------------------
(***************************************************************************)
(* The recursions of a fetch are well founded.                             *)
(***************************************************************************)

\* g is what FetchLinks has after each of the first n links.
IsParts(g, node, fetch, got, n) ==
  g = [i \in 0 .. n |->
         IF i = 0 THEN got
         ELSE IF g[i - 1].code # "OK" THEN g[i - 1]
         ELSE Join(g[i - 1], fetch[node.links[i].cid][g[i - 1].budget], node.blocksizes[i])]

\* A file can be read link by link.
LEMMA PartsExists ==
  ASSUME NEW node, NEW fetch, NEW got, NEW n \in Nat
  PROVE  \E g : IsParts(g, node, fetch, got, n)
<1> DEFINE Step(i, x) == IF x.code # "OK" THEN x
                         ELSE Join(x, fetch[node.links[i].cid][x.budget], node.blocksizes[i])
           T == {k \in Nat : \E g : IsParts(g, node, fetch, got, k)}
<1>1. 0 \in T
  <2>1. IsParts([i \in 0 .. 0 |-> got], node, fetch, got, 0)
    BY DEF IsParts
  <2> QED BY <2>1
<1>2. ASSUME NEW k \in T PROVE k + 1 \in T
  <2>1. PICK g : IsParts(g, node, fetch, got, k)
    OBVIOUS
  <2> DEFINE h == [i \in 0 .. (k + 1) |->
                     IF i = k + 1 THEN IF i = 0 THEN got ELSE Step(i, g[i - 1])
                     ELSE g[i]]
  <2>2. \A i \in 0 .. k : g[i] = IF i = 0 THEN got ELSE Step(i, g[i - 1])
    BY <2>1 DEF IsParts
  <2> HIDE DEF Step
  <2>3. /\ h[k + 1] = IF k + 1 = 0 THEN got ELSE Step(k + 1, g[(k + 1) - 1])
        /\ \A i \in 0 .. k : h[i] = g[i]
    OBVIOUS
  <2>4. h = [i \in 0 .. (k + 1) |-> h[i]]
    OBVIOUS
  <2> HIDE DEF h
  <2>5. ASSUME NEW i \in 0 .. (k + 1)
        PROVE  h[i] = IF i = 0 THEN got ELSE Step(i, h[i - 1])
    <3>1. i # 0 => i - 1 \in 0 .. (i - 1)
      OBVIOUS
    <3>2. i # 0 => i - 1 \in 0 .. k
      BY <3>1
    <3>3. CASE i = k + 1
      BY <2>3, <3>2, <3>3
    <3>4. CASE i # k + 1
      <4>1. i \in 0 .. k
        BY <3>4
      <4> QED BY <2>2, <2>3, <3>2, <4>1
    <3> QED BY <3>3, <3>4
  <2>6. h = [i \in 0 .. (k + 1) |-> IF i = 0 THEN got ELSE Step(i, h[i - 1])]
    BY <2>4, <2>5
  <2>7. IsParts(h, node, fetch, got, k + 1)
    BY <2>6 DEF IsParts, Step
  <2> QED BY <2>7
<1>3. T = Nat
  <2>1. T \in SUBSET Nat
    OBVIOUS
  <2> HIDE DEF T
  <2> QED BY <1>1, <1>2, <2>1, SetInduction
<1> QED BY <1>3

\* g is what fetchFile gives over n levels, for every CID and budget.
IsFiles(g, source, n) ==
  g = [i \in 0 .. n |->
         IF i = 0 THEN TooDeep
         ELSE [c \in Cids |-> [b \in Budgets |-> FileAt(source, c, g[i - 1], b)]]]

\* Files can be read level by level.
LEMMA FilesExists ==
  ASSUME NEW source, NEW n \in Nat
  PROVE  \E g : IsFiles(g, source, n)
<1> DEFINE Step(i, x) == [c \in Cids |-> [b \in Budgets |-> FileAt(source, c, x, b)]]
           T == {k \in Nat : \E g : IsFiles(g, source, k)}
<1>1. 0 \in T
  <2>1. IsFiles([i \in 0 .. 0 |-> TooDeep], source, 0)
    BY DEF IsFiles
  <2> QED BY <2>1
<1>2. ASSUME NEW k \in T PROVE k + 1 \in T
  <2>1. PICK g : IsFiles(g, source, k)
    OBVIOUS
  <2> DEFINE h == [i \in 0 .. (k + 1) |->
                     IF i = k + 1 THEN IF i = 0 THEN TooDeep ELSE Step(i, g[i - 1])
                     ELSE g[i]]
  <2>2. \A i \in 0 .. k : g[i] = IF i = 0 THEN TooDeep ELSE Step(i, g[i - 1])
    BY <2>1 DEF IsFiles
  <2> HIDE DEF Step
  <2>3. /\ h[k + 1] = IF k + 1 = 0 THEN TooDeep ELSE Step(k + 1, g[(k + 1) - 1])
        /\ \A i \in 0 .. k : h[i] = g[i]
    OBVIOUS
  <2>4. h = [i \in 0 .. (k + 1) |-> h[i]]
    OBVIOUS
  <2> HIDE DEF h
  <2>5. ASSUME NEW i \in 0 .. (k + 1)
        PROVE  h[i] = IF i = 0 THEN TooDeep ELSE Step(i, h[i - 1])
    <3>1. i # 0 => i - 1 \in 0 .. (i - 1)
      OBVIOUS
    <3>2. i # 0 => i - 1 \in 0 .. k
      BY <3>1
    <3>3. CASE i = k + 1
      BY <2>3, <3>2, <3>3
    <3>4. CASE i # k + 1
      <4>1. i \in 0 .. k
        BY <3>4
      <4> QED BY <2>2, <2>3, <3>2, <4>1
    <3> QED BY <3>3, <3>4
  <2>6. h = [i \in 0 .. (k + 1) |-> IF i = 0 THEN TooDeep ELSE Step(i, h[i - 1])]
    BY <2>4, <2>5
  <2>7. IsFiles(h, source, k + 1)
    BY <2>6 DEF IsFiles, Step
  <2> QED BY <2>7
<1>3. T = Nat
  <2>1. T \in SUBSET Nat
    OBVIOUS
  <2> HIDE DEF T
  <2> QED BY <1>1, <1>2, <2>1, SetInduction
<1> QED BY <1>3

\* g is where fetchPath is after each of the first n segments.
IsWalk(g, source, cid, path, n) ==
  g = [i \in 0 .. n |->
         IF i = 0 THEN [cid |-> cid, code |-> "OK", budget |-> Budget]
         ELSE Enter(source, g[i - 1], path[i], i - 1)]

\* A path can be walked segment by segment.
LEMMA WalkExists ==
  ASSUME NEW source, NEW cid, NEW path, NEW n \in Nat
  PROVE  \E g : IsWalk(g, source, cid, path, n)
<1> DEFINE start == [cid |-> cid, code |-> "OK", budget |-> Budget]
           Step(i, x) == Enter(source, x, path[i], i - 1)
           T == {k \in Nat : \E g : IsWalk(g, source, cid, path, k)}
<1>1. 0 \in T
  <2>1. IsWalk([i \in 0 .. 0 |-> start], source, cid, path, 0)
    BY DEF IsWalk
  <2> QED BY <2>1
<1>2. ASSUME NEW k \in T PROVE k + 1 \in T
  <2>1. PICK g : IsWalk(g, source, cid, path, k)
    OBVIOUS
  <2> DEFINE h == [i \in 0 .. (k + 1) |->
                     IF i = k + 1 THEN IF i = 0 THEN start ELSE Step(i, g[i - 1])
                     ELSE g[i]]
  <2>2. \A i \in 0 .. k : g[i] = IF i = 0 THEN start ELSE Step(i, g[i - 1])
    BY <2>1 DEF IsWalk
  <2> HIDE DEF Step
  <2>3. /\ h[k + 1] = IF k + 1 = 0 THEN start ELSE Step(k + 1, g[(k + 1) - 1])
        /\ \A i \in 0 .. k : h[i] = g[i]
    OBVIOUS
  <2>4. h = [i \in 0 .. (k + 1) |-> h[i]]
    OBVIOUS
  <2> HIDE DEF h
  <2>5. ASSUME NEW i \in 0 .. (k + 1)
        PROVE  h[i] = IF i = 0 THEN start ELSE Step(i, h[i - 1])
    <3>1. i # 0 => i - 1 \in 0 .. (i - 1)
      OBVIOUS
    <3>2. i # 0 => i - 1 \in 0 .. k
      BY <3>1
    <3>3. CASE i = k + 1
      BY <2>3, <3>2, <3>3
    <3>4. CASE i # k + 1
      <4>1. i \in 0 .. k
        BY <3>4
      <4> QED BY <2>2, <2>3, <3>2, <4>1
    <3> QED BY <3>3, <3>4
  <2>6. h = [i \in 0 .. (k + 1) |-> IF i = 0 THEN start ELSE Step(i, h[i - 1])]
    BY <2>4, <2>5
  <2>7. IsWalk(h, source, cid, path, k + 1)
    BY <2>6 DEF IsWalk, Step
  <2> QED BY <2>7
<1>3. T = Nat
  <2>1. T \in SUBSET Nat
    OBVIOUS
  <2> HIDE DEF T
  <2> QED BY <1>1, <1>2, <2>1, SetInduction
<1> QED BY <1>3

\* g is the first sequences of seqs joined, as FlattenSeq joins them.
IsFlat(g, seqs, n) ==
  g = [i \in 1 .. n |->
         IF i = 1 THEN seqs[i]
         ELSE g[i - 1] \o seqs[i]]

\* Sequences can be joined one by one.
LEMMA FlatExists ==
  ASSUME NEW seqs, NEW n \in Nat
  PROVE  \E g : IsFlat(g, seqs, n)
<1> DEFINE Step(i, x) == x \o seqs[i]
           T == {k \in Nat : \E g : IsFlat(g, seqs, k)}
<1>1. 0 \in T
  <2>1. IsFlat([i \in 1 .. 0 |-> seqs[i]], seqs, 0)
    BY DEF IsFlat
  <2> QED BY <2>1
<1>2. ASSUME NEW k \in T PROVE k + 1 \in T
  <2>1. PICK g : IsFlat(g, seqs, k)
    OBVIOUS
  <2> DEFINE h == [i \in 1 .. (k + 1) |->
                     IF i = k + 1 THEN IF i = 1 THEN seqs[i] ELSE Step(i, g[i - 1])
                     ELSE g[i]]
  <2>2. \A i \in 1 .. k : g[i] = IF i = 1 THEN seqs[i] ELSE Step(i, g[i - 1])
    BY <2>1 DEF IsFlat
  <2> HIDE DEF Step
  <2>3. /\ h[k + 1] = IF k + 1 = 1 THEN seqs[1] ELSE Step(k + 1, g[(k + 1) - 1])
        /\ \A i \in 1 .. k : h[i] = g[i]
    OBVIOUS
  <2>4. h = [i \in 1 .. (k + 1) |-> h[i]]
    OBVIOUS
  <2> HIDE DEF h
  <2>5. ASSUME NEW i \in 1 .. (k + 1)
        PROVE  h[i] = IF i = 1 THEN seqs[i] ELSE Step(i, h[i - 1])
    <3>1. i # 1 => i - 1 \in 1 .. (i - 1)
      OBVIOUS
    <3>2. i # 1 => i - 1 \in 1 .. k
      BY <3>1
    <3>3. CASE i = k + 1
      BY <2>3, <3>2, <3>3
    <3>4. CASE i # k + 1
      <4>1. i \in 1 .. k
        BY <3>4
      <4> QED BY <2>2, <2>3, <3>2, <4>1
    <3> QED BY <3>3, <3>4
  <2>6. h = [i \in 1 .. (k + 1) |-> IF i = 1 THEN seqs[i] ELSE Step(i, h[i - 1])]
    BY <2>4, <2>5
  <2>7. IsFlat(h, seqs, k + 1)
    BY <2>6 DEF IsFlat, Step
  <2> QED BY <2>7
<1>3. T = Nat
  <2>1. T \in SUBSET Nat
    OBVIOUS
  <2> HIDE DEF T
  <2> QED BY <1>1, <1>2, <2>1, SetInduction
<1> QED BY <1>3

\* g is what files mean, read n levels deep.
IsMeanings(g, n) ==
  g = [i \in 0 .. n |->
         IF i = 0 THEN [c \in Cids |-> <<>>]
         ELSE [c \in Cids |-> Says(c, g[i - 1])]]

\* What files mean is defined level by level.
LEMMA MeaningsExists ==
  ASSUME NEW n \in Nat
  PROVE  \E g : IsMeanings(g, n)
<1> DEFINE Step(i, x) == [c \in Cids |-> Says(c, x)]
           T == {k \in Nat : \E g : IsMeanings(g, k)}
<1>1. 0 \in T
  <2>1. IsMeanings([i \in 0 .. 0 |-> [c \in Cids |-> <<>>]], 0)
    BY DEF IsMeanings
  <2> QED BY <2>1
<1>2. ASSUME NEW k \in T PROVE k + 1 \in T
  <2>1. PICK g : IsMeanings(g, k)
    OBVIOUS
  <2> DEFINE h == [i \in 0 .. (k + 1) |->
                     IF i = k + 1 THEN IF i = 0 THEN [c \in Cids |-> <<>>] ELSE Step(i, g[i - 1])
                     ELSE g[i]]
  <2>2. \A i \in 0 .. k : g[i] = IF i = 0 THEN [c \in Cids |-> <<>>] ELSE Step(i, g[i - 1])
    BY <2>1 DEF IsMeanings
  <2> HIDE DEF Step
  <2>3. /\ h[k + 1] = IF k + 1 = 0 THEN [c \in Cids |-> <<>>] ELSE Step(k + 1, g[(k + 1) - 1])
        /\ \A i \in 0 .. k : h[i] = g[i]
    OBVIOUS
  <2>4. h = [i \in 0 .. (k + 1) |-> h[i]]
    OBVIOUS
  <2> HIDE DEF h
  <2>5. ASSUME NEW i \in 0 .. (k + 1)
        PROVE  h[i] = IF i = 0 THEN [c \in Cids |-> <<>>] ELSE Step(i, h[i - 1])
    <3>1. i # 0 => i - 1 \in 0 .. (i - 1)
      OBVIOUS
    <3>2. i # 0 => i - 1 \in 0 .. k
      BY <3>1
    <3>3. CASE i = k + 1
      BY <2>3, <3>2, <3>3
    <3>4. CASE i # k + 1
      <4>1. i \in 0 .. k
        BY <3>4
      <4> QED BY <2>2, <2>3, <3>2, <4>1
    <3> QED BY <3>3, <3>4
  <2>6. h = [i \in 0 .. (k + 1) |-> IF i = 0 THEN [c \in Cids |-> <<>>] ELSE Step(i, h[i - 1])]
    BY <2>4, <2>5
  <2>7. IsMeanings(h, k + 1)
    BY <2>6 DEF IsMeanings, Step
  <2> QED BY <2>7
<1>3. T = Nat
  <2>1. T \in SUBSET Nat
    OBVIOUS
  <2> HIDE DEF T
  <2> QED BY <1>1, <1>2, <2>1, SetInduction
<1> QED BY <1>3

\* g is what the first n segments of a path name.
IsNames(g, cid, path, n) ==
  g = [i \in 0 .. n |->
         IF i = 0 THEN cid
         ELSE (CHOOSE link \in ToSet(g[i - 1].digest.links) : link.name = path[i]).cid]

\* What a path names is defined segment by segment.
LEMMA NamesExists ==
  ASSUME NEW cid, NEW path, NEW n \in Nat
  PROVE  \E g : IsNames(g, cid, path, n)
<1> DEFINE Step(i, x) == (CHOOSE link \in ToSet(x.digest.links) : link.name = path[i]).cid
           T == {k \in Nat : \E g : IsNames(g, cid, path, k)}
<1>1. 0 \in T
  <2>1. IsNames([i \in 0 .. 0 |-> cid], cid, path, 0)
    BY DEF IsNames
  <2> QED BY <2>1
<1>2. ASSUME NEW k \in T PROVE k + 1 \in T
  <2>1. PICK g : IsNames(g, cid, path, k)
    OBVIOUS
  <2> DEFINE h == [i \in 0 .. (k + 1) |->
                     IF i = k + 1 THEN IF i = 0 THEN cid ELSE Step(i, g[i - 1])
                     ELSE g[i]]
  <2>2. \A i \in 0 .. k : g[i] = IF i = 0 THEN cid ELSE Step(i, g[i - 1])
    BY <2>1 DEF IsNames
  <2> HIDE DEF Step
  <2>3. /\ h[k + 1] = IF k + 1 = 0 THEN cid ELSE Step(k + 1, g[(k + 1) - 1])
        /\ \A i \in 0 .. k : h[i] = g[i]
    OBVIOUS
  <2>4. h = [i \in 0 .. (k + 1) |-> h[i]]
    OBVIOUS
  <2> HIDE DEF h
  <2>5. ASSUME NEW i \in 0 .. (k + 1)
        PROVE  h[i] = IF i = 0 THEN cid ELSE Step(i, h[i - 1])
    <3>1. i # 0 => i - 1 \in 0 .. (i - 1)
      OBVIOUS
    <3>2. i # 0 => i - 1 \in 0 .. k
      BY <3>1
    <3>3. CASE i = k + 1
      BY <2>3, <3>2, <3>3
    <3>4. CASE i # k + 1
      <4>1. i \in 0 .. k
        BY <3>4
      <4> QED BY <2>2, <2>3, <3>2, <4>1
    <3> QED BY <3>3, <3>4
  <2>6. h = [i \in 0 .. (k + 1) |-> IF i = 0 THEN cid ELSE Step(i, h[i - 1])]
    BY <2>4, <2>5
  <2>7. IsNames(h, cid, path, k + 1)
    BY <2>6 DEF IsNames, Step
  <2> QED BY <2>7
<1>3. T = Nat
  <2>1. T \in SUBSET Nat
    OBVIOUS
  <2> HIDE DEF T
  <2> QED BY <1>1, <1>2, <2>1, SetInduction
<1> QED BY <1>3

\* FetchLinks is what it has after the last link.
LEMMA FetchLinksIs ==
  ASSUME NEW node, NEW fetch, NEW got, Len(node.links) \in Nat
  PROVE  \E g : /\ IsParts(g, node, fetch, got, Len(node.links))
                /\ FetchLinks(node, fetch, got) = g[Len(node.links)]
<1> DEFINE n == Len(node.links)
           g == CHOOSE h : IsParts(h, node, fetch, got, n)
<1>1. FetchLinks(node, fetch, got) = g[n]
  BY DEF FetchLinks, IsParts
<1>2. IsParts(g, node, fetch, got, n)
  <2> HIDE DEF n
  <2>1. n \in Nat
    BY DEF n
  <2> QED BY <2>1, PartsExists
<1> QED BY <1>1, <1>2

\* fetchFile is the level its depth leaves it.
LEMMA FetchFileIs ==
  ASSUME NEW source
  PROVE  \E f : /\ IsFiles(f, source, DEPTH + 1)
                /\ \A cid, depth, budget :
                     fetchFile(source, cid, depth, budget) =
                       IF depth > DEPTH THEN Refused("RESPONSE_TOO_LARGE", budget)
                       ELSE f[DEPTH + 1 - depth][cid][budget]
<1> DEFINE f == CHOOSE h : IsFiles(h, source, DEPTH + 1)
<1>1. \A cid, depth, budget :
        fetchFile(source, cid, depth, budget) =
          IF depth > DEPTH THEN Refused("RESPONSE_TOO_LARGE", budget)
          ELSE f[DEPTH + 1 - depth][cid][budget]
  BY DEF fetchFile, IsFiles
<1>2. DEPTH + 1 \in Nat
  BY UnixFsAssumption
<1>3. IsFiles(f, source, DEPTH + 1)
  <2> DEFINE n == DEPTH + 1
  <2> HIDE DEF n
  <2> QED BY <1>2, FilesExists DEF n
<1> QED BY <1>1, <1>3

\* fetchPath is the file where the walk ends.
LEMMA FetchPathIs ==
  ASSUME NEW source, NEW cid, NEW path \in Seq(Nat)
  PROVE  \E g : /\ IsWalk(g, source, cid, path, Len(path))
                /\ fetchPath(source, cid, path) =
                     IF \E i \in DOMAIN path : path[i] \in Dots
                     THEN Refused("PATH_NOT_FOUND", Budget)
                     ELSE IF g[Len(path)].code # "OK"
                     THEN Refused(g[Len(path)].code, g[Len(path)].budget)
                     ELSE fetchFile(source, g[Len(path)].cid, Len(path), g[Len(path)].budget)
<1> DEFINE g == CHOOSE h : IsWalk(h, source, cid, path, Len(path))
<1>1. fetchPath(source, cid, path) =
        IF \E i \in DOMAIN path : path[i] \in Dots THEN Refused("PATH_NOT_FOUND", Budget)
        ELSE IF g[Len(path)].code # "OK" THEN Refused(g[Len(path)].code, g[Len(path)].budget)
        ELSE fetchFile(source, g[Len(path)].cid, Len(path), g[Len(path)].budget)
  BY DEF fetchPath, IsWalk
<1>2. IsWalk(g, source, cid, path, Len(path))
  BY WalkExists
<1> QED BY <1>1, <1>2

\* FlattenSeq is the last of its joins.
LEMMA FlattenSeqIs ==
  ASSUME NEW seqs, Len(seqs) \in Nat
  PROVE  \E g : /\ IsFlat(g, seqs, Len(seqs))
                /\ FlattenSeq(seqs) = IF Len(seqs) = 0 THEN seqs ELSE g[Len(seqs)]
<1> DEFINE g == CHOOSE h : IsFlat(h, seqs, Len(seqs))
<1>1. FlattenSeq(seqs) = IF Len(seqs) = 0 THEN seqs ELSE g[Len(seqs)]
  BY DEF FlattenSeq, IsFlat
<1>2. IsFlat(g, seqs, Len(seqs))
  <2> DEFINE n == Len(seqs)
  <2> HIDE DEF n
  <2>1. n \in Nat
    BY DEF n
  <2>2. IsFlat(CHOOSE h : IsFlat(h, seqs, n), seqs, n)
    BY <2>1, FlatExists
  <2> QED BY <2>2 DEF n
<1> QED BY <1>1, <1>2

\* MeaningAt is the meaning of what the path names.
LEMMA MeaningAtIs ==
  ASSUME NEW cid, NEW path \in Seq(Nat)
  PROVE  \E m, g : /\ IsMeanings(m, DEPTH + 1) /\ IsNames(g, cid, path, Len(path))
                   /\ MeaningAt(cid, path) = m[DEPTH + 1][g[Len(path)]]
<1> DEFINE m == CHOOSE h : IsMeanings(h, DEPTH + 1)
           g == CHOOSE h : IsNames(h, cid, path, Len(path))
<1>1. \A c : Meaning(c) = m[DEPTH + 1][c]
  BY DEF Meaning, IsMeanings
<1>2. MeaningAt(cid, path) = Meaning(g[Len(path)])
  BY DEF MeaningAt, IsNames
<1>3. IsNames(g, cid, path, Len(path))
  BY NamesExists
<1>4. IsMeanings(m, DEPTH + 1)
  <2>1. DEPTH + 1 \in Nat
    BY UnixFsAssumption
  <2> DEFINE n == DEPTH + 1
  <2> HIDE DEF n
  <2>2. IsMeanings(CHOOSE h : IsMeanings(h, n), n)
    BY <2>1, MeaningsExists DEF n
  <2> QED BY <2>2 DEF n
<1> HIDE DEF m, g
<1> QED BY <1>1, <1>2, <1>3, <1>4

-----------------------------------------------------------------------------
(***************************************************************************)
(* A fetch that succeeds gives what the tree says.                         *)
(***************************************************************************)

\* What content is made of: a number, or a byte of an encoded node.
Items == Nat \cup Blocks
Links == [name : Nat, cid : Cids]

\* A result that is d if it is a success, and whose budget can be spent further.
Gives(result, d) ==
  /\ result.budget \in Budgets
  /\ result.code = "OK" => result.data \in Seq(Items) /\ result.data = d

\* A block's bytes as content are a sequence.
LEMMA DataType ==
  ASSUME NEW bytes \in Blocks
  PROVE  DataOf(bytes) \in Seq(Items)
<1>1. CASE bytes.kind = "leaf"
  <2>1. bytes.data \in Seq(Nat)
    BY <1>1 DEF Blocks
  <2> QED BY <1>1, <2>1 DEF DataOf, Items
<1>2. CASE bytes.kind # "leaf"
  <2> DEFINE n == SizeOf(bytes)
  <2>1. n \in Nat
    BY SizeType
  <2> HIDE DEF n
  <2>2. bytes \in Items
    BY DEF Items
  <2>3. [i \in 1 .. n |-> bytes] \in Seq(Items)
    BY <2>1, <2>2
  <2> QED BY <1>2, <2>3 DEF DataOf, n
<1> QED BY <1>1, <1>2

\* A node of a block that decodes has links, and what is not a leaf is its own node.
LEMMA NodeOf ==
  ASSUME NEW bytes \in Blocks
  PROVE  /\ decodeNode(bytes).links \in Seq(Links)
         /\ decodeNode(bytes).type # "none" => decodeNode(bytes) = bytes /\ bytes.links \in Seq(Links)
<1>1. CASE bytes.kind = "leaf"
  BY <1>1 DEF decodeNode, NoNode
<1>2. CASE bytes.kind # "leaf"
  BY <1>2 DEF decodeNode, Blocks, Links
<1> QED BY <1>1, <1>2

\* A block fetched is the block its CID names, and costs one block of the budget.
LEMMA VerifiedIs ==
  ASSUME NEW source, NEW c, NEW b \in Budgets
  PROVE  LET got == fetchVerified(source, c, b)
         IN  /\ got.budget \in Budgets /\ got.data = <<>>
             /\ got.code = "OK" => source[c] = c.digest /\ IsCid(c)
             /\ got.code \in {"RESPONSE_TOO_LARGE", VerifyCode(source, c)}
<1>1. [b EXCEPT !.blocks = @ + 1] \in Budgets
  BY DEF Budgets
<1>2. VerifyCode(source, c) = "OK" => source[c] = c.digest /\ IsCid(c)
  BY DEF VerifyCode
<1> DEFINE spent == [b EXCEPT !.blocks = @ + 1]
<1>3. fetchVerified(source, c, b) =
        Refused(IF spent.blocks > BLOCKS THEN "RESPONSE_TOO_LARGE" ELSE VerifyCode(source, c), spent)
  BY DEF fetchVerified
<1> HIDE DEF spent
<1> QED BY <1>1, <1>2, <1>3 DEF Refused, Result, spent

\* Bytes returned are the bytes given, and cost their length.
LEMMA SpentIs ==
  ASSUME NEW b \in Budgets, NEW d \in Seq(Items)
  PROVE  Gives(spendBytes(b, d), d) /\ spendBytes(b, d).code \in {"OK", "RESPONSE_TOO_LARGE"}
<1> DEFINE spent == [b EXCEPT !.bytes = @ + Len(d)]
<1>1. spent \in Budgets
  <2>1. Len(d) \in Nat
    OBVIOUS
  <2> QED BY <2>1 DEF Budgets
<1>2. spendBytes(b, d) = IF spent.bytes > RESOURCE_BYTES THEN Refused("RESPONSE_TOO_LARGE", spent)
                         ELSE Result("OK", d, spent)
  BY DEF spendBytes
<1> HIDE DEF spent
<1>3. CASE spent.bytes > RESOURCE_BYTES
  BY <1>1, <1>2, <1>3 DEF Gives, Refused, Result
<1>4. CASE ~(spent.bytes > RESOURCE_BYTES)
  BY <1>1, <1>2, <1>4 DEF Gives, Result
<1> QED BY <1>3, <1>4

\* A chunk joined to those before it gives the one after the other.
LEMMA JoinGives ==
  ASSUME NEW before, NEW part, NEW size, NEW d, NEW e,
         before.code = "OK", Gives(before, d), Gives(part, e)
  PROVE  Gives(Join(before, part, size), d \o e)
<1>1. CASE part.code # "OK"
  BY <1>1 DEF Join, Gives
<1>2. CASE part.code = "OK" /\ Len(part.data) # size
  BY <1>2 DEF Join, Gives, Refused, Result
<1>3. CASE part.code = "OK" /\ Len(part.data) = size
  <2>1. d \in Seq(Items) /\ e \in Seq(Items) /\ before.data = d /\ part.data = e
    BY <1>3 DEF Gives
  <2>2. d \o e \in Seq(Items)
    BY <2>1
  <2>3. Join(before, part, size) = Result("OK", d \o e, part.budget)
    BY <1>3, <2>1 DEF Join
  <2> QED BY <2>2, <2>3 DEF Gives, Result
<1> QED BY <1>1, <1>2, <1>3

\* If each link gives what m says of it, a file gives what m says of its links, joined.
LEMMA LinksGive ==
  ASSUME NEW node, node.links \in Seq(Links), NEW fetch, NEW m,
         \A c \in Cids : \A b \in Budgets : Gives(fetch[c][b], m[c]),
         NEW got, got.code = "OK", got.data = <<>>, got.budget \in Budgets
  PROVE  Gives(FetchLinks(node, fetch, got),
               FlattenSeq([i \in DOMAIN node.links |-> m[node.links[i].cid]]))
<1> DEFINE links == node.links
           n == Len(links)
           seqs == [i \in DOMAIN links |-> m[links[i].cid]]
<1>1. n \in Nat /\ DOMAIN links = 1 .. n /\ \A i \in 1 .. n : links[i] \in Links
  <2> HIDE DEF Links
  <2> QED OBVIOUS
<1>2. Len(seqs) = n /\ \A i \in 1 .. n : seqs[i] = m[links[i].cid]
  <2> HIDE DEF n
  <2>1. seqs = [i \in 1 .. n |-> m[links[i].cid]]
    BY <1>1
  <2> HIDE DEF seqs
  <2>2. seqs \in Seq({seqs[i] : i \in 1 .. n}) /\ Len(seqs) = n
    BY <1>1, <2>1
  <2> QED BY <2>1, <2>2
<1> HIDE DEF seqs
<1>3. PICK g : /\ IsParts(g, node, fetch, got, n)
               /\ FetchLinks(node, fetch, got) = g[n]
  BY <1>1, FetchLinksIs
<1>4. PICK h : /\ IsFlat(h, seqs, n)
               /\ FlattenSeq(seqs) = IF n = 0 THEN seqs ELSE h[n]
  BY <1>1, <1>2, FlattenSeqIs
<1> DEFINE J(i) == IF i = 0 THEN <<>> ELSE h[i]
           T == {i \in 0 .. n : Gives(g[i], J(i))}
<1>5. 0 \in T
  <2>1. g[0] = got
    BY <1>1, <1>3 DEF IsParts
  <2>2. <<>> \in Seq(Items)
    OBVIOUS
  <2>3. Gives(g[0], <<>>)
    BY <2>1, <2>2 DEF Gives
  <2> QED BY <1>1, <2>3
<1>6. ASSUME NEW i \in 0 .. (n - 1), i \in T PROVE i + 1 \in T
  <2> DEFINE before == g[i]
             part == fetch[links[i + 1].cid][before.budget]
  <2>1. i + 1 \in 0 .. n /\ i + 1 \in 1 .. n /\ i + 1 # 0 /\ (i + 1) - 1 = i /\ i \in 0 .. n
    BY <1>1
  <2>2. g[i + 1] = IF before.code # "OK" THEN before
                   ELSE Join(before, part, node.blocksizes[i + 1])
    BY <1>3, <2>1 DEF IsParts
  <2>3. Gives(before, J(i))
    BY <1>6
  <2>4. links[i + 1].cid \in Cids
    BY <1>1, <2>1 DEF Links
  <2>5. before.budget \in Budgets
    BY <2>3 DEF Gives
  <2>6. Gives(part, seqs[i + 1])
    BY <1>2, <2>1, <2>4, <2>5
  <2>7. CASE before.code # "OK"
    <3>1. Gives(g[i + 1], J(i + 1))
      BY <2>2, <2>5, <2>7 DEF Gives
    <3> QED BY <2>1, <3>1
  <2>8. CASE before.code = "OK"
    <3> HIDE DEF part, before
    <3>1. Gives(g[i + 1], J(i) \o seqs[i + 1])
      BY <2>2, <2>3, <2>6, <2>8, JoinGives
    <3>2. g[i + 1].code = "OK" => J(i) \o seqs[i + 1] = J(i + 1)
      <4>1. CASE i = 0
        <5>1. h[1] = seqs[1] /\ 1 \in 1 .. n
          BY <1>4, <2>1, <4>1 DEF IsFlat
        <5>2. g[i + 1].code = "OK" => seqs[1] \in Seq(Items)
          BY <2>2, <2>6, <2>8, <4>1 DEF Gives, Join
        <5>3. seqs[1] \in Seq(Items) => <<>> \o seqs[1] = seqs[1]
          OBVIOUS
        <5> QED BY <4>1, <5>1, <5>2, <5>3
      <4>2. CASE i # 0
        <5>1. i + 1 # 1
          BY <4>2
        <5>2. h[i + 1] = IF i + 1 = 1 THEN seqs[i + 1] ELSE h[(i + 1) - 1] \o seqs[i + 1]
          BY <1>4, <2>1 DEF IsFlat
        <5>3. h[i + 1] = h[i] \o seqs[i + 1]
          BY <2>1, <5>1, <5>2
        <5> QED BY <2>1, <4>2, <5>3
      <4> QED BY <4>1, <4>2
    <3>3. Gives(g[i + 1], J(i + 1))
      <4> HIDE DEF J
      <4> QED BY <3>1, <3>2 DEF Gives
    <3> QED BY <2>1, <3>3
  <2> QED BY <2>7, <2>8
<1>7. n \in T
  <2> HIDE DEF T, n
  <2>1. \A i \in 0 .. n : i \in T
    BY <1>1, <1>5, <1>6, IntervalInduction
  <2> QED BY <1>1, <2>1
<1>8. FlattenSeq(seqs) = J(n)
  <2>1. CASE n = 0
    <3>1. seqs = <<>>
      BY <1>1, <2>1 DEF seqs
    <3> QED BY <1>4, <2>1, <3>1
  <2>2. CASE n # 0
    BY <1>4, <2>2
  <2> QED BY <2>1, <2>2
<1>9. Gives(g[n], FlattenSeq(seqs))
  <2> HIDE DEF J
  <2> QED BY <1>7, <1>8
<1> QED BY <1>3, <1>9 DEF seqs

\* A file gives what its tree says, if the files below give what m says of them.
LEMMA FileAtGives ==
  ASSUME NEW source, NEW c \in Cids, NEW b \in Budgets, NEW fetch, NEW m,
         \A d \in Cids : \A e \in Budgets : Gives(fetch[d][e], m[d])
  PROVE  Gives(FileAt(source, c, fetch, b), Says(c, m))
<1> DEFINE got == fetchVerified(source, c, b)
           bytes == source[c]
           node == decodeNode(bytes)
           whole == FetchLinks(node, fetch, got)
           file == FileAt(source, c, fetch, b)
<1>1. got.budget \in Budgets /\ got.data = <<>> /\ (got.code = "OK" => bytes = c.digest)
  BY VerifiedIs
<1>2. c.digest \in Blocks
  BY UnixFsAssumption
<1>3. file = IF got.code # "OK" THEN got
             ELSE IF c.codec = "raw" THEN spendBytes(got.budget, DataOf(bytes))
             ELSE IF DecodeError(bytes) # "OK" THEN Refused(DecodeError(bytes), got.budget)
             ELSE IF node.type = "directory" THEN Refused("PATH_NOT_FOUND", got.budget)
             ELSE IF node.type # "file" \/ Len(node.blocksizes) # Len(node.links)
             THEN Refused("MALFORMED_BLOCK", got.budget)
             ELSE IF whole.code = "OK" /\ Len(whole.data) # node.filesize
             THEN Refused("MALFORMED_BLOCK", whole.budget)
             ELSE whole
  BY DEF FileAt
<1> HIDE DEF got, file
<1>4. CASE got.code # "OK"
  <2>1. file = got
    BY <1>3, <1>4
  <2> QED BY <1>1, <1>4, <2>1 DEF Gives, file
<1>5. CASE got.code = "OK" /\ c.codec = "raw"
  <2>1. file = spendBytes(got.budget, DataOf(c.digest)) /\ Says(c, m) = DataOf(c.digest)
    BY <1>1, <1>3, <1>5 DEF Says
  <2>2. DataOf(c.digest) \in Seq(Items)
    BY <1>2, DataType
  <2> QED BY <1>1, <2>1, <2>2, SpentIs DEF file
<1>6. ASSUME NEW code, code # "OK", file = Refused(code, got.budget) PROVE Gives(file, Says(c, m))
  BY <1>1, <1>6 DEF Gives, Refused, Result
<1>7. CASE got.code = "OK" /\ c.codec # "raw" /\ DecodeError(bytes) = "OK" /\ node.type = "file"
           /\ Len(node.blocksizes) = Len(node.links)
  <2>1. node = c.digest /\ c.digest.links \in Seq(Links)
    BY <1>1, <1>2, <1>7, NodeOf
  <2>2. Says(c, m) = FlattenSeq([i \in DOMAIN node.links |-> m[node.links[i].cid]])
    BY <1>7, <2>1 DEF Says
  <2>3. Gives(whole, Says(c, m))
    <3> HIDE DEF node
    <3>1. node.links \in Seq(Links) /\ got.code = "OK"
      BY <1>7, <2>1
    <3> QED BY <1>1, <2>2, <3>1, LinksGive
  <2>4. file = IF whole.code = "OK" /\ Len(whole.data) # node.filesize
               THEN Refused("MALFORMED_BLOCK", whole.budget) ELSE whole
    BY <1>3, <1>7
  <2> HIDE DEF whole, node
  <2>5. CASE whole.code = "OK" /\ Len(whole.data) # node.filesize
    BY <2>3, <2>4, <2>5 DEF Gives, Refused, Result, file
  <2>6. CASE ~(whole.code = "OK" /\ Len(whole.data) # node.filesize)
    BY <2>3, <2>4, <2>6 DEF file
  <2> QED BY <2>5, <2>6
<1>8. CASE /\ got.code = "OK" /\ c.codec # "raw"
           /\ ~(DecodeError(bytes) = "OK" /\ node.type = "file"
                /\ Len(node.blocksizes) = Len(node.links))
  <2> HIDE DEF node, whole, bytes
  <2>1. \/ DecodeError(bytes) # "OK" /\ file = Refused(DecodeError(bytes), got.budget)
        \/ file = Refused("PATH_NOT_FOUND", got.budget)
        \/ file = Refused("MALFORMED_BLOCK", got.budget)
    BY <1>3, <1>8
  <2> QED BY <1>6, <2>1 DEF file
<1> QED BY <1>4, <1>5, <1>7, <1>8

\* At every level a file gives what its tree says, read as deep or deeper.
LEMMA FilesGive ==
  ASSUME NEW source, NEW f, IsFiles(f, source, DEPTH + 1), NEW m, IsMeanings(m, DEPTH + 1)
  PROVE  \A n \in 0 .. (DEPTH + 1) : \A k \in n .. (DEPTH + 1) :
           \A c \in Cids : \A b \in Budgets : Gives(f[n][c][b], m[k][c])
<1> DEFINE D == DEPTH + 1
           Good(n, k) == \A c \in Cids : \A b \in Budgets : Gives(f[n][c][b], m[k][c])
           T == {n \in 0 .. D : \A k \in n .. D : Good(n, k)}
<1>1. D \in Nat /\ IsFiles(f, source, D) /\ IsMeanings(m, D)
  BY UnixFsAssumption
<1> HIDE DEF D
<1>2. /\ f[0] = TooDeep
      /\ \A n \in 1 .. D : f[n] = [c \in Cids |-> [b \in Budgets |-> FileAt(source, c, f[n - 1], b)]]
      /\ \A n \in 1 .. D : m[n] = [c \in Cids |-> Says(c, m[n - 1])]
  <2>1. 0 \in 0 .. D /\ \A n \in 1 .. D : n \in 0 .. D /\ n # 0
    BY <1>1
  <2>2. f[0] = TooDeep
    BY <1>1, <2>1 DEF IsFiles
  <2>3. ASSUME NEW n \in 1 .. D
        PROVE  f[n] = [c \in Cids |-> [b \in Budgets |-> FileAt(source, c, f[n - 1], b)]]
    <3>1. n \in 0 .. D /\ n # 0
      BY <2>1
    <3> QED BY <1>1, <3>1 DEF IsFiles
  <2>4. ASSUME NEW n \in 1 .. D PROVE m[n] = [c \in Cids |-> Says(c, m[n - 1])]
    <3>1. n \in 0 .. D /\ n # 0
      BY <2>1
    <3> QED BY <1>1, <3>1 DEF IsMeanings
  <2> QED BY <2>2, <2>3, <2>4
<1>3. 0 \in T
  <2> SUFFICES ASSUME NEW k \in 0 .. D, NEW c \in Cids, NEW b \in Budgets
               PROVE  Gives(f[0][c][b], m[k][c])
    BY <1>1
  <2>1. f[0][c][b] = Refused("RESPONSE_TOO_LARGE", b)
    BY <1>2 DEF TooDeep
  <2> QED BY <2>1 DEF Gives, Refused, Result
<1>4. ASSUME NEW n \in 0 .. (D - 1), n \in T PROVE n + 1 \in T
  <2>1. n + 1 \in 0 .. D /\ n + 1 \in 1 .. D /\ (n + 1) - 1 = n
    BY <1>1
  <2> SUFFICES ASSUME NEW k \in (n + 1) .. D, NEW c \in Cids, NEW b \in Budgets
               PROVE  Gives(f[n + 1][c][b], m[k][c])
    BY <2>1
  <2>2. k - 1 \in n .. D /\ k \in 1 .. D
    BY <1>1
  <2>3. f[n + 1][c][b] = FileAt(source, c, f[n], b) /\ m[k][c] = Says(c, m[k - 1])
    <3>1. f[n + 1] = [cc \in Cids |-> [bb \in Budgets |-> FileAt(source, cc, f[n], bb)]]
      BY <1>2, <2>1
    <3>2. m[k] = [cc \in Cids |-> Says(cc, m[k - 1])]
      BY <1>2, <2>2
    <3> QED BY <3>1, <3>2
  <2>4. Good(n, k - 1)
    BY <1>4, <2>2
  <2>5. Gives(FileAt(source, c, f[n], b), Says(c, m[k - 1]))
    BY <2>4, FileAtGives
  <2> QED BY <2>3, <2>5
<1>5. \A n \in 0 .. D : n \in T
  <2> HIDE DEF T
  <2> QED BY <1>1, <1>3, <1>4, IntervalInduction
<1> QED BY <1>5 DEF D

\* A segment that can be entered leads to the one entry of its name.
LEMMA EnterIs ==
  ASSUME NEW source, NEW at, at.code = "OK" => at.cid \in Cids, at.budget \in Budgets,
         NEW segment, NEW index, NEW to, to = Enter(source, at, segment, index),
         at = [cid |-> at.cid, code |-> at.code, budget |-> at.budget]
  PROVE  /\ to.budget \in Budgets /\ to = [cid |-> to.cid, code |-> to.code, budget |-> to.budget]
         /\ to.code = "OK" =>
              /\ at.code = "OK" /\ to.cid \in Cids
              /\ to.cid = (CHOOSE link \in ToSet(at.cid.digest.links) : link.name = segment).cid
              /\ at.cid.codec = "dag-pb" /\ at.cid.digest.type = "directory"
              /\ \E link \in ToSet(at.cid.digest.links) : link.name = segment /\ to.cid = link.cid
<1> DEFINE got == fetchVerified(source, at.cid, at.budget)
           bytes == source[at.cid]
           links == decodeNode(bytes).links
           matches == {j \in DOMAIN links : links[j].name = segment}
           stop(code, budget) == [at EXCEPT !.code = code, !.budget = budget]
           enter == [cid |-> links[CHOOSE j \in matches : TRUE].cid, code |-> "OK",
                     budget |-> got.budget]
<1>1. to = IF at.code # "OK" THEN at
           ELSE IF index > DEPTH THEN stop("RESPONSE_TOO_LARGE", at.budget)
           ELSE IF got.code # "OK" THEN stop(got.code, got.budget)
           ELSE IF at.cid.codec # "dag-pb" THEN stop("PATH_NOT_FOUND", got.budget)
           ELSE IF DecodeError(bytes) # "OK" THEN stop(DecodeError(bytes), got.budget)
           ELSE IF decodeNode(bytes).type # "directory" \/ matches = {}
           THEN stop("PATH_NOT_FOUND", got.budget)
           ELSE IF Cardinality(matches) > 1 THEN stop("MALFORMED_BLOCK", got.budget)
           ELSE enter
  BY DEF Enter
<1>2. got.budget \in Budgets /\ (got.code = "OK" => bytes = at.cid.digest)
  BY VerifiedIs
<1> HIDE DEF got, links, matches, bytes
<1>3. ASSUME NEW code, NEW budget \in Budgets, code # "OK", to = stop(code, budget)
      PROVE  /\ to.budget \in Budgets /\ to.code # "OK"
             /\ to = [cid |-> to.cid, code |-> to.code, budget |-> to.budget]
  <2>1. to = [cid |-> at.cid, code |-> code, budget |-> budget]
    BY <1>3
  <2> QED BY <1>3, <2>1
<1> HIDE DEF stop
<1>4. CASE at.code # "OK"
  BY <1>1, <1>4
<1>5. CASE /\ at.code = "OK" /\ ~(index > DEPTH) /\ got.code = "OK" /\ at.cid.codec = "dag-pb"
           /\ DecodeError(bytes) = "OK" /\ decodeNode(bytes).type = "directory"
           /\ matches # {} /\ ~(Cardinality(matches) > 1)
  <2>1. to = enter
    <3> HIDE DEF enter
    <3> QED BY <1>1, <1>5
  <2>2. links = at.cid.digest.links /\ links \in Seq(Links)
    <3>1. bytes = at.cid.digest /\ bytes \in Blocks
      BY <1>2, <1>5, UnixFsAssumption
    <3>2. decodeNode(bytes) = bytes /\ bytes.links \in Seq(Links)
      BY <1>5, <3>1, NodeOf
    <3> QED BY <3>1, <3>2 DEF links
  <2>3. DOMAIN links = 1 .. Len(links) /\ Len(links) \in Nat
    BY <2>2
  <2>4. PICK j : matches = {j}
    <3>1. matches \subseteq 1 .. Len(links)
      BY <2>3 DEF matches
    <3>2. IsFiniteSet(matches)
      <4> DEFINE n == Len(links)
      <4>1. IsFiniteSet(1 .. n)
        <5> HIDE DEF n
        <5>1. n \in Nat
          BY <2>3 DEF n
        <5> QED BY <5>1, FS_Interval
      <4> QED BY <3>1, <4>1, FS_Subset
    <3>3. Cardinality(matches) \in Nat /\ Cardinality(matches) # 0
      BY <1>5, <3>2, FS_CardinalityType, FS_EmptySet
    <3>4. Cardinality(matches) = 1
      BY <1>5, <3>3
    <3> QED BY <3>2, <3>4, FS_Singleton, Zenon
  <2>5. (CHOOSE i \in matches : TRUE) = j
    BY <2>4
  <2>6. j \in DOMAIN links /\ links[j].name = segment
    BY <2>4 DEF matches
  <2>7. links[j] \in Links
    <3> HIDE DEF Links
    <3> QED BY <2>2, <2>6
  <2>8. links[j] \in ToSet(links)
    BY <2>6 DEF ToSet
  <2>9. ASSUME NEW link \in ToSet(links), link.name = segment PROVE link = links[j]
    <3>1. PICK i \in DOMAIN links : link = links[i]
      BY DEF ToSet
    <3>2. i \in matches
      BY <2>9, <3>1 DEF matches
    <3> QED BY <2>4, <3>1, <3>2
  <2>10. (CHOOSE link \in ToSet(links) : link.name = segment) = links[j]
    BY <2>6, <2>8, <2>9
  <2>11. links[j].cid \in Cids
    BY <2>7 DEF Links
  <2>12. to = [cid |-> links[j].cid, code |-> "OK", budget |-> got.budget]
    BY <2>1, <2>5
  <2>13. to.cid = links[j].cid /\ to.budget = got.budget /\ to.code = "OK"
    BY <2>12
  <2>14. at.cid.digest.type = "directory"
    <3>1. bytes = at.cid.digest /\ bytes \in Blocks
      BY <1>2, <1>5, UnixFsAssumption
    <3>2. decodeNode(bytes) = bytes
      BY <1>5, <3>1, NodeOf
    <3> QED BY <1>5, <3>1, <3>2
  <2>15. \E link \in ToSet(at.cid.digest.links) : link.name = segment /\ to.cid = link.cid
    BY <2>2, <2>6, <2>8, <2>13
  <2> QED BY <1>2, <1>5, <2>2, <2>10, <2>11, <2>12, <2>13, <2>14, <2>15
<1>6. CASE /\ at.code = "OK"
           /\ ~(/\ ~(index > DEPTH) /\ got.code = "OK" /\ at.cid.codec = "dag-pb"
                /\ DecodeError(bytes) = "OK" /\ decodeNode(bytes).type = "directory"
                /\ matches # {} /\ ~(Cardinality(matches) > 1))
  <2> HIDE DEF enter
  <2>1. \/ to = stop("RESPONSE_TOO_LARGE", at.budget)
        \/ got.code # "OK" /\ to = stop(got.code, got.budget)
        \/ to = stop("PATH_NOT_FOUND", got.budget)
        \/ DecodeError(bytes) # "OK" /\ to = stop(DecodeError(bytes), got.budget)
        \/ to = stop("MALFORMED_BLOCK", got.budget)
    BY <1>1, <1>6
  <2> QED BY <1>2, <1>3, <2>1
<1> QED BY <1>4, <1>5, <1>6

\* A path that can be walked leads to what it names.
LEMMA WalkLeads ==
  ASSUME NEW source, NEW cid \in Cids, NEW path, NEW n \in Nat,
         NEW g, IsWalk(g, source, cid, path, n), NEW w, IsNames(w, cid, path, n)
  PROVE  g[n].budget \in Budgets /\ (g[n].code = "OK" => g[n].cid \in Cids /\ g[n].cid = w[n])
<1> DEFINE Good(i) ==
             /\ g[i].budget \in Budgets
             /\ g[i] = [cid |-> g[i].cid, code |-> g[i].code, budget |-> g[i].budget]
             /\ g[i].code = "OK" => g[i].cid \in Cids /\ g[i].cid = w[i]
           T == {i \in 0 .. n : Good(i)}
<1>1. 0 \in T
  <2>1. 0 \in 0 .. n
    OBVIOUS
  <2>2. g[0] = [cid |-> cid, code |-> "OK", budget |-> Budget] /\ w[0] = cid
    BY <2>1 DEF IsWalk, IsNames
  <2>3. Budget \in Budgets
    BY DEF Budget, Budgets
  <2> QED BY <2>1, <2>2, <2>3
<1>2. ASSUME NEW i \in 0 .. (n - 1), i \in T PROVE i + 1 \in T
  <2>1. i + 1 \in 0 .. n /\ i + 1 # 0 /\ (i + 1) - 1 = i
    OBVIOUS
  <2>2. g[i + 1] = Enter(source, g[i], path[i + 1], i)
    BY <2>1 DEF IsWalk
  <2>3. w[i + 1] = (CHOOSE link \in ToSet(w[i].digest.links) : link.name = path[i + 1]).cid
    BY <2>1 DEF IsNames
  <2>4. Good(i)
    BY <1>2
  <2>5. /\ g[i + 1].budget \in Budgets
        /\ g[i + 1] = [cid |-> g[i + 1].cid, code |-> g[i + 1].code, budget |-> g[i + 1].budget]
        /\ g[i + 1].code = "OK" =>
             /\ g[i].code = "OK" /\ g[i + 1].cid \in Cids
             /\ g[i + 1].cid =
                  (CHOOSE link \in ToSet(g[i].cid.digest.links) : link.name = path[i + 1]).cid
    BY <2>2, <2>4, EnterIs
  <2>6. g[i + 1].code = "OK" => g[i + 1].cid \in Cids /\ g[i + 1].cid = w[i + 1]
    BY <2>3, <2>4, <2>5
  <2> QED BY <2>1, <2>5, <2>6
<1>3. \A i \in 0 .. n : i \in T
  <2> HIDE DEF T
  <2> QED BY <1>1, <1>2, IntervalInduction
<1>4. n \in T
  <2> HIDE DEF T
  <2> QED BY <1>3
<1> QED BY <1>4

\* Whatever blocks a source offers, a fetch that succeeds gives what the tree says.
LEMMA FetchGives ==
  ASSUME NEW source, NEW cid \in Cids, NEW path \in Seq(Nat),
         fetchPath(source, cid, path).code = "OK"
  PROVE  fetchPath(source, cid, path).data = MeaningAt(cid, path)
<1> DEFINE n == Len(path)
<1>1. n \in Nat /\ DEPTH \in Nat
  BY UnixFsAssumption
<1>2. PICK g : /\ IsWalk(g, source, cid, path, n)
               /\ fetchPath(source, cid, path) =
                    IF \E i \in DOMAIN path : path[i] \in Dots
                    THEN Refused("PATH_NOT_FOUND", Budget)
                    ELSE IF g[n].code # "OK" THEN Refused(g[n].code, g[n].budget)
                    ELSE fetchFile(source, g[n].cid, n, g[n].budget)
  BY FetchPathIs
<1>3. PICK m, w : /\ IsMeanings(m, DEPTH + 1) /\ IsNames(w, cid, path, n)
                  /\ MeaningAt(cid, path) = m[DEPTH + 1][w[n]]
  BY MeaningAtIs
<1> HIDE DEF n
<1>4. g[n].code = "OK" /\ fetchPath(source, cid, path) = fetchFile(source, g[n].cid, n, g[n].budget)
  BY <1>2 DEF Refused, Result
<1>5. g[n].budget \in Budgets /\ g[n].cid \in Cids /\ g[n].cid = w[n]
  BY <1>1, <1>2, <1>3, <1>4, WalkLeads
<1>6. PICK f : /\ IsFiles(f, source, DEPTH + 1)
               /\ \A c, depth, budget :
                    fetchFile(source, c, depth, budget) =
                      IF depth > DEPTH THEN Refused("RESPONSE_TOO_LARGE", budget)
                      ELSE f[DEPTH + 1 - depth][c][budget]
  BY FetchFileIs
<1> DEFINE k == DEPTH + 1 - n
<1>7. ~(n > DEPTH) /\ fetchFile(source, g[n].cid, n, g[n].budget) = f[k][g[n].cid][g[n].budget]
  BY <1>4, <1>6 DEF Refused, Result
<1>8. k \in 0 .. (DEPTH + 1) /\ DEPTH + 1 \in k .. (DEPTH + 1)
  BY <1>1, <1>7
<1> HIDE DEF k
<1>9. Gives(f[k][g[n].cid][g[n].budget], m[DEPTH + 1][g[n].cid])
  BY <1>3, <1>5, <1>6, <1>8, FilesGive
<1> QED BY <1>3, <1>4, <1>5, <1>7, <1>9 DEF Gives

\* Over the blocks as peers answered them, right or wrong, a fetch that succeeds gives
\* what the requested tree says is at the path, for any tree, peers, paths and limits
\* (fetch.ts fetchVerified).
THEOREM FetchIsTrueHolds == Spec => []FetchIsTrue
<1>1. PullInv => FetchIsTrue
  <2> SUFFICES ASSUME PullInv, NEW path \in Paths, fetchPath(offered, root, path).code = "OK"
               PROVE  fetchPath(offered, root, path).data = MeaningAt(root, path)
    BY DEF FetchIsTrue
  <2>1. root \in Cids /\ path \in Seq(Nat)
    BY ContentAssumption DEF PullInv, PullTypeOK
  <2> QED BY <2>1, FetchGives
<1> QED BY <1>1, PullAlways, PTL

-----------------------------------------------------------------------------
(***************************************************************************)
(* A pull that ended well lacks nothing a fetch would ask for.             *)
(***************************************************************************)

\* Blocks that are what their CIDs name, small enough, with all that they link to.
Whole(source) ==
  /\ DOMAIN source \subseteq Cids
  /\ \A c \in DOMAIN source :
       /\ source[c] = c.digest /\ IsCid(c) /\ SizeOf(source[c]) <= BLOCK_BYTES
       /\ Kids(c) \subseteq DOMAIN source

Faults == {"CONTENT_UNAVAILABLE", "CONTENT_INTEGRITY"}

\* A result that does not blame a block.
Blameless(result) == result.budget \in Budgets /\ result.code \notin Faults

\* Fetching a block that is held blames no block.
LEMMA WholeVerified ==
  ASSUME NEW source, Whole(source), NEW c \in DOMAIN source, NEW b \in Budgets
  PROVE  /\ Blameless(fetchVerified(source, c, b))
         /\ fetchVerified(source, c, b).code \in {"OK", "RESPONSE_TOO_LARGE"}
         /\ source[c] \in Blocks /\ c \in Cids /\ DecodeError(source[c]) \notin Faults
<1>1. c \in Cids /\ source[c] = c.digest /\ IsCid(c) /\ SizeOf(source[c]) <= BLOCK_BYTES
  BY DEF Whole
<1>2. source[c] \in Blocks
  BY <1>1, UnixFsAssumption
<1>3. SizeOf(source[c]) \in Nat /\ BLOCK_BYTES \in Nat
  BY <1>2, SizeType, UnixFsAssumption
<1>4. VerifyCode(source, c) = "OK"
  BY <1>1, <1>3 DEF VerifyCode
<1>5. Blameless(fetchVerified(source, c, b)) /\ fetchVerified(source, c, b).code \in {"OK", "RESPONSE_TOO_LARGE"}
  BY <1>4, VerifiedIs DEF Blameless, Faults
<1>6. DecodeError(source[c]) \notin Faults
  BY DEF DecodeError, Faults
<1> QED BY <1>1, <1>2, <1>5, <1>6

\* What a fetch goes on to from a block is what the pull followed.
LEMMA WholeLinks ==
  ASSUME NEW source, Whole(source), NEW c \in DOMAIN source, c.codec # "raw",
         DecodeError(source[c]) = "OK"
  PROVE  /\ decodeNode(source[c]).links \in Seq(Links)
         /\ \A i \in DOMAIN decodeNode(source[c]).links :
              decodeNode(source[c]).links[i].cid \in DOMAIN source
<1> DEFINE links == decodeNode(source[c]).links
<1>1. c \in Cids /\ source[c] = c.digest /\ c.codec = "dag-pb" /\ Kids(c) \subseteq DOMAIN source
  BY DEF Whole, IsCid
<1>2. links \in Seq(Links)
  BY <1>1, UnixFsAssumption, NodeOf
<1>3. childrenOf(c, c.digest) = [i \in DOMAIN links |-> links[i].cid]
  BY <1>1 DEF childrenOf
<1>4. \A i \in DOMAIN links : links[i].cid \in Kids(c)
  <2> HIDE DEF links
  <2> QED BY <1>3 DEF Kids, ToSet
<1> QED BY <1>1, <1>2, <1>4

\* Nor do its links, if fetching each of them does not.
LEMMA LinksBlameless ==
  ASSUME NEW node, node.links \in Seq(Links), NEW fetch, NEW D, D \subseteq Cids,
         \A i \in DOMAIN node.links : node.links[i].cid \in D,
         \A c \in D : \A b \in Budgets : Blameless(fetch[c][b]),
         NEW got, Blameless(got)
  PROVE  Blameless(FetchLinks(node, fetch, got))
<1> DEFINE links == node.links
           n == Len(links)
<1>1. n \in Nat /\ DOMAIN links = 1 .. n
  <2> HIDE DEF Links
  <2> QED OBVIOUS
<1>2. PICK g : IsParts(g, node, fetch, got, n) /\ FetchLinks(node, fetch, got) = g[n]
  BY <1>1, FetchLinksIs
<1> DEFINE T == {i \in 0 .. n : Blameless(g[i])}
<1>3. 0 \in T
  <2>1. g[0] = got
    BY <1>1, <1>2 DEF IsParts
  <2> QED BY <1>1, <2>1
<1>4. ASSUME NEW i \in 0 .. (n - 1), i \in T PROVE i + 1 \in T
  <2> DEFINE before == g[i]
             part == fetch[links[i + 1].cid][before.budget]
  <2>1. i + 1 \in 0 .. n /\ i + 1 \in 1 .. n /\ i + 1 # 0 /\ (i + 1) - 1 = i
    BY <1>1
  <2>2. g[i + 1] = IF before.code # "OK" THEN before
                   ELSE Join(before, part, node.blocksizes[i + 1])
    BY <1>2, <2>1 DEF IsParts
  <2>3. Blameless(before)
    BY <1>4
  <2>4. links[i + 1].cid \in D
    BY <1>1, <2>1
  <2>5. Blameless(part)
    BY <2>3, <2>4 DEF Blameless
  <2> HIDE DEF part, before
  <2>6. Blameless(Join(before, part, node.blocksizes[i + 1]))
    <3> DEFINE size == node.blocksizes[i + 1]
    <3> HIDE DEF size
    <3>1. CASE part.code # "OK"
      BY <2>5, <3>1 DEF Join, size
    <3>2. CASE part.code = "OK"
      <4>1. Join(before, part, size).budget = part.budget
        BY <3>2 DEF Join, Refused, Result
      <4>2. Join(before, part, size).code \in {"OK", "MALFORMED_BLOCK"}
        BY <3>2 DEF Join, Refused, Result
      <4> QED BY <2>5, <4>1, <4>2 DEF Blameless, Faults, size
    <3> QED BY <3>1, <3>2
  <2>7. Blameless(g[i + 1])
    BY <2>2, <2>3, <2>6
  <2> QED BY <2>1, <2>7
<1>5. \A i \in 0 .. n : i \in T
  <2> HIDE DEF T, n
  <2> QED BY <1>1, <1>3, <1>4, IntervalInduction
<1>6. n \in T
  <2> HIDE DEF T, n
  <2> QED BY <1>1, <1>5
<1> QED BY <1>2, <1>6

\* Nor does a file, if the files below do not.
LEMMA FileAtBlameless ==
  ASSUME NEW source, Whole(source), NEW c \in DOMAIN source, NEW b \in Budgets, NEW fetch,
         \A d \in DOMAIN source : \A e \in Budgets : Blameless(fetch[d][e])
  PROVE  Blameless(FileAt(source, c, fetch, b))
<1> DEFINE got == fetchVerified(source, c, b)
           bytes == source[c]
           node == decodeNode(bytes)
           whole == FetchLinks(node, fetch, got)
           file == FileAt(source, c, fetch, b)
<1>1. Blameless(got) /\ bytes \in Blocks /\ DecodeError(bytes) \notin Faults
  BY WholeVerified
<1>2. file = IF got.code # "OK" THEN got
             ELSE IF c.codec = "raw" THEN spendBytes(got.budget, DataOf(bytes))
             ELSE IF DecodeError(bytes) # "OK" THEN Refused(DecodeError(bytes), got.budget)
             ELSE IF node.type = "directory" THEN Refused("PATH_NOT_FOUND", got.budget)
             ELSE IF node.type # "file" \/ Len(node.blocksizes) # Len(node.links)
             THEN Refused("MALFORMED_BLOCK", got.budget)
             ELSE IF whole.code = "OK" /\ Len(whole.data) # node.filesize
             THEN Refused("MALFORMED_BLOCK", whole.budget)
             ELSE whole
  BY DEF FileAt
<1> HIDE DEF got, file
<1>3. ASSUME NEW code, code \notin Faults, NEW budget \in Budgets, file = Refused(code, budget)
      PROVE  Blameless(file)
  BY <1>3 DEF Blameless, Refused, Result
<1>4. got.budget \in Budgets
  BY <1>1 DEF Blameless
<1>5. CASE got.code # "OK"
  BY <1>1, <1>2, <1>5 DEF file
<1>6. CASE got.code = "OK" /\ c.codec = "raw"
  <2>1. file = spendBytes(got.budget, DataOf(bytes)) /\ DataOf(bytes) \in Seq(Items)
    BY <1>1, <1>2, <1>6, DataType
  <2>2. file.budget \in Budgets /\ file.code \in {"OK", "RESPONSE_TOO_LARGE"}
    BY <1>4, <2>1, SpentIs DEF Gives
  <2> QED BY <2>2 DEF Blameless, Faults, file
<1>7. CASE got.code = "OK" /\ c.codec # "raw" /\ DecodeError(bytes) # "OK"
  <2>1. file = Refused(DecodeError(bytes), got.budget)
    BY <1>2, <1>7
  <2> QED BY <1>1, <1>3, <1>4, <2>1 DEF file
<1>8. CASE got.code = "OK" /\ c.codec # "raw" /\ DecodeError(bytes) = "OK"
  <2>1. /\ node.links \in Seq(Links) /\ DOMAIN source \subseteq Cids
        /\ \A i \in DOMAIN node.links : node.links[i].cid \in DOMAIN source
    BY <1>8, WholeLinks DEF Whole
  <2>2. Blameless(whole)
    <3> HIDE DEF node
    <3> QED BY <1>1, <2>1, LinksBlameless
  <2> HIDE DEF node, whole, bytes
  <2>3. whole.budget \in Budgets
    BY <2>2 DEF Blameless
  <2>4. {"PATH_NOT_FOUND", "MALFORMED_BLOCK"} \cap Faults = {}
    BY DEF Faults
  <2>5. \/ file = Refused("PATH_NOT_FOUND", got.budget)
        \/ file = Refused("MALFORMED_BLOCK", got.budget)
        \/ file = Refused("MALFORMED_BLOCK", whole.budget)
        \/ file = whole
    BY <1>2, <1>8
  <2> QED BY <1>3, <1>4, <2>2, <2>3, <2>4, <2>5 DEF file
<1> QED BY <1>5, <1>6, <1>7, <1>8

\* Nor does a file at any level.
LEMMA FilesBlameless ==
  ASSUME NEW source, Whole(source), NEW f, IsFiles(f, source, DEPTH + 1)
  PROVE  \A n \in 0 .. (DEPTH + 1) :
           \A c \in DOMAIN source : \A b \in Budgets : Blameless(f[n][c][b])
<1> DEFINE D == DEPTH + 1
           T == {n \in 0 .. D : \A c \in DOMAIN source : \A b \in Budgets : Blameless(f[n][c][b])}
<1>1. D \in Nat /\ IsFiles(f, source, D) /\ DOMAIN source \subseteq Cids
  BY UnixFsAssumption DEF Whole
<1> HIDE DEF D
<1>2. 0 \in T
  <2> SUFFICES ASSUME NEW c \in DOMAIN source, NEW b \in Budgets PROVE Blameless(f[0][c][b])
    BY <1>1
  <2>1. 0 \in 0 .. D
    BY <1>1
  <2>2. f[0] = TooDeep
    BY <1>1, <2>1 DEF IsFiles
  <2>3. f[0][c][b] = Refused("RESPONSE_TOO_LARGE", b)
    BY <1>1, <2>2 DEF TooDeep
  <2> QED BY <2>3 DEF Blameless, Faults, Refused, Result
<1>3. ASSUME NEW n \in 0 .. (D - 1), n \in T PROVE n + 1 \in T
  <2>1. n + 1 \in 0 .. D /\ n + 1 # 0 /\ (n + 1) - 1 = n
    BY <1>1
  <2> SUFFICES ASSUME NEW c \in DOMAIN source, NEW b \in Budgets PROVE Blameless(f[n + 1][c][b])
    BY <2>1
  <2>2. f[n + 1] = [cc \in Cids |-> [bb \in Budgets |-> FileAt(source, cc, f[n], bb)]]
    <3> DEFINE k == n + 1
    <3>1. k \in 0 .. D /\ k # 0 /\ k - 1 = n
      BY <2>1
    <3> HIDE DEF k
    <3>2. f[k] = [cc \in Cids |-> [bb \in Budgets |-> FileAt(source, cc, f[k - 1], bb)]]
      BY <1>1, <3>1 DEF IsFiles
    <3>3. f[k] = [cc \in Cids |-> [bb \in Budgets |-> FileAt(source, cc, f[n], bb)]]
      BY <3>1, <3>2
    <3> QED BY <3>3 DEF k
  <2>3. f[n + 1][c][b] = FileAt(source, c, f[n], b)
    BY <1>1, <2>2
  <2>4. \A d \in DOMAIN source : \A e \in Budgets : Blameless(f[n][d][e])
    BY <1>3
  <2>5. Blameless(FileAt(source, c, f[n], b))
    BY <2>4, FileAtBlameless
  <2> QED BY <2>3, <2>5
<1>4. \A n \in 0 .. D : n \in T
  <2> HIDE DEF T
  <2> QED BY <1>1, <1>2, <1>3, IntervalInduction
<1> QED BY <1>4 DEF D

\* Nor does a segment of a path, which leads to a block that is held.
LEMMA EnterBlameless ==
  ASSUME NEW source, Whole(source), NEW at, Blameless(at),
         at = [cid |-> at.cid, code |-> at.code, budget |-> at.budget], at.cid \in DOMAIN source,
         NEW segment, NEW index, NEW to, to = Enter(source, at, segment, index)
  PROVE  /\ Blameless(to) /\ to = [cid |-> to.cid, code |-> to.code, budget |-> to.budget]
         /\ to.cid \in DOMAIN source
<1> DEFINE got == fetchVerified(source, at.cid, at.budget)
           bytes == source[at.cid]
           links == decodeNode(bytes).links
           matches == {j \in DOMAIN links : links[j].name = segment}
           stop(code, budget) == [at EXCEPT !.code = code, !.budget = budget]
           enter == [cid |-> links[CHOOSE j \in matches : TRUE].cid, code |-> "OK",
                     budget |-> got.budget]
<1>1. to = IF at.code # "OK" THEN at
           ELSE IF index > DEPTH THEN stop("RESPONSE_TOO_LARGE", at.budget)
           ELSE IF got.code # "OK" THEN stop(got.code, got.budget)
           ELSE IF at.cid.codec # "dag-pb" THEN stop("PATH_NOT_FOUND", got.budget)
           ELSE IF DecodeError(bytes) # "OK" THEN stop(DecodeError(bytes), got.budget)
           ELSE IF decodeNode(bytes).type # "directory" \/ matches = {}
           THEN stop("PATH_NOT_FOUND", got.budget)
           ELSE IF Cardinality(matches) > 1 THEN stop("MALFORMED_BLOCK", got.budget)
           ELSE enter
  BY DEF Enter
<1>2. at.budget \in Budgets
  BY DEF Blameless
<1>3. Blameless(got) /\ DecodeError(bytes) \notin Faults
  BY <1>2, WholeVerified
<1> HIDE DEF got, links, matches, bytes
<1>4. got.budget \in Budgets /\ got.code \notin Faults
  BY <1>3 DEF Blameless
<1>5. ASSUME NEW code, NEW budget \in Budgets, code \notin Faults, to = stop(code, budget)
      PROVE  /\ Blameless(to) /\ to = [cid |-> to.cid, code |-> to.code, budget |-> to.budget]
             /\ to.cid \in DOMAIN source
  <2>1. to = [cid |-> at.cid, code |-> code, budget |-> budget]
    BY <1>5
  <2>2. to.cid = at.cid /\ to.code = code /\ to.budget = budget
    BY <2>1
  <2> QED BY <1>5, <2>1, <2>2 DEF Blameless
<1> HIDE DEF stop
<1>6. CASE at.code # "OK"
  BY <1>1, <1>6
<1>7. CASE /\ at.code = "OK" /\ ~(index > DEPTH) /\ got.code = "OK" /\ at.cid.codec = "dag-pb"
           /\ DecodeError(bytes) = "OK" /\ decodeNode(bytes).type = "directory"
           /\ matches # {} /\ ~(Cardinality(matches) > 1)
  <2>1. to = enter
    <3> HIDE DEF enter
    <3> QED BY <1>1, <1>7
  <2>2. \A i \in DOMAIN links : links[i].cid \in DOMAIN source
    <3>1. at.cid.codec # "raw" /\ DecodeError(source[at.cid]) = "OK"
      BY <1>7 DEF bytes
    <3> QED BY <3>1, WholeLinks DEF links, bytes
  <2>3. (CHOOSE j \in matches : TRUE) \in DOMAIN links
    BY <1>7 DEF matches
  <2>4. to.cid \in DOMAIN source /\ to.code = "OK" /\ to.budget = got.budget
    BY <2>1, <2>2, <2>3
  <2>5. to = [cid |-> to.cid, code |-> to.code, budget |-> to.budget]
    BY <2>1
  <2> QED BY <1>4, <2>4, <2>5 DEF Blameless, Faults
<1>8. CASE /\ at.code = "OK"
           /\ ~(/\ ~(index > DEPTH) /\ got.code = "OK" /\ at.cid.codec = "dag-pb"
                /\ DecodeError(bytes) = "OK" /\ decodeNode(bytes).type = "directory"
                /\ matches # {} /\ ~(Cardinality(matches) > 1))
  <2> HIDE DEF enter
  <2>1. \/ to = stop("RESPONSE_TOO_LARGE", at.budget)
        \/ to = stop(got.code, got.budget)
        \/ to = stop("PATH_NOT_FOUND", got.budget)
        \/ to = stop(DecodeError(bytes), got.budget)
        \/ to = stop("MALFORMED_BLOCK", got.budget)
    BY <1>1, <1>8
  <2>2. {"RESPONSE_TOO_LARGE", "PATH_NOT_FOUND", "MALFORMED_BLOCK"} \cap Faults = {}
    BY DEF Faults
  <2> QED BY <1>2, <1>3, <1>4, <1>5, <2>1, <2>2
<1> QED BY <1>6, <1>7, <1>8

\* Over blocks that are whole, no fetch lacks or distrusts a block.
LEMMA FetchBlameless ==
  ASSUME NEW source, Whole(source), NEW cid \in DOMAIN source, NEW path \in Seq(Nat)
  PROVE  fetchPath(source, cid, path).code \notin Faults
<1> DEFINE n == Len(path)
<1>1. n \in Nat /\ DEPTH \in Nat
  BY UnixFsAssumption
<1>2. PICK g : /\ IsWalk(g, source, cid, path, n)
               /\ fetchPath(source, cid, path) =
                    IF \E i \in DOMAIN path : path[i] \in Dots
                    THEN Refused("PATH_NOT_FOUND", Budget)
                    ELSE IF g[n].code # "OK" THEN Refused(g[n].code, g[n].budget)
                    ELSE fetchFile(source, g[n].cid, n, g[n].budget)
  <2>1. cid \in Cids
    BY DEF Whole
  <2> QED BY <2>1, FetchPathIs
<1> HIDE DEF n
<1> DEFINE Good(i) ==
             /\ Blameless(g[i]) /\ g[i].cid \in DOMAIN source
             /\ g[i] = [cid |-> g[i].cid, code |-> g[i].code, budget |-> g[i].budget]
           T == {i \in 0 .. n : Good(i)}
<1>3. 0 \in T
  <2>1. 0 \in 0 .. n
    BY <1>1
  <2>2. g[0] = [cid |-> cid, code |-> "OK", budget |-> Budget]
    BY <1>2, <2>1 DEF IsWalk
  <2>3. Budget \in Budgets
    BY DEF Budget, Budgets
  <2> QED BY <2>1, <2>2, <2>3 DEF Blameless, Faults
<1>4. ASSUME NEW i \in 0 .. (n - 1), i \in T PROVE i + 1 \in T
  <2>1. i + 1 \in 0 .. n /\ i + 1 # 0 /\ (i + 1) - 1 = i
    BY <1>1
  <2>2. g[i + 1] = Enter(source, g[i], path[i + 1], i)
    BY <1>2, <2>1 DEF IsWalk
  <2>3. Good(i)
    BY <1>4
  <2>4. Good(i + 1)
    BY <2>2, <2>3, EnterBlameless
  <2> QED BY <2>1, <2>4
<1>5. Good(n)
  <2> HIDE DEF T
  <2>1. \A i \in 0 .. n : i \in T
    BY <1>1, <1>3, <1>4, IntervalInduction
  <2>2. n \in T
    BY <1>1, <2>1
  <2> QED BY <2>2 DEF T
<1>6. CASE \E i \in DOMAIN path : path[i] \in Dots
  BY <1>2, <1>6 DEF Refused, Result, Faults
<1>7. CASE ~(\E i \in DOMAIN path : path[i] \in Dots) /\ g[n].code # "OK"
  BY <1>2, <1>5, <1>7 DEF Refused, Result, Blameless
<1>8. CASE ~(\E i \in DOMAIN path : path[i] \in Dots) /\ g[n].code = "OK"
  <2>1. PICK f : /\ IsFiles(f, source, DEPTH + 1)
                 /\ \A c, depth, budget :
                      fetchFile(source, c, depth, budget) =
                        IF depth > DEPTH THEN Refused("RESPONSE_TOO_LARGE", budget)
                        ELSE f[DEPTH + 1 - depth][c][budget]
    BY FetchFileIs
  <2>2. fetchPath(source, cid, path) = fetchFile(source, g[n].cid, n, g[n].budget)
    BY <1>2, <1>8
  <2>3. CASE n > DEPTH
    <3>1. fetchPath(source, cid, path) = Refused("RESPONSE_TOO_LARGE", g[n].budget)
      BY <2>1, <2>2, <2>3
    <3> QED BY <3>1 DEF Refused, Result, Faults
  <2>4. CASE ~(n > DEPTH)
    <3> DEFINE k == DEPTH + 1 - n
    <3>1. fetchPath(source, cid, path) = f[k][g[n].cid][g[n].budget]
      BY <2>1, <2>2, <2>4
    <3>2. k \in 0 .. (DEPTH + 1)
      BY <1>1, <2>4
    <3> HIDE DEF k
    <3>3. g[n].cid \in DOMAIN source /\ g[n].budget \in Budgets
      BY <1>5 DEF Blameless
    <3>4. Blameless(f[k][g[n].cid][g[n].budget])
      BY <2>1, <3>2, <3>3, FilesBlameless
    <3> QED BY <3>1, <3>4 DEF Blameless
  <2> QED BY <2>3, <2>4
<1> QED BY <1>6, <1>7, <1>8

\* After a pull that ended well, the traversal lacks no block and distrusts none, for
\* any tree, answers, paths and limits (blockstore.ts childrenOf against fetch.ts).
THEOREM PullSufficesHolds == Spec => []PullSuffices
<1>1. PullInv => PullSuffices
  <2> SUFFICES ASSUME PullInv, status = "done", NEW path \in Paths
               PROVE  fetchPath(held, root, path).code \notin Faults
    BY DEF PullSuffices, Faults
  <2>1. DOMAIN held \subseteq Cids /\ root \in DOMAIN held /\ path \in Seq(Nat)
    BY ContentAssumption DEF PullInv, PullTypeOK, ClosesInv
  <2>2. \A c \in DOMAIN held : Kids(c) \subseteq DOMAIN held
    BY DEF PullInv, ClosesInv
  <2>3. Whole(held)
    BY <2>1, <2>2 DEF Whole, PullInv, HoldsInv
  <2> QED BY <2>1, <2>3, FetchBlameless
<1> QED BY <1>1, PullAlways, PTL

-----------------------------------------------------------------------------
(***************************************************************************)
(* What an importer makes of a site: one directory per prefix of a path.   *)
(***************************************************************************)

\* Entries whose names differ are put in an order: each of them once.
LEMMA ByNameIs ==
  ASSUME NEW E, IsFiniteSet(E), \A e \in E : e.name \in Nat,
         \A e, f \in E : e.name = f.name => e = f
  PROVE  /\ Cardinality(E) \in Nat /\ DOMAIN ByName(E) = 1 .. Cardinality(E)
         /\ \A i \in 1 .. Cardinality(E) : ByName(E)[i] \in E
         /\ \A e \in E : \E i \in 1 .. Cardinality(E) : ByName(E)[i] = e
         /\ \A i, j \in 1 .. Cardinality(E) : ByName(E)[i] = ByName(E)[j] => i = j
<1> DEFINE n == Cardinality(E)
           Less(e) == {f \in E : f.name < e.name}
           rank == [e \in E |-> Cardinality(Less(e))]
<1>1. n \in Nat
  BY FS_CardinalityType
<1>2. ASSUME NEW e \in E
      PROVE  IsFiniteSet(Less(e)) /\ Cardinality(Less(e)) \in Nat /\ Cardinality(Less(e)) < n
  <2>1. Less(e) \in SUBSET E /\ Less(e) # E
    <3>1. e \notin Less(e)
      OBVIOUS
    <3> QED BY <3>1
  <2> HIDE DEF Less
  <2>2. IsFiniteSet(Less(e)) /\ Cardinality(Less(e)) <= n /\ Cardinality(Less(e)) # n
    BY <2>1, FS_Subset
  <2>3. Cardinality(Less(e)) \in Nat
    BY <2>2, FS_CardinalityType
  <2> QED BY <1>1, <2>2, <2>3
<1>3. ASSUME NEW e \in E, NEW f \in E, e.name < f.name PROVE rank[e] < rank[f]
  <2>1. Less(e) \in SUBSET Less(f) /\ e \in Less(f) /\ e \notin Less(e)
    BY <1>3
  <2>2. Less(e) # Less(f)
    BY <2>1
  <2>3. IsFiniteSet(Less(f)) /\ Cardinality(Less(e)) \in Nat /\ Cardinality(Less(f)) \in Nat
    BY <1>2
  <2>4. rank[e] = Cardinality(Less(e)) /\ rank[f] = Cardinality(Less(f))
    OBVIOUS
  <2> HIDE DEF Less, rank
  <2>5. Cardinality(Less(e)) <= Cardinality(Less(f)) /\ Cardinality(Less(e)) # Cardinality(Less(f))
    BY <2>1, <2>2, <2>3, FS_Subset
  <2> QED BY <2>3, <2>4, <2>5
<1>4. rank \in [E -> 0 .. (n - 1)]
  <2>1. ASSUME NEW e \in E PROVE Cardinality(Less(e)) \in 0 .. (n - 1)
    <3> HIDE DEF Less, n
    <3> QED BY <1>1, <1>2
  <2> HIDE DEF Less
  <2> QED BY <2>1
<1>5. ASSUME NEW e \in E, NEW f \in E, rank[e] = rank[f] PROVE e = f
  <2> HIDE DEF rank
  <2>1. rank[e] \in Nat /\ rank[f] \in Nat
    BY <1>1, <1>4
  <2>2. ~(e.name < f.name) /\ ~(f.name < e.name)
    BY <1>3, <1>5, <2>1
  <2>3. e.name = f.name
    BY <2>2
  <2> QED BY <2>3
<1>6. rank \in Injection(E, 0 .. (n - 1))
  <2> HIDE DEF rank, n
  <2> QED BY <1>4, <1>5, Zenon DEF Injection, IsInjective
<1>7. IsFiniteSet(0 .. (n - 1)) /\ Cardinality(0 .. (n - 1)) = n
  <2> HIDE DEF n
  <2>1. 0 \in Int /\ n - 1 \in Int
    BY <1>1
  <2>2. /\ IsFiniteSet(0 .. (n - 1))
        /\ Cardinality(0 .. (n - 1)) = IF 0 > n - 1 THEN 0 ELSE (n - 1) - 0 + 1
    BY <2>1, FS_Interval
  <2> QED BY <1>1, <2>2
<1>8. rank \in Surjection(E, 0 .. (n - 1))
  <2> HIDE DEF rank
  <2>1. Cardinality(E) = Cardinality(0 .. (n - 1))
    BY <1>7
  <2> QED BY <1>6, <1>7, <2>1, FS_Injection
<1>9. \A e \in E : rank[e] = Cardinality({f \in E : f.name < e.name})
  OBVIOUS
<1> HIDE DEF rank, n
<1>10. ByName(E) = [i \in 1 .. n |-> CHOOSE e \in E : rank[e] = i - 1]
  <2>1. ASSUME NEW i \in 1 .. n
        PROVE  (CHOOSE e \in E : Cardinality({f \in E : f.name < e.name}) = i - 1)
               = (CHOOSE e \in E : rank[e] = i - 1)
    BY <1>9
  <2>2. ByName(E) = [i \in 1 .. n |-> CHOOSE e \in E : Cardinality({f \in E : f.name < e.name}) = i - 1]
    BY DEF ByName, n
  <2> QED BY <2>1, <2>2, Zenon
<1>11. ASSUME NEW i \in 1 .. n PROVE ByName(E)[i] \in E /\ rank[ByName(E)[i]] = i - 1
  <2>1. i - 1 \in 0 .. (n - 1)
    BY <1>1
  <2>2. \E e \in E : rank[e] = i - 1
    BY <1>8, <2>1 DEF Surjection
  <2>3. ByName(E)[i] = CHOOSE e \in E : rank[e] = i - 1
    BY <1>10
  <2> QED BY <2>2, <2>3
<1>12. ASSUME NEW e \in E PROVE \E i \in 1 .. n : ByName(E)[i] = e
  <2>1. rank[e] \in 0 .. (n - 1)
    BY <1>4
  <2>2. rank[e] + 1 \in 1 .. n /\ (rank[e] + 1) - 1 = rank[e]
    BY <1>1, <2>1
  <2> DEFINE i == rank[e] + 1
  <2>3. i \in 1 .. n /\ i - 1 = rank[e]
    BY <2>2
  <2> HIDE DEF i
  <2>4. ByName(E)[i] \in E /\ rank[ByName(E)[i]] = rank[e]
    BY <1>11, <2>3
  <2> QED BY <1>5, <2>3, <2>4
<1>13. ASSUME NEW i \in 1 .. n, NEW j \in 1 .. n, ByName(E)[i] = ByName(E)[j] PROVE i = j
  <2>1. i - 1 = j - 1
    BY <1>11, <1>13
  <2> QED BY <1>1, <2>1
<1>14. DOMAIN ByName(E) = 1 .. n
  BY <1>10
<1> QED BY <1>1, <1>11, <1>12, <1>13, <1>14 DEF n

\* The paths of s under a prefix, the names of the directories in it, and its entries.
Below(s, at) == {p \in DOMAIN s : IsStrictPrefix(at, p)}
Subdirectories(s, at) == {p[Len(at) + 1] : p \in {p \in Below(s, at) : Len(p) > Len(at) + 1}}
Entries(s, at, g) ==
  {[name |-> p[Len(at) + 1], cid |-> fileBlocks(s[p])] :
     p \in {p \in Below(s, at) : Len(p) = Len(at) + 1}}
  \cup {[name |-> n, cid |-> g[Append(at, n)]] : n \in Subdirectories(s, at)}

Places(s) == {<<>>} \cup UNION {Prefixes(p) : p \in DOMAIN s}

\* g is the directory buildDirectory makes for each prefix.
IsTree(g, s) == g = [at \in Places(s) |-> directoryNode(Entries(s, at, g))]

\* A site: finitely many files, each a path with its content.
IsSite(s) ==
  IsFiniteSet(DOMAIN s) /\ \A p \in DOMAIN s : p \in Seq(Nat) /\ s[p] \in Seq(Nat)

\* Finitely many paths are shorter than some length.
LEMMA PathsAreBounded ==
  ASSUME NEW P, IsFiniteSet(P), \A p \in P : p \in Seq(Nat)
  PROVE  \E m \in Nat : \A p \in P : Len(p) < m
<1> DEFINE n == Cardinality(P)
<1>1. n \in Nat /\ ExistsBijection(1 .. n, P)
  BY FS_CardinalityType
<1> HIDE DEF n
<1>2. PICK f \in [1 .. n -> P] : \A p \in P : \E i \in 1 .. n : f[i] = p
  BY <1>1 DEF ExistsBijection, Bijection, Surjection
<1> DEFINE T == {k \in Nat : k <= n => \E m \in Nat : \A i \in 1 .. k : Len(f[i]) < m}
<1>3. 0 \in T
  <2>1. 0 \in Nat /\ \A i \in 1 .. 0 : Len(f[i]) < 0
    OBVIOUS
  <2> QED BY <2>1
<1>4. ASSUME NEW k \in T PROVE k + 1 \in T
  <2> SUFFICES ASSUME k + 1 <= n PROVE \E m \in Nat : \A i \in 1 .. (k + 1) : Len(f[i]) < m
    OBVIOUS
  <2>1. k <= n /\ k + 1 \in 1 .. n
    BY <1>1
  <2>2. PICK m \in Nat : \A i \in 1 .. k : Len(f[i]) < m
    BY <2>1
  <2>3. \A i \in 1 .. (k + 1) : i \in 1 .. n
    BY <1>1
  <2>4. \A i \in 1 .. (k + 1) : Len(f[i]) \in Nat
    BY <1>2, <2>3
  <2>5. Len(f[k + 1]) \in Nat
    BY <2>4
  <2> DEFINE l == Len(f[k + 1])
             mm == m + l + 1
  <2>6. mm \in Nat
    BY <2>5
  <2>7. ASSUME NEW i \in 1 .. (k + 1) PROVE Len(f[i]) < mm
    <3>1. CASE i = k + 1
      BY <2>5, <3>1
    <3>2. CASE i # k + 1
      <4>1. i \in 1 .. k
        BY <3>2
      <4>2. Len(f[i]) < m /\ Len(f[i]) \in Nat
        BY <2>2, <2>4, <4>1
      <4> QED BY <2>5, <4>2
    <3> QED BY <3>1, <3>2
  <2> HIDE DEF mm
  <2> QED BY <2>6, <2>7
<1>5. T = Nat
  <2>1. T \in SUBSET Nat
    OBVIOUS
  <2> HIDE DEF T
  <2> QED BY <1>3, <1>4, <2>1, SetInduction
<1>6. PICK m \in Nat : \A i \in 1 .. n : Len(f[i]) < m
  <2>1. n \in T
    <3> HIDE DEF T
    <3> QED BY <1>1, <1>5
  <2> QED BY <1>1, <2>1
<1> QED BY <1>2, <1>6

\* A path goes on from a prefix of it by one name.
LEMMA PrefixNext ==
  ASSUME NEW at \in Seq(Nat), NEW p \in Seq(Nat), IsStrictPrefix(at, p)
  PROVE  /\ Len(at) < Len(p) /\ p[Len(at) + 1] \in Nat
         /\ at = SubSeq(p, 1, Len(at))
         /\ Append(at, p[Len(at) + 1]) = SubSeq(p, 1, Len(at) + 1)
<1> DEFINE l == Len(at)
<1>1. l \in Nat /\ Len(p) \in Nat /\ l <= Len(p) /\ at # p
  BY DEF IsStrictPrefix, IsPrefix
<1>2. SubSeq(at, 1, l) = at
  OBVIOUS
<1>3. at = SubSeq(p, 1, l)
  BY <1>2 DEF IsStrictPrefix, IsPrefix
<1>4. l # Len(p)
  <2>1. SubSeq(p, 1, Len(p)) = p
    OBVIOUS
  <2> QED BY <1>1, <1>3, <2>1
<1>5. l + 1 \in 1 .. Len(p)
  BY <1>1, <1>4
<1>6. p[l + 1] \in Nat
  BY <1>5
<1>7. \A i \in 1 .. l : at[i] = p[i]
  BY <1>1, <1>3
<1>8. Append(at, p[l + 1]) = SubSeq(p, 1, l + 1)
  <2> DEFINE a == Append(at, p[l + 1])
             b == SubSeq(p, 1, l + 1)
  <2>1. a \in Seq(Nat) /\ Len(a) = l + 1
    BY <1>6
  <2>2. b \in Seq(Nat) /\ Len(b) = l + 1
    BY <1>1, <1>5
  <2>3. ASSUME NEW i \in 1 .. (l + 1) PROVE a[i] = b[i]
    <3>1. b[i] = p[i]
      BY <1>1, <1>5
    <3>2. a[i] = p[i]
      BY <1>1, <1>6, <1>7
    <3> QED BY <3>1, <3>2
  <2> HIDE DEF a, b
  <2>4. DOMAIN a = 1 .. (l + 1) /\ DOMAIN b = 1 .. (l + 1)
    BY <2>1, <2>2
  <2>5. a = [i \in 1 .. (l + 1) |-> a[i]] /\ b = [i \in 1 .. (l + 1) |-> b[i]]
    BY <2>1, <2>2, <2>4
  <2>6. a = b
    BY <2>3, <2>5
  <2> QED BY <2>6 DEF a, b
<1> QED BY <1>1, <1>3, <1>4, <1>6, <1>8

\* A prefix of a path is a place, and so is each directory in a place.
LEMMA PlacesAre ==
  ASSUME NEW s, IsSite(s)
  PROVE  /\ <<>> \in Places(s) /\ Places(s) \subseteq Seq(Nat)
         /\ \A at \in Places(s) : \A n \in Subdirectories(s, at) :
              n \in Nat /\ Append(at, n) \in Places(s)
<1>1. <<>> \in Places(s)
  BY DEF Places
<1>2. ASSUME NEW at \in Places(s) PROVE at \in Seq(Nat)
  <2>1. CASE at = <<>>
    BY <2>1
  <2>2. CASE at # <<>>
    <3>1. PICK p \in DOMAIN s : at \in Prefixes(p)
      BY <2>2 DEF Places
    <3>2. PICK l \in 0 .. Len(p) : at = SubSeq(p, 1, l)
      BY <3>1 DEF Prefixes
    <3>3. p \in Seq(Nat)
      BY DEF IsSite
    <3> QED BY <3>2, <3>3
  <2> QED BY <2>1, <2>2
<1>3. ASSUME NEW at \in Places(s), NEW n \in Subdirectories(s, at)
      PROVE  n \in Nat /\ Append(at, n) \in Places(s)
  <2>1. PICK p \in DOMAIN s : IsStrictPrefix(at, p) /\ n = p[Len(at) + 1]
    BY DEF Subdirectories, Below
  <2>2. at \in Seq(Nat) /\ p \in Seq(Nat)
    BY <1>2 DEF IsSite
  <2>3. Len(at) < Len(p) /\ n \in Nat /\ Append(at, n) = SubSeq(p, 1, Len(at) + 1)
    BY <2>1, <2>2, PrefixNext
  <2>4. Len(at) + 1 \in 0 .. Len(p)
    BY <2>2, <2>3
  <2>5. Append(at, n) \in Prefixes(p)
    BY <2>3, <2>4 DEF Prefixes
  <2> QED BY <2>3, <2>5 DEF Places
<1> QED BY <1>1, <1>2, <1>3

\* The entries of a directory depend on the directories in it and on no other.
LEMMA EntriesSame ==
  ASSUME NEW s, NEW at, NEW g, NEW h,
         \A n \in Subdirectories(s, at) : g[Append(at, n)] = h[Append(at, n)]
  PROVE  Entries(s, at, g) = Entries(s, at, h)
<1> DEFINE N == Subdirectories(s, at)
<1>1. {[name |-> n, cid |-> g[Append(at, n)]] : n \in N} =
      {[name |-> n, cid |-> h[Append(at, n)]] : n \in N}
  <2> HIDE DEF N
  <2>1. \A n \in N : g[Append(at, n)] = h[Append(at, n)]
    BY DEF N
  <2> QED BY <2>1
<1> QED BY <1>1 DEF Entries

\* The directories of a site can be made, the deepest first.
LEMMA TreeExists ==
  ASSUME NEW s, IsSite(s)
  PROVE  \E g : IsTree(g, s)
<1> DEFINE Node(at, g) == directoryNode(Entries(s, at, g))
           D == Places(s)
<1>1. PICK m \in Nat : \A p \in DOMAIN s : Len(p) < m
  BY PathsAreBounded DEF IsSite
<1>2. D \subseteq Seq(Nat) /\ \A at \in D : \A n \in Subdirectories(s, at) : n \in Nat /\ Append(at, n) \in D
  BY PlacesAre
<1> DEFINE Made(g, k) == g = [at \in D |-> g[at]] /\ \A at \in D : Len(at) + k > m => g[at] = Node(at, g)
           T == {k \in Nat : \E g : Made(g, k)}
<1> HIDE DEF D
<1>3. \A at \in D : Len(at) \in Nat
  BY <1>2
<1>4. 0 \in T
  <2>1. ASSUME NEW at \in D PROVE Len(at) <= m
    <3>1. CASE at = <<>>
      BY <3>1
    <3>2. CASE at # <<>>
      <4>1. PICK p \in DOMAIN s : at \in Prefixes(p)
        BY <3>2 DEF Places, D
      <4>2. PICK l \in 0 .. Len(p) : at = SubSeq(p, 1, l)
        BY <4>1 DEF Prefixes
      <4>3. p \in Seq(Nat) /\ Len(p) < m
        BY <1>1 DEF IsSite
      <4>4. Len(at) = l
        BY <4>2, <4>3
      <4> QED BY <4>2, <4>3, <4>4
    <3> QED BY <3>1, <3>2
  <2> DEFINE g == [at \in D |-> at]
  <2>2. ASSUME NEW at \in D PROVE ~(Len(at) + 0 > m)
    BY <1>3, <2>1
  <2>3. g = [at \in D |-> g[at]]
    OBVIOUS
  <2> HIDE DEF g, Node
  <2>4. Made(g, 0)
    BY <2>2, <2>3
  <2> QED BY <2>4
<1>5. ASSUME NEW k \in T PROVE k + 1 \in T
  <2>1. PICK g : Made(g, k)
    OBVIOUS
  <2> DEFINE h == [at \in D |-> Node(at, g)]
  <2>2. \A at \in D : h[at] = Node(at, g)
    OBVIOUS
  <2>3. h = [at \in D |-> h[at]]
    OBVIOUS
  <2> HIDE DEF h
  <2>4. ASSUME NEW at \in D, Len(at) + (k + 1) > m PROVE h[at] = Node(at, h)
    <3>1. ASSUME NEW n \in Subdirectories(s, at) PROVE g[Append(at, n)] = h[Append(at, n)]
      <4>1. n \in Nat /\ Append(at, n) \in D /\ at \in Seq(Nat)
        BY <1>2
      <4>2. Len(Append(at, n)) = Len(at) + 1 /\ Len(at) \in Nat
        BY <4>1
      <4>3. Len(Append(at, n)) + k > m
        BY <2>4, <4>2
      <4> HIDE DEF Node
      <4> QED BY <2>1, <2>2, <4>1, <4>3
    <3>2. Entries(s, at, g) = Entries(s, at, h)
      BY <3>1, EntriesSame
    <3> QED BY <2>2, <3>2
  <2>5. Made(h, k + 1)
    <3> HIDE DEF Node
    <3> QED BY <2>3, <2>4
  <2> HIDE DEF Made
  <2> QED BY <2>5
<1>6. T = Nat
  <2>1. T \in SUBSET Nat
    OBVIOUS
  <2> HIDE DEF T
  <2> QED BY <1>4, <1>5, <2>1, SetInduction
<1>7. PICK g : Made(g, m + 1)
  <2>1. m + 1 \in T
    <3> HIDE DEF T
    <3> QED BY <1>6
  <2> HIDE DEF Made
  <2> QED BY <2>1
<1>8. \A at \in D : g[at] = Node(at, g)
  <2>1. \A at \in D : Len(at) + (m + 1) > m
    BY <1>3
  <2> HIDE DEF Node
  <2> QED BY <1>7, <2>1
<1>9. g = [at \in D |-> Node(at, g)]
  <2> HIDE DEF Node
  <2> QED BY <1>7, <1>8
<1> QED BY <1>9 DEF IsTree, D

\* importSite is the directory of the empty prefix.
LEMMA ImportIs ==
  ASSUME NEW s, IsSite(s)
  PROVE  \E g : IsTree(g, s) /\ importSite(s) = g[<<>>]
<1> DEFINE g == CHOOSE h : IsTree(h, s)
<1>1. importSite(s) = g[<<>>]
  BY DEF importSite, buildDirectory, IsTree, Places, Entries, Subdirectories, Below
<1>2. IsTree(g, s)
  BY TreeExists
<1> QED BY <1>1, <1>2

\* A file with its path, and the name it has in the directory it is in.
LEMMA FileEntry ==
  ASSUME NEW at \in Seq(Nat), NEW p \in Seq(Nat), IsStrictPrefix(at, p), Len(p) = Len(at) + 1
  PROVE  p = Append(at, p[Len(at) + 1])
<1>1. Append(at, p[Len(at) + 1]) = SubSeq(p, 1, Len(at) + 1)
  BY PrefixNext
<1>2. SubSeq(p, 1, Len(p)) = p
  OBVIOUS
<1> QED BY <1>1, <1>2

\* Each entry of a directory is a file of the site or a directory in it.
LEMMA EntriesAre ==
  ASSUME NEW s, IsSite(s), NEW at \in Places(s), NEW g, NEW e \in Entries(s, at, g)
  PROVE  /\ e.name \in Nat /\ e = [name |-> e.name, cid |-> e.cid]
         /\ \/ Append(at, e.name) \in DOMAIN s /\ e.cid = fileBlocks(s[Append(at, e.name)])
            \/ /\ e.name \in Subdirectories(s, at)
               /\ e.cid = g[Append(at, e.name)] /\ Append(at, e.name) \in Places(s)
<1>1. at \in Seq(Nat)
  BY PlacesAre
<1>2. CASE \E p \in {p \in Below(s, at) : Len(p) = Len(at) + 1} :
             e = [name |-> p[Len(at) + 1], cid |-> fileBlocks(s[p])]
  <2>1. PICK p \in DOMAIN s : /\ IsStrictPrefix(at, p) /\ Len(p) = Len(at) + 1
                              /\ e = [name |-> p[Len(at) + 1], cid |-> fileBlocks(s[p])]
    BY <1>2 DEF Below
  <2>2. p \in Seq(Nat)
    BY DEF IsSite
  <2>3. p = Append(at, p[Len(at) + 1]) /\ p[Len(at) + 1] \in Nat
    BY <1>1, <2>1, <2>2, FileEntry, PrefixNext
  <2>4. e.name = p[Len(at) + 1] /\ e.cid = fileBlocks(s[p])
    BY <2>1
  <2>5. e = [name |-> e.name, cid |-> e.cid]
    BY <2>1, <2>4
  <2> QED BY <2>3, <2>4, <2>5
<1>3. CASE \E n \in Subdirectories(s, at) : e = [name |-> n, cid |-> g[Append(at, n)]]
  <2>1. PICK n \in Subdirectories(s, at) : e = [name |-> n, cid |-> g[Append(at, n)]]
    BY <1>3
  <2>2. n \in Nat /\ Append(at, n) \in Places(s)
    BY PlacesAre
  <2>3. e.name = n /\ e.cid = g[Append(at, n)]
    BY <2>1
  <2>4. e = [name |-> e.name, cid |-> e.cid]
    BY <2>1, <2>3
  <2> QED BY <2>2, <2>3, <2>4
<1> QED BY <1>2, <1>3 DEF Entries

\* In a site that can be imported no name is both a file and a directory.
LEMMA NoNameTwice ==
  ASSUME NEW s, IsSite(s), Importable(s), NEW at \in Places(s), NEW n \in Subdirectories(s, at)
  PROVE  Append(at, n) \notin DOMAIN s
<1> SUFFICES ASSUME Append(at, n) \in DOMAIN s PROVE FALSE
  OBVIOUS
<1> DEFINE p == Append(at, n)
<1>1. PICK q \in DOMAIN s : IsStrictPrefix(at, q) /\ Len(q) > Len(at) + 1 /\ n = q[Len(at) + 1]
  BY DEF Subdirectories, Below
<1>2. at \in Seq(Nat) /\ q \in Seq(Nat) /\ p \in Seq(Nat) /\ n \in Nat
  <2>1. at \in Seq(Nat) /\ n \in Nat
    BY PlacesAre
  <2> QED BY <2>1 DEF IsSite
<1>3. p = SubSeq(q, 1, Len(at) + 1)
  BY <1>1, <1>2, PrefixNext
<1>4. Len(p) = Len(at) + 1 /\ Len(at) \in Nat /\ Len(q) \in Nat
  BY <1>2
<1> HIDE DEF p
<1>5. p # q /\ Len(p) <= Len(q)
  BY <1>1, <1>4
<1>6. SubSeq(p, 1, Len(p)) = p
  BY <1>2
<1>7. IsPrefix(p, q)
  BY <1>3, <1>4, <1>5, <1>6 DEF IsPrefix
<1> QED BY <1>5, <1>7 DEF Importable, p

\* The entries of a directory are finitely many and their names differ.
LEMMA EntriesDiffer ==
  ASSUME NEW s, IsSite(s), Importable(s), NEW at \in Places(s), NEW g
  PROVE  /\ IsFiniteSet(Entries(s, at, g))
         /\ \A e, f \in Entries(s, at, g) : e.name = f.name => e = f
<1> DEFINE E == Entries(s, at, g)
           P == {p \in Below(s, at) : Len(p) = Len(at) + 1}
           Q == {p \in Below(s, at) : Len(p) > Len(at) + 1}
           file == [p \in P |-> [name |-> p[Len(at) + 1], cid |-> fileBlocks(s[p])]]
           dir == [p \in Q |-> [name |-> p[Len(at) + 1], cid |-> g[Append(at, p[Len(at) + 1])]]]
           F == {file[p] : p \in P}
           D == {dir[p] : p \in Q}
<1>1. IsFiniteSet(P) /\ IsFiniteSet(Q)
  <2>1. P \in SUBSET DOMAIN s /\ Q \in SUBSET DOMAIN s /\ IsFiniteSet(DOMAIN s)
    BY DEF Below, IsSite
  <2> HIDE DEF P, Q
  <2> QED BY <2>1, FS_Subset
<1>2. E = F \cup D
  <2>1. {[name |-> p[Len(at) + 1], cid |-> fileBlocks(s[p])] : p \in P} = F
    OBVIOUS
  <2>2. {[name |-> n, cid |-> g[Append(at, n)]] : n \in Subdirectories(s, at)} = D
    <3>1. Subdirectories(s, at) = {p[Len(at) + 1] : p \in Q}
      BY DEF Subdirectories
    <3> HIDE DEF Q
    <3> QED BY <3>1
  <2> HIDE DEF F, D
  <2> QED BY <2>1, <2>2 DEF Entries
<1>3. IsFiniteSet(F) /\ IsFiniteSet(D)
  <2>1. file \in [P -> F] /\ dir \in [Q -> D]
    <3> HIDE DEF P, Q
    <3>1. file = [p \in P |-> file[p]] /\ dir = [p \in Q |-> dir[p]]
      OBVIOUS
    <3> HIDE DEF file, dir
    <3> QED BY <3>1
  <2> HIDE DEF file, dir, P, Q
  <2>2. file \in Surjection(P, F) /\ dir \in Surjection(Q, D)
    BY <2>1 DEF Surjection
  <2> HIDE DEF F, D
  <2> QED BY <1>1, <2>2, FS_Surjection
<1>4. IsFiniteSet(E)
  <2> HIDE DEF E, F, D
  <2> QED BY <1>2, <1>3, FS_Union
<1>5. ASSUME NEW e \in E, NEW f \in E, e.name = f.name PROVE e = f
  <2> DEFINE IsDir(x) == /\ x.name \in Subdirectories(s, at)
                         /\ x.cid = g[Append(at, x.name)]
             IsFile(x) == Append(at, x.name) \in DOMAIN s /\ x.cid = fileBlocks(s[Append(at, x.name)])
  <2>1. /\ e = [name |-> e.name, cid |-> e.cid] /\ (IsFile(e) \/ IsDir(e))
        /\ f = [name |-> f.name, cid |-> f.cid] /\ (IsFile(f) \/ IsDir(f))
    <3> HIDE DEF F, D
    <3> QED BY EntriesAre
  <2>2. ~(IsFile(e) /\ IsDir(f)) /\ ~(IsDir(e) /\ IsFile(f))
    BY <1>5, NoNameTwice
  <2>3. e.cid = f.cid
    BY <1>5, <2>1, <2>2
  <2> QED BY <1>5, <2>1, <2>3
<1> QED BY <1>4, <1>5

\* A directory's block lists its entries, each of them once.
LEMMA DirectoryIs ==
  ASSUME NEW s, IsSite(s), Importable(s), NEW g, IsTree(g, s), NEW at \in Places(s),
         NEW links, links = g[at].digest.links
  PROVE  /\ g[at].codec = "dag-pb" /\ g[at].digest.kind = "node" /\ g[at].digest.type = "directory"
         /\ \E k \in Nat : DOMAIN links = 1 .. k
         /\ \A i \in DOMAIN links : links[i] \in Entries(s, at, g)
         /\ \A e \in Entries(s, at, g) : \E i \in DOMAIN links : links[i] = e
         /\ \A i, j \in DOMAIN links : links[i].name = links[j].name => i = j
<1> DEFINE E == Entries(s, at, g)
<1>1. g[at] = directoryNode(E)
  BY DEF IsTree
<1>2. IsFiniteSet(E) /\ \A e, f \in E : e.name = f.name => e = f
  BY EntriesDiffer
<1>3. \A e \in E : e.name \in Nat
  BY EntriesAre
<1> HIDE DEF E
<1>4. /\ g[at].codec = "dag-pb" /\ g[at].digest.kind = "node" /\ g[at].digest.type = "directory"
      /\ links = ByName(E)
  <2> DEFINE node == encodePbNode("directory", ByName(E), <<>>)
  <2>1. node.kind = "node" /\ node.type = "directory" /\ node.links = ByName(E)
    BY DEF encodePbNode
  <2> HIDE DEF node
  <2>2. g[at] = dagPbBlock(node)
    BY <1>1 DEF directoryNode, node
  <2> QED BY <2>1, <2>2 DEF dagPbBlock
<1>5. /\ Cardinality(E) \in Nat /\ DOMAIN links = 1 .. Cardinality(E)
      /\ \A i \in DOMAIN links : links[i] \in E
      /\ \A e \in E : \E i \in DOMAIN links : links[i] = e
      /\ \A i, j \in DOMAIN links : links[i] = links[j] => i = j
  BY <1>2, <1>3, <1>4, ByNameIs
<1>6. \A i, j \in DOMAIN links : links[i].name = links[j].name => i = j
  BY <1>2, <1>5
<1> QED BY <1>4, <1>5, <1>6 DEF E

\* A file's block is a leaf, or a node that is no directory.
LEMMA FileIs ==
  ASSUME NEW data
  PROVE  LET cid == fileBlocks(data) IN cid.codec = "raw" \/ cid.digest.type = "file"
<1> DEFINE chunks == chunk(data)
           node == encodePbNode("file",
             [i \in DOMAIN chunks |-> [name |-> Unnamed, cid |-> rawLeafCid(chunks[i])]],
             [i \in DOMAIN chunks |-> Len(chunks[i])])
<1>1. fileBlocks(data) = IF Len(chunks) = 1 THEN rawLeafCid(chunks[1]) ELSE dagPbBlock(node)
  BY DEF fileBlocks
<1>2. node.type = "file"
  BY DEF encodePbNode
<1> HIDE DEF node, chunks
<1> QED BY <1>1, <1>2 DEF rawLeafCid, dagPbBlock

-----------------------------------------------------------------------------
(***************************************************************************)
(* The chunks of a file, joined, are the file.                             *)
(***************************************************************************)

\* As many chunks as it takes to cover a length, and no more.
LEMMA CeilingIs ==
  ASSUME NEW L \in Nat \ {0}, NEW C \in Nat \ {0}, NEW n, n = (L + C - 1) \div C
  PROVE  /\ n \in Nat \ {0} /\ L <= n * C
         /\ \A i \in 1 .. (n - 1) : i * C \in Nat /\ i * C < L
<1> DEFINE a == L + C - 1
           r == a % C
<1>1. a \in Nat /\ a >= C
  OBVIOUS
<1>2. n \in Nat
  BY <1>1
<1>3. a = C * n + r /\ r \in 0 .. (C - 1)
  BY <1>1
<1>4. C * n = n * C /\ n * C \in Nat
  BY <1>2
<1> DEFINE m == n * C
<1> HIDE DEF r
<1>5. a = m + r /\ m \in Nat
  BY <1>3, <1>4
<1>6. n # 0
  BY <1>1, <1>3
<1> HIDE DEF m
<1>7. L <= m /\ m - C < L
  BY <1>3, <1>5
<1>8. ASSUME NEW i \in 1 .. (n - 1) PROVE i * C \in Nat /\ i * C < L
  <2>1. i \in Nat /\ n - 1 - i \in Nat
    BY <1>2
  <2>2. (n - 1 - i) * C \in Nat /\ i * C \in Nat
    BY <2>1
  <2>3. (n - 1 - i) * C = m - C - i * C
    BY <1>2, <2>1 DEF m
  <2> DEFINE x == i * C
             y == (n - 1 - i) * C
  <2>4. x \in Nat /\ y \in Nat /\ y = m - C - x
    BY <2>2, <2>3
  <2> HIDE DEF x, y
  <2>5. x < L
    BY <1>5, <1>7, <2>4
  <2> QED BY <2>2, <2>5 DEF x
<1> QED BY <1>2, <1>6, <1>7, <1>8 DEF m

\* Adjoining parts of a sequence.
LEMMA SubSeqJoin ==
  ASSUME NEW d \in Seq(Nat), NEW a \in Nat, NEW b \in Nat, a <= b, b <= Len(d)
  PROVE  /\ SubSeq(d, a + 1, b) \in Seq(Nat) /\ Len(SubSeq(d, a + 1, b)) = b - a
         /\ SubSeq(d, 1, a) \o SubSeq(d, a + 1, b) = SubSeq(d, 1, b)
<1> DEFINE x == SubSeq(d, 1, a)
           y == SubSeq(d, a + 1, b)
           z == SubSeq(d, 1, b)
           w == x \o y
<1>1. x \in Seq(Nat) /\ Len(x) = a /\ \A i \in 1 .. a : x[i] = d[i]
  OBVIOUS
<1>2. y \in Seq(Nat) /\ Len(y) = b - a /\ \A i \in 1 .. (b - a) : y[i] = d[a + i]
  OBVIOUS
<1>3. z \in Seq(Nat) /\ Len(z) = b /\ \A i \in 1 .. b : z[i] = d[i]
  OBVIOUS
<1> HIDE DEF x, y, z
<1>4. /\ w \in Seq(Nat) /\ Len(w) = Len(x) + Len(y)
      /\ \A i \in 1 .. Len(x) + Len(y) : w[i] = IF i <= Len(x) THEN x[i] ELSE y[i - Len(x)]
  BY <1>1, <1>2, ConcatProperties
<1> HIDE DEF w
<1>5. Len(w) = b /\ \A i \in 1 .. b : w[i] = IF i <= a THEN x[i] ELSE y[i - a]
  BY <1>1, <1>2, <1>4
<1>6. ASSUME NEW i \in 1 .. b PROVE w[i] = z[i]
  <2>1. CASE i <= a
    BY <1>1, <1>3, <1>5, <2>1
  <2>2. CASE ~(i <= a)
    <3>1. i - a \in 1 .. (b - a) /\ a + (i - a) = i
      BY <2>2
    <3>2. w[i] = y[i - a]
      BY <1>5, <2>2
    <3>3. y[i - a] = d[i]
      BY <1>2, <3>1
    <3> QED BY <1>3, <3>2, <3>3
  <2> QED BY <2>1, <2>2
<1>7. w = [i \in 1 .. b |-> w[i]] /\ z = [i \in 1 .. b |-> z[i]]
  BY <1>3, <1>4, <1>5
<1>8. w = z
  BY <1>6, <1>7
<1> QED BY <1>2, <1>8 DEF x, y, z, w

\* Where the i-th chunk of a file ends.
Ends(data, i) == IF i * CHUNK_BYTES < Len(data) THEN i * CHUNK_BYTES ELSE Len(data)

\* A file is cut at growing places, from its beginning to its end.
LEMMA ChunksAre ==
  ASSUME NEW data \in Seq(Nat), NEW chunks, chunks = chunk(data)
  PROVE  /\ Len(chunks) \in Nat \ {0} /\ DOMAIN chunks = 1 .. Len(chunks)
         /\ Ends(data, 0) = 0 /\ Ends(data, Len(chunks)) = Len(data)
         /\ \A i \in 1 .. Len(chunks) :
              /\ Ends(data, i - 1) \in Nat /\ Ends(data, i) \in Nat
              /\ Ends(data, i - 1) <= Ends(data, i) /\ Ends(data, i) <= Len(data)
              /\ chunks[i] = SubSeq(data, Ends(data, i - 1) + 1, Ends(data, i))
<1> DEFINE L == Len(data)
           C == CHUNK_BYTES
           n == (L + C - 1) \div C
<1>1. L \in Nat /\ C \in Nat \ {0}
  BY UnixFsAssumption
<1>2. 0 * C = 0 /\ Ends(data, 0) = 0
  <2>1. 0 * C = 0
    BY <1>1
  <2> HIDE DEF C
  <2> QED BY <1>1, <2>1 DEF Ends, C
<1>3. CASE data = <<>>
  <2>1. chunks = <<<<>>>> /\ Len(data) = 0
    BY <1>3 DEF chunk
  <2>2. Len(chunks) = 1 /\ DOMAIN chunks = 1 .. 1 /\ chunks[1] = <<>>
    BY <2>1
  <2>3. 1 * C = C
    BY <1>1
  <2>4. Ends(data, 1) = 0
    <3> HIDE DEF C
    <3> QED BY <1>1, <2>1, <2>3 DEF Ends, C
  <2>5. SubSeq(data, 0 + 1, 0) = <<>>
    BY <1>3
  <2> HIDE DEF C, L, n
  <2>6. ASSUME NEW i \in 1 .. Len(chunks)
        PROVE  /\ Ends(data, i - 1) \in Nat /\ Ends(data, i) \in Nat
               /\ Ends(data, i - 1) <= Ends(data, i) /\ Ends(data, i) <= Len(data)
               /\ chunks[i] = SubSeq(data, Ends(data, i - 1) + 1, Ends(data, i))
    <3>1. i = 1 /\ i - 1 = 0
      BY <2>2
    <3> QED BY <1>2, <2>1, <2>2, <2>4, <2>5, <3>1
  <2> QED BY <1>2, <2>1, <2>2, <2>4, <2>6
<1>4. CASE data # <<>>
  <2>1. L # 0
    BY <1>4
  <2>2. chunks = [i \in 1 .. n |-> SubSeq(data, (i - 1) * C + 1, Ends(data, i))]
    BY <1>4 DEF chunk, Ends
  <2> HIDE DEF L, C
  <2>3. /\ n \in Nat \ {0} /\ L <= n * C
        /\ \A i \in 1 .. (n - 1) : i * C \in Nat /\ i * C < L
    BY <1>1, <2>1, CeilingIs
  <2> HIDE DEF n
  <2>4. Len(chunks) = n /\ DOMAIN chunks = 1 .. n
    BY <2>2, <2>3
  <2>5. \A i \in 1 .. (n - 1) : Ends(data, i) = i * C
    BY <2>3 DEF Ends, C, L
  <2>6. n * C \in Nat
    BY <1>1, <2>3
  <2>7. Ends(data, n) = L
    <3> DEFINE m == n * C
    <3>1. m \in Nat /\ L <= m
      BY <2>3, <2>6
    <3>2. Ends(data, n) = IF m < L THEN m ELSE L
      BY DEF Ends, L, C, m
    <3> HIDE DEF m
    <3> QED BY <1>1, <3>1, <3>2
  <2>8. ASSUME NEW i \in 0 .. n PROVE Ends(data, i) \in Nat /\ Ends(data, i) <= L
    <3>1. CASE i = 0
      BY <1>1, <1>2, <3>1
    <3>2. CASE i = n
      BY <1>1, <2>7, <3>2
    <3>3. CASE i # 0 /\ i # n
      <4>1. i \in 1 .. (n - 1)
        BY <2>3, <3>3
      <4> DEFINE x == i * C
      <4>2. x \in Nat /\ x < L /\ Ends(data, i) = x
        BY <2>3, <2>5, <4>1
      <4> HIDE DEF x
      <4> QED BY <1>1, <4>2
    <3> QED BY <3>1, <3>2, <3>3
  <2>9. ASSUME NEW i \in 1 .. n
        PROVE  /\ Ends(data, i - 1) = (i - 1) * C
               /\ Ends(data, i - 1) <= Ends(data, i)
    <3> DEFINE x == (i - 1) * C
    <3>1. i - 1 \in 0 .. n /\ i \in 0 .. n /\ i \in Nat
      BY <2>3
    <3>2. Ends(data, i - 1) = x
      <4>1. CASE i = 1
        <5>1. i - 1 = 0
          BY <4>1
        <5> QED BY <1>2, <5>1
      <4>2. CASE i # 1
        <5>1. i - 1 \in 1 .. (n - 1)
          BY <2>3, <4>2
        <5> QED BY <2>5, <5>1
      <4> QED BY <4>1, <4>2
    <3>3. x \in Nat /\ x <= L
      BY <2>8, <3>1, <3>2
    <3>4. CASE i = n
      BY <2>7, <3>2, <3>3, <3>4
    <3>5. CASE i # n
      <4>1. i \in 1 .. (n - 1)
        BY <2>3, <3>5
      <4>2. Ends(data, i) = i * C
        BY <2>5, <4>1
      <4>3. i * C = x + C
        BY <1>1, <3>1
      <4> HIDE DEF x
      <4>4. x <= x + C
        BY <1>1, <3>3
      <4> QED BY <3>2, <4>2, <4>3, <4>4 DEF x
    <3> QED BY <3>2, <3>4, <3>5
  <2>10. ASSUME NEW i \in 1 .. n
         PROVE  /\ Ends(data, i - 1) \in Nat /\ Ends(data, i) \in Nat
                /\ Ends(data, i - 1) <= Ends(data, i) /\ Ends(data, i) <= Len(data)
                /\ chunks[i] = SubSeq(data, Ends(data, i - 1) + 1, Ends(data, i))
    <3>1. i - 1 \in 0 .. n /\ i \in 0 .. n
      BY <2>3
    <3>2. chunks[i] = SubSeq(data, (i - 1) * C + 1, Ends(data, i))
      BY <2>2
    <3> QED BY <2>8, <2>9, <3>1, <3>2 DEF L
  <2> QED BY <1>2, <2>3, <2>4, <2>7, <2>10 DEF L
<1> QED BY <1>3, <1>4

\* The chunks of a file, joined, are the file.
LEMMA ChunksJoin ==
  ASSUME NEW data \in Seq(Nat)
  PROVE  /\ \A i \in DOMAIN chunk(data) : chunk(data)[i] \in Seq(Nat)
         /\ FlattenSeq(chunk(data)) = data
<1> DEFINE chunks == chunk(data)
           n == Len(chunks)
<1>1. /\ n \in Nat \ {0} /\ DOMAIN chunks = 1 .. n
      /\ Ends(data, 0) = 0 /\ Ends(data, n) = Len(data)
      /\ \A i \in 1 .. n :
           /\ Ends(data, i - 1) \in Nat /\ Ends(data, i) \in Nat
           /\ Ends(data, i - 1) <= Ends(data, i) /\ Ends(data, i) <= Len(data)
           /\ chunks[i] = SubSeq(data, Ends(data, i - 1) + 1, Ends(data, i))
  BY ChunksAre
<1>2. PICK g : /\ IsFlat(g, chunks, n)
               /\ FlattenSeq(chunks) = IF n = 0 THEN chunks ELSE g[n]
  <2>1. Len(chunks) \in Nat
    BY <1>1
  <2> QED BY <2>1, FlattenSeqIs
<1> HIDE DEF chunks, n
<1>3. ASSUME NEW i \in 1 .. n
      PROVE  /\ chunks[i] \in Seq(Nat)
             /\ SubSeq(data, 1, Ends(data, i - 1)) \o chunks[i] = SubSeq(data, 1, Ends(data, i))
  <2> DEFINE a == Ends(data, i - 1)
             b == Ends(data, i)
  <2>1. a \in Nat /\ b \in Nat /\ a <= b /\ b <= Len(data) /\ chunks[i] = SubSeq(data, a + 1, b)
    BY <1>1
  <2> HIDE DEF a, b
  <2>2. /\ SubSeq(data, a + 1, b) \in Seq(Nat)
        /\ SubSeq(data, 1, a) \o SubSeq(data, a + 1, b) = SubSeq(data, 1, b)
    BY <2>1, SubSeqJoin
  <2> QED BY <2>1, <2>2 DEF a, b
<1> DEFINE T == {i \in 1 .. n : g[i] = SubSeq(data, 1, Ends(data, i))}
<1>4. 1 \in T
  <2>1. 1 \in 1 .. n
    BY <1>1
  <2>2. g[1] = chunks[1]
    BY <1>2, <2>1 DEF IsFlat
  <2>3. chunks[1] = SubSeq(data, Ends(data, 1 - 1) + 1, Ends(data, 1))
    BY <1>1, <2>1
  <2>4. Ends(data, 1 - 1) + 1 = 1
    BY <1>1
  <2> QED BY <2>1, <2>2, <2>3, <2>4
<1>5. ASSUME NEW i \in 1 .. (n - 1), i \in T PROVE i + 1 \in T
  <2> DEFINE j == i + 1
  <2>1. j \in 1 .. n /\ j # 1 /\ j - 1 = i
    BY <1>1
  <2> HIDE DEF j
  <2>2. g[j] = g[i] \o chunks[j]
    BY <1>2, <2>1 DEF IsFlat
  <2>3. g[i] = SubSeq(data, 1, Ends(data, j - 1))
    BY <1>5, <2>1
  <2>4. g[j] = SubSeq(data, 1, Ends(data, j))
    BY <1>3, <2>1, <2>2, <2>3
  <2>5. j \in T
    BY <2>1, <2>4
  <2> QED BY <2>5 DEF j
<1>6. \A i \in 1 .. n : i \in T
  <2>1. 1 \in Nat /\ n \in Nat
    BY <1>1
  <2> HIDE DEF T
  <2> QED BY <1>4, <1>5, <2>1, IntervalInduction
<1>7. g[n] = SubSeq(data, 1, Len(data))
  <2>1. n \in T
    <3>1. n \in 1 .. n
      BY <1>1
    <3> HIDE DEF T
    <3> QED BY <1>6, <3>1
  <2> QED BY <1>1, <2>1
<1>8. SubSeq(data, 1, Len(data)) = data
  OBVIOUS
<1>9. FlattenSeq(chunks) = data
  BY <1>1, <1>2, <1>7, <1>8
<1> QED BY <1>1, <1>3, <1>9 DEF chunks

\* What the chunks of a file weigh together.
Total(sizes) == FoldSeq(+, 0, sizes)

\* A file node with a leaf for each chunk.
IsFileNode(cid, chunks) ==
  /\ cid.codec = "dag-pb" /\ cid.digest.kind = "node" /\ cid.digest.type = "file"
  /\ cid.digest.links = [i \in DOMAIN chunks |-> [name |-> Unnamed, cid |-> rawLeafCid(chunks[i])]]
  /\ cid.digest.blocksizes = [i \in DOMAIN chunks |-> Len(chunks[i])]
  /\ cid.digest.filesize = Total(cid.digest.blocksizes)

\* A file as an importer writes it: a leaf, or a node with a leaf for each chunk.
LEMMA FileBlocksAre ==
  ASSUME NEW data \in Seq(Nat), NEW cid, cid = fileBlocks(data),
         NEW chunks, chunks = chunk(data)
  PROVE  cid = rawLeafCid(data) \/ IsFileNode(cid, chunks)
<1> DEFINE links == [i \in DOMAIN chunks |-> [name |-> Unnamed, cid |-> rawLeafCid(chunks[i])]]
           sizes == [i \in DOMAIN chunks |-> Len(chunks[i])]
           node == encodePbNode("file", links, sizes)
<1>1. cid = IF Len(chunks) = 1 THEN rawLeafCid(chunks[1]) ELSE dagPbBlock(node)
  BY DEF fileBlocks
<1>2. CASE Len(chunks) = 1
  <2>1. chunks[1] = SubSeq(data, Ends(data, 1 - 1) + 1, Ends(data, 1))
        /\ Ends(data, 0) = 0 /\ Ends(data, 1) = Len(data)
    <3>1. 1 \in 1 .. Len(chunks)
      BY <1>2
    <3>2. /\ Ends(data, 0) = 0 /\ Ends(data, Len(chunks)) = Len(data)
          /\ \A i \in 1 .. Len(chunks) :
               chunks[i] = SubSeq(data, Ends(data, i - 1) + 1, Ends(data, i))
      BY ChunksAre
    <3> QED BY <1>2, <3>1, <3>2
  <2>2. chunks[1] = SubSeq(data, 1, Len(data))
    BY <2>1
  <2>3. SubSeq(data, 1, Len(data)) = data
    OBVIOUS
  <2> QED BY <1>1, <1>2, <2>2, <2>3
<1>3. CASE Len(chunks) # 1
  <2>1. /\ node.kind = "node" /\ node.type = "file" /\ node.links = links
        /\ node.blocksizes = sizes
    <3> HIDE DEF links, sizes
    <3> QED BY DEF encodePbNode
  <2>2. node.filesize = Total(sizes)
    <3> HIDE DEF links, sizes
    <3> QED BY Zenon DEF encodePbNode, Total
  <2> HIDE DEF node, links, sizes
  <2>3. cid = dagPbBlock(node)
    BY <1>1, <1>3
  <2>4. cid.codec = "dag-pb" /\ cid.digest = node
    BY <2>3 DEF dagPbBlock
  <2>5. cid.digest.filesize = Total(cid.digest.blocksizes)
    BY <2>1, <2>2, <2>4, Zenon
  <2> QED BY <2>1, <2>4, <2>5, Zenon DEF IsFileNode, links, sizes
<1> QED BY <1>2, <1>3

\* What an importer writes for a file says the file.
LEMMA FileSays ==
  ASSUME NEW data \in Seq(Nat), fileBlocks(data) \in Cids, DEPTH >= 1,
         NEW m, IsMeanings(m, DEPTH + 1)
  PROVE  m[DEPTH + 1][fileBlocks(data)] = data
<1> DEFINE cid == fileBlocks(data)
           chunks == chunk(data)
<1>1. DEPTH \in Nat
  BY UnixFsAssumption
<1>2. ASSUME NEW n \in 1 .. (DEPTH + 1), NEW c \in Cids PROVE m[n][c] = Says(c, m[n - 1])
  <2> DEFINE D == DEPTH + 1
  <2>1. n \in 0 .. D /\ n # 0 /\ IsMeanings(m, D)
    BY <1>1
  <2> HIDE DEF D
  <2>2. m[n] = [d \in Cids |-> Says(d, m[n - 1])]
    BY <2>1 DEF IsMeanings
  <2> QED BY <2>2
<1>3. ASSUME NEW d \in Seq(Nat), NEW below PROVE Says(rawLeafCid(d), below) = d
  BY DEF Says, rawLeafCid, leaf, DataOf
<1>4. m[DEPTH + 1][cid] = Says(cid, m[DEPTH])
  <2>1. DEPTH + 1 \in 1 .. (DEPTH + 1) /\ (DEPTH + 1) - 1 = DEPTH
    BY <1>1
  <2> QED BY <1>2, <2>1
<1>5. cid = rawLeafCid(data) \/ IsFileNode(cid, chunks)
  <2>1. cid = fileBlocks(data) /\ chunks = chunk(data)
    OBVIOUS
  <2> HIDE DEF cid, chunks
  <2> QED BY <2>1, FileBlocksAre
<1>6. (\A i \in DOMAIN chunks : chunks[i] \in Seq(Nat)) /\ FlattenSeq(chunks) = data
  BY ChunksJoin
<1>7. chunks = [i \in DOMAIN chunks |-> chunks[i]]
  <2>1. CASE data = <<>>
    BY <2>1 DEF chunk
  <2>2. CASE data # <<>>
    BY <2>2 DEF chunk
  <2> QED BY <2>1, <2>2
<1> HIDE DEF cid, chunks
<1>8. CASE cid = rawLeafCid(data)
  BY <1>3, <1>4, <1>8 DEF cid
<1>9. CASE IsFileNode(cid, chunks)
  <2> DEFINE links == cid.digest.links
  <2>1. links \in Seq(Links)
    <3>1. cid.digest \in Blocks
      BY UnixFsAssumption DEF cid
    <3> QED BY <1>9, <3>1 DEF Blocks, Links, IsFileNode
  <2>2. DOMAIN links = DOMAIN chunks
        /\ \A i \in DOMAIN chunks : links[i].cid = rawLeafCid(chunks[i])
    BY <1>9 DEF IsFileNode
  <2> HIDE DEF links
  <2>3. ASSUME NEW i \in DOMAIN chunks PROVE m[DEPTH][links[i].cid] = chunks[i]
    <3>1. links[i] \in Links
      <4> HIDE DEF Links
      <4> QED BY <2>1, <2>2
    <3>2. links[i].cid \in Cids
      BY <3>1 DEF Links
    <3>3. DEPTH \in 1 .. (DEPTH + 1)
      BY <1>1
    <3>4. m[DEPTH][links[i].cid] = Says(links[i].cid, m[DEPTH - 1])
      BY <1>2, <3>2, <3>3
    <3> QED BY <1>3, <1>6, <2>2, <3>4
  <2>4. [i \in DOMAIN links |-> m[DEPTH][links[i].cid]] = chunks
    BY <1>7, <2>2, <2>3
  <2>5. Says(cid, m[DEPTH]) = FlattenSeq([i \in DOMAIN links |-> m[DEPTH][links[i].cid]])
    BY <1>9 DEF IsFileNode, Says, links
  <2> QED BY <1>4, <1>6, <2>4, <2>5 DEF cid
<1> QED BY <1>5, <1>8, <1>9

-----------------------------------------------------------------------------
(***************************************************************************)
(* A fetch over a published site that succeeds gives the published file.   *)
(***************************************************************************)

\* What the first names of a path lead to in a site: a directory or a file.
LeadsTo(cid, at, s, t) ==
  \/ at \in Places(s) \ DOMAIN s /\ cid = t[at]
  \/ at \in DOMAIN s /\ cid = fileBlocks(s[at])

\* A segment that can be entered leads from a directory of the site to an entry of it.
LEMMA EnterOfSite ==
  ASSUME NEW s, IsSite(s), Importable(s), NEW t, IsTree(t, s),
         NEW at, NEW cid, LeadsTo(cid, at, s, t), NEW segment, NEW to,
         cid.codec = "dag-pb", cid.digest.type = "directory",
         \E link \in ToSet(cid.digest.links) : link.name = segment /\ to = link.cid
  PROVE  at \in Places(s) /\ LeadsTo(to, Append(at, segment), s, t)
<1>1. at \in Places(s) /\ cid = t[at]
  <2>1. ~(at \in DOMAIN s /\ cid = fileBlocks(s[at]))
    <3> SUFFICES ASSUME cid = fileBlocks(s[at]) PROVE FALSE
      OBVIOUS
    <3>1. cid.codec = "raw" \/ cid.digest.type = "file"
      BY FileIs
    <3> QED BY <3>1
  <2> QED BY <2>1 DEF LeadsTo
<1> DEFINE links == cid.digest.links
<1>2. PICK e \in Entries(s, at, t) : e.name = segment /\ to = e.cid
  <2>1. PICK link \in ToSet(links) : link.name = segment /\ to = link.cid
    OBVIOUS
  <2>2. links = t[at].digest.links
    BY <1>1
  <2> HIDE DEF links
  <2>3. \A i \in DOMAIN links : links[i] \in Entries(s, at, t)
    BY <1>1, <2>2, DirectoryIs
  <2>4. link \in Entries(s, at, t)
    BY <2>1, <2>3 DEF ToSet
  <2> QED BY <2>1, <2>4
<1>3. \/ Append(at, e.name) \in DOMAIN s /\ e.cid = fileBlocks(s[Append(at, e.name)])
      \/ /\ e.cid = t[Append(at, e.name)] /\ Append(at, e.name) \in Places(s)
         /\ e.name \in Subdirectories(s, at)
  BY <1>1, EntriesAre
<1>4. e.name \in Subdirectories(s, at) => Append(at, e.name) \notin DOMAIN s
  BY <1>1, NoNameTwice
<1> QED BY <1>1, <1>2, <1>3, <1>4 DEF LeadsTo

\* One more name of a path.
LEMMA PathNext ==
  ASSUME NEW path \in Seq(Nat), NEW i \in 0 .. (Len(path) - 1)
  PROVE  Append(SubSeq(path, 1, i), path[i + 1]) = SubSeq(path, 1, i + 1)
<1> DEFINE at == SubSeq(path, 1, i)
<1>1. Len(path) \in Nat /\ i \in Nat /\ i < Len(path)
  OBVIOUS
<1>2. at \in Seq(Nat) /\ Len(at) = i
  BY <1>1
<1>3. SubSeq(at, 1, i) = at
  BY <1>2
<1>4. at # path
  BY <1>1, <1>2
<1>5. IsStrictPrefix(at, path)
  <2>1. SubSeq(at, 1, Len(at)) = SubSeq(path, 1, Len(at))
    BY <1>2, <1>3
  <2> HIDE DEF at
  <2> QED BY <1>1, <1>2, <1>4, <2>1 DEF IsStrictPrefix, IsPrefix
<1> HIDE DEF at
<1>6. Append(at, path[Len(at) + 1]) = SubSeq(path, 1, Len(at) + 1)
  BY <1>2, <1>5, PrefixNext
<1> QED BY <1>2, <1>6 DEF at

\* A path that can be walked in a site leads to a directory or a file of it.
LEMMA WalkOfSite ==
  ASSUME NEW s, IsSite(s), Importable(s), NEW t, IsTree(t, s), t[<<>>] \in Cids,
         NEW source, NEW path \in Seq(Nat), NEW g, IsWalk(g, source, t[<<>>], path, Len(path))
  PROVE  LET n == Len(path)
         IN  /\ g[n].budget \in Budgets
             /\ g[n].code = "OK" => g[n].cid \in Cids /\ LeadsTo(g[n].cid, path, s, t)
<1> DEFINE n == Len(path)
           Good(i) ==
             /\ g[i].budget \in Budgets
             /\ g[i] = [cid |-> g[i].cid, code |-> g[i].code, budget |-> g[i].budget]
             /\ g[i].code = "OK" => g[i].cid \in Cids /\ LeadsTo(g[i].cid, SubSeq(path, 1, i), s, t)
           T == {i \in 0 .. n : Good(i)}
<1>1. n \in Nat
  OBVIOUS
<1>2. 0 \in T
  <2>1. 0 \in 0 .. n
    BY <1>1
  <2>2. g[0] = [cid |-> t[<<>>], code |-> "OK", budget |-> Budget]
    BY <2>1 DEF IsWalk
  <2>3. Budget \in Budgets
    BY DEF Budget, Budgets
  <2>4. SubSeq(path, 1, 0) = <<>> /\ <<>> \in Places(s)
    BY PlacesAre
  <2>5. LeadsTo(t[<<>>], SubSeq(path, 1, 0), s, t)
    <3>1. Len(<<>>) = 0
      OBVIOUS
    <3>2. <<>> \notin DOMAIN s
      BY <3>1 DEF Importable
    <3> QED BY <2>4, <3>2 DEF LeadsTo
  <2> QED BY <2>1, <2>2, <2>3, <2>5
<1>3. ASSUME NEW i \in 0 .. (n - 1), i \in T PROVE i + 1 \in T
  <2> DEFINE j == i + 1
  <2>1. j \in 0 .. n /\ j # 0 /\ j - 1 = i
    BY <1>1
  <2>2. Append(SubSeq(path, 1, i), path[j]) = SubSeq(path, 1, j)
    BY PathNext
  <2> HIDE DEF j
  <2>3. g[j] = Enter(source, g[i], path[j], i)
    BY <2>1 DEF IsWalk
  <2>4. Good(i)
    BY <1>3
  <2>5. /\ g[j].budget \in Budgets
        /\ g[j] = [cid |-> g[j].cid, code |-> g[j].code, budget |-> g[j].budget]
        /\ g[j].code = "OK" =>
             /\ g[i].code = "OK" /\ g[j].cid \in Cids
             /\ g[i].cid.codec = "dag-pb" /\ g[i].cid.digest.type = "directory"
             /\ \E link \in ToSet(g[i].cid.digest.links) : link.name = path[j] /\ g[j].cid = link.cid
    BY <2>3, <2>4, EnterIs
  <2>6. ASSUME g[j].code = "OK" PROVE LeadsTo(g[j].cid, SubSeq(path, 1, j), s, t)
    <3>1. LeadsTo(g[i].cid, SubSeq(path, 1, i), s, t)
      BY <2>4, <2>5, <2>6
    <3>2. LeadsTo(g[j].cid, Append(SubSeq(path, 1, i), path[j]), s, t)
      BY <2>5, <2>6, <3>1, EnterOfSite
    <3> QED BY <2>2, <3>2
  <2>7. j \in T
    BY <2>1, <2>5, <2>6
  <2> QED BY <2>7 DEF j
<1>4. \A i \in 0 .. n : i \in T
  <2> HIDE DEF T, n
  <2> QED BY <1>1, <1>2, <1>3, IntervalInduction
<1>5. Good(n)
  <2>1. n \in 0 .. n
    BY <1>1
  <2> HIDE DEF Good, n
  <2> QED BY <1>4, <2>1
<1>6. SubSeq(path, 1, n) = path
  OBVIOUS
<1> QED BY <1>5, <1>6

\* No file is where there is a directory.
LEMMA DirectoryIsNoFile ==
  ASSUME NEW source, NEW c, c.codec = "dag-pb", c.digest.kind = "node",
         c.digest.type = "directory", NEW b \in Budgets, NEW fetch
  PROVE  FileAt(source, c, fetch, b).code # "OK"
<1> DEFINE got == fetchVerified(source, c, b)
           bytes == source[c]
           node == decodeNode(bytes)
           whole == FetchLinks(node, fetch, got)
           rest == IF node.type # "file" \/ Len(node.blocksizes) # Len(node.links)
                   THEN Refused("MALFORMED_BLOCK", got.budget)
                   ELSE IF whole.code = "OK" /\ Len(whole.data) # node.filesize
                   THEN Refused("MALFORMED_BLOCK", whole.budget)
                   ELSE whole
<1>1. got.code = "OK" => bytes = c.digest
  BY VerifiedIs
<1>2. FileAt(source, c, fetch, b) =
        IF got.code # "OK" THEN got
        ELSE IF c.codec = "raw" THEN spendBytes(got.budget, DataOf(bytes))
        ELSE IF DecodeError(bytes) # "OK" THEN Refused(DecodeError(bytes), got.budget)
        ELSE IF node.type = "directory" THEN Refused("PATH_NOT_FOUND", got.budget)
        ELSE rest
  BY DEF FileAt
<1>3. got.code = "OK" => node.type = "directory"
  BY <1>1 DEF decodeNode
<1> HIDE DEF got, bytes, node, rest
<1> QED BY <1>2, <1>3 DEF Refused, Result

\* Whatever blocks a source offers, a fetch from a published site that succeeds gives the
\* file the site has at the path.
LEMMA PublishedGives ==
  ASSUME NEW s, IsSite(s), Importable(s), importSite(s) \in Cids,
         NEW source, NEW path \in Seq(Nat), NEW got, got = fetchPath(source, importSite(s), path),
         got.code = "OK"
  PROVE  path \in DOMAIN s /\ got.data = s[path]
<1> DEFINE n == Len(path)
<1>1. n \in Nat /\ DEPTH \in Nat
  BY UnixFsAssumption
<1>2. PICK t : IsTree(t, s) /\ importSite(s) = t[<<>>]
  BY ImportIs
<1>3. PICK g : /\ IsWalk(g, source, importSite(s), path, n)
               /\ got = IF \E i \in DOMAIN path : path[i] \in Dots
                        THEN Refused("PATH_NOT_FOUND", Budget)
                        ELSE IF g[n].code # "OK" THEN Refused(g[n].code, g[n].budget)
                        ELSE fetchFile(source, g[n].cid, n, g[n].budget)
  BY FetchPathIs
<1>4. g[n].budget \in Budgets /\ (g[n].code = "OK" => g[n].cid \in Cids /\ LeadsTo(g[n].cid, path, s, t))
  BY <1>2, <1>3, WalkOfSite
<1> HIDE DEF n
<1>5. g[n].code = "OK" /\ got = fetchFile(source, g[n].cid, n, g[n].budget)
  BY <1>3 DEF Refused, Result
<1>6. PICK f : /\ IsFiles(f, source, DEPTH + 1)
               /\ \A c, depth, budget :
                    fetchFile(source, c, depth, budget) =
                      IF depth > DEPTH THEN Refused("RESPONSE_TOO_LARGE", budget)
                      ELSE f[DEPTH + 1 - depth][c][budget]
  BY FetchFileIs
<1> DEFINE k == DEPTH + 1 - n
           cid == g[n].cid
           b == g[n].budget
<1>7. ~(n > DEPTH) /\ got = f[k][cid][b]
  BY <1>5, <1>6 DEF Refused, Result
<1>8. k \in 1 .. (DEPTH + 1) /\ k \in 0 .. (DEPTH + 1) /\ DEPTH + 1 \in k .. (DEPTH + 1)
  BY <1>1, <1>7
<1>9. cid \in Cids /\ b \in Budgets /\ LeadsTo(cid, path, s, t)
  BY <1>4, <1>5
<1> HIDE DEF k, cid, b
<1>10. ~(path \in Places(s) /\ cid = t[path])
  <2> SUFFICES ASSUME path \in Places(s), cid = t[path] PROVE FALSE
    OBVIOUS
  <2>1. cid.codec = "dag-pb" /\ cid.digest.kind = "node" /\ cid.digest.type = "directory"
    BY <1>2, DirectoryIs
  <2>2. f[k] = [cc \in Cids |-> [bb \in Budgets |-> FileAt(source, cc, f[k - 1], bb)]]
    <3> DEFINE D == DEPTH + 1
    <3>1. k \in 0 .. D /\ k # 0 /\ IsFiles(f, source, D)
      BY <1>6, <1>8
    <3> HIDE DEF D
    <3> QED BY <3>1 DEF IsFiles
  <2>3. got = FileAt(source, cid, f[k - 1], b)
    BY <1>7, <1>9, <2>2
  <2> QED BY <1>9, <2>1, <2>3, DirectoryIsNoFile
<1>11. path \in DOMAIN s /\ cid = fileBlocks(s[path])
  BY <1>9, <1>10 DEF LeadsTo
<1>12. PICK m : IsMeanings(m, DEPTH + 1)
  <2> DEFINE D == DEPTH + 1
  <2>1. D \in Nat
    BY <1>1
  <2> HIDE DEF D
  <2>2. \E m : IsMeanings(m, D)
    BY <2>1, MeaningsExists
  <2> QED BY <2>2 DEF D
<1>13. Gives(f[k][cid][b], m[DEPTH + 1][cid])
  BY <1>6, <1>8, <1>9, <1>12, FilesGive
<1>14. DEPTH >= 1
  <2>1. n > 0
    BY <1>11 DEF Importable, n
  <2> QED BY <1>1, <1>7, <2>1
<1>15. s[path] \in Seq(Nat)
  BY <1>11 DEF IsSite
<1>16. m[DEPTH + 1][cid] = s[path]
  BY <1>9, <1>11, <1>12, <1>14, <1>15, FileSays
<1> QED BY <1>7, <1>11, <1>13, <1>16 DEF Gives

\* The site of a pull is one a publisher imported, and the root is its root.
SiteInv == site # None => site \in Sites /\ Importable(site) /\ root = importSite(site)

\* No step changes what is pulled.
LEMMA SiteAlways == Spec => []SiteInv
<1>1. Init => SiteInv
  BY DEF Init, SiteInv
<1>2. SiteInv /\ [Next]_vars => SiteInv'
  <2> SUFFICES ASSUME SiteInv, [Next]_vars PROVE SiteInv'
    OBVIOUS
  <2>1. site' = site /\ root' = root
    BY DEF Next, Take, Answer, AnswerNotBytes, Deadline, Return, Throw, vars
  <2> QED BY <2>1 DEF SiteInv
<1> QED BY <1>1, <1>2, PTL DEF Spec

\* From blocks as peers answered them, right or wrong, a fetch of a published site
\* gives a file only where the site has it, and as it was published.
FetchedIsPublished ==
  site # None =>
    \A path \in Paths \cup DOMAIN site :
      LET got == fetchPath(offered, root, path)
      IN  got.code = "OK" => path \in DOMAIN site /\ got.data = site[path]

\* What is fetched is what was published, for any site, peers, paths and limits
\* (unixfs.ts importSite against fetch.ts fetchPath).
THEOREM FetchedIsPublishedHolds == Spec => []FetchedIsPublished
<1>1. SiteInv => FetchedIsPublished
  <2> SUFFICES ASSUME SiteInv, site # None, NEW path \in Paths \cup DOMAIN site,
                      fetchPath(offered, root, path).code = "OK"
               PROVE  path \in DOMAIN site /\ fetchPath(offered, root, path).data = site[path]
    BY DEF FetchedIsPublished
  <2>1. site \in Sites /\ Importable(site) /\ root = importSite(site)
    BY DEF SiteInv
  <2>2. IsSite(site) /\ importSite(site) \in Cids /\ path \in Seq(Nat)
    BY <2>1, ContentAssumption DEF IsSite
  <2> QED BY <2>1, <2>2, PublishedGives
<1> QED BY <1>1, SiteAlways, PTL

-----------------------------------------------------------------------------
(***************************************************************************)
(* Once a published site was pulled, a fetch finds every file of it and    *)
(* nothing else, unless a limit stops it.                                  *)
(***************************************************************************)

\* g is the total of the sizes at each set of places in D.
IsTotals(g, sizes, D) ==
  g = [s \in D |-> IF s = {} THEN 0 ELSE sizes[Pick(s)] + g[s \ {Pick(s)}]]

\* A file is as long as its node declares.
LEMMA TotalIs ==
  ASSUME NEW data \in Seq(Nat), NEW chunks, chunks = chunk(data)
  PROVE  Total([i \in DOMAIN chunks |-> Len(chunks[i])]) = Len(data)
<1> DEFINE n == Len(chunks)
           S == 1 .. n
           D == SUBSET S
           sizes == [i \in DOMAIN chunks |-> Len(chunks[i])]
           h == [i \in S |-> leaf(chunks[i])]
           g == CHOOSE f : IsTotals(f, sizes, SUBSET DOMAIN sizes)
<1>1. /\ n \in Nat \ {0} /\ DOMAIN chunks = S
      /\ Ends(data, 0) = 0 /\ Ends(data, n) = Len(data)
      /\ \A i \in S :
           /\ Ends(data, i - 1) \in Nat /\ Ends(data, i) \in Nat
           /\ Ends(data, i - 1) <= Ends(data, i) /\ Ends(data, i) <= Len(data)
           /\ chunks[i] = SubSeq(data, Ends(data, i - 1) + 1, Ends(data, i))
  BY ChunksAre
<1>2. Total(sizes) = g[DOMAIN sizes]
  <2> HIDE DEF sizes
  <2> QED BY DEF Total, FoldSeq, FoldFunction, FoldFunctionOnSet, MapThenFoldSet, IsTotals, Pick
<1>3. DOMAIN sizes = S /\ \A i \in S : sizes[i] = Len(chunks[i])
  BY <1>1
<1>4. \A i \in S : SizeOf(h[i]) = Len(chunks[i])
  BY DEF SizeOf, leaf
<1>5. ASSUME NEW i \in S
      PROVE  Len(chunks[i]) \in Nat /\ Len(chunks[i]) + Ends(data, i - 1) = Ends(data, i)
  <2> DEFINE a == Ends(data, i - 1)
             b == Ends(data, i)
  <2>1. a \in Nat /\ b \in Nat /\ a <= b /\ b <= Len(data) /\ chunks[i] = SubSeq(data, a + 1, b)
    BY <1>1
  <2> HIDE DEF a, b
  <2>2. Len(SubSeq(data, a + 1, b)) = b - a
    BY <2>1, SubSeqJoin
  <2>3. Len(chunks[i]) \in Nat /\ Len(chunks[i]) + a = b
    BY <2>1, <2>2
  <2> QED BY <2>3 DEF a, b
<1> HIDE DEF h, sizes
<1>6. \A f : IsTotals(f, sizes, D) <=> IsWeights(f, h, D)
  <2> SUFFICES ASSUME NEW f PROVE IsTotals(f, sizes, D) <=> IsWeights(f, h, D)
    OBVIOUS
  <2> DEFINE A(s) == IF s = {} THEN 0 ELSE sizes[Pick(s)] + f[s \ {Pick(s)}]
             B(s) == IF s = {} THEN 0 ELSE SizeOf(h[Pick(s)]) + f[s \ {Pick(s)}]
  <2>1. ASSUME NEW s \in D PROVE A(s) = B(s)
    <3>1. s # {} => Pick(s) \in S
      BY DEF Pick
    <3>2. s # {} => sizes[Pick(s)] = SizeOf(h[Pick(s)])
      BY <1>3, <1>4, <3>1
    <3> QED BY <3>2
  <2> HIDE DEF A, B, D
  <2>2. [s \in D |-> A(s)] = [s \in D |-> B(s)]
    BY <2>1
  <2> QED BY <2>2 DEF IsTotals, IsWeights, A, B
<1>7. IsFiniteSet(S)
  <2>1. n \in Int /\ 1 \in Int
    BY <1>1
  <2> HIDE DEF n
  <2> QED BY <2>1, FS_Interval
<1>8. IsWeights(g, h, D)
  <2> HIDE DEF S
  <2>1. \E f : IsWeights(f, h, D)
    BY <1>7, WeightsExist
  <2> HIDE DEF D
  <2>2. IsTotals(g, sizes, D)
    BY <1>3, <1>6, <2>1 DEF D
  <2> QED BY <1>6, <2>2
<1>9. \A s \in D : \A x \in s : g[s] = SizeOf(h[x]) + g[s \ {x}]
  <2> HIDE DEF S, g
  <2>1. \A i \in S : SizeOf(h[i]) \in Nat
    BY <1>4, <1>5
  <2>2. ASSUME NEW s \in SUBSET S, NEW x \in s PROVE g[s] = SizeOf(h[x]) + g[s \ {x}]
    BY <1>7, <1>8, <2>1, WeightsAdd
  <2> QED BY <2>2
<1>10. g[{}] = 0
  <2>1. {} \in D
    OBVIOUS
  <2> HIDE DEF D, g
  <2> QED BY <1>8, <2>1 DEF IsWeights
<1> DEFINE T == {i \in 0 .. n : g[1 .. i] = Ends(data, i)}
<1> HIDE DEF g, n
<1>11. 0 \in T
  <2>1. 1 .. 0 = {} /\ 0 \in 0 .. n
    BY <1>1
  <2> QED BY <1>1, <1>10, <2>1
<1>12. ASSUME NEW i \in 0 .. (n - 1), i \in T PROVE i + 1 \in T
  <2> DEFINE j == i + 1
  <2>1. j \in 1 .. n /\ j \in 0 .. n /\ j - 1 = i
    BY <1>1
  <2>2. 1 .. j \in D /\ j \in 1 .. j /\ (1 .. j) \ {j} = 1 .. i
    <3>1. \A x \in 1 .. j : x \in 1 .. n
      BY <1>1
    <3>2. j \in 1 .. j
      BY <1>1
    <3>3. (1 .. j) \ {j} = 1 .. i
      <4>1. i \in Nat
        BY <1>1
      <4> QED BY <4>1
    <3> QED BY <3>1, <3>2, <3>3
  <2> HIDE DEF j
  <2>3. g[1 .. j] = SizeOf(h[j]) + g[1 .. i]
    BY <1>9, <2>2
  <2>4. g[1 .. i] = Ends(data, j - 1)
    BY <1>12, <2>1
  <2>5. g[1 .. j] = Len(chunks[j]) + Ends(data, j - 1)
    BY <1>4, <2>1, <2>3, <2>4
  <2>6. g[1 .. j] = Ends(data, j)
    BY <1>5, <2>1, <2>5
  <2>7. j \in T
    BY <2>1, <2>6
  <2> QED BY <2>7 DEF j
<1>13. \A i \in 0 .. n : i \in T
  <2> HIDE DEF T
  <2> QED BY <1>1, <1>11, <1>12, IntervalInduction
<1>14. g[1 .. n] = Len(data)
  <2>1. n \in T
    <3>1. n \in 0 .. n
      BY <1>1
    <3> HIDE DEF T
    <3> QED BY <1>13, <3>1
  <2> QED BY <1>1, <2>1
<1> QED BY <1>2, <1>3, <1>14 DEF sizes

\* How a fetch of a file that is there may end.
Fine == {"OK", "RESPONSE_TOO_LARGE"}

\* A leaf that is held is its data, or more than a limit allows.
LEMMA LeafFine ==
  ASSUME NEW source, Whole(source), NEW d \in Seq(Nat), rawLeafCid(d) \in DOMAIN source,
         NEW b \in Budgets, NEW fetch
  PROVE  LET got == FileAt(source, rawLeafCid(d), fetch, b)
         IN  got.budget \in Budgets /\ got.code \in Fine /\ (got.code = "OK" => got.data = d)
<1> DEFINE c == rawLeafCid(d)
           got == fetchVerified(source, c, b)
           bytes == source[c]
           node == decodeNode(bytes)
           whole == FetchLinks(node, fetch, got)
           rest == IF DecodeError(bytes) # "OK" THEN Refused(DecodeError(bytes), got.budget)
                   ELSE IF node.type = "directory" THEN Refused("PATH_NOT_FOUND", got.budget)
                   ELSE IF node.type # "file" \/ Len(node.blocksizes) # Len(node.links)
                   THEN Refused("MALFORMED_BLOCK", got.budget)
                   ELSE IF whole.code = "OK" /\ Len(whole.data) # node.filesize
                   THEN Refused("MALFORMED_BLOCK", whole.budget)
                   ELSE whole
<1>1. FileAt(source, c, fetch, b) =
        IF got.code # "OK" THEN got
        ELSE IF c.codec = "raw" THEN spendBytes(got.budget, DataOf(bytes))
        ELSE rest
  BY DEF FileAt
<1>2. got.budget \in Budgets /\ got.code \in Fine
  BY WholeVerified DEF Blameless, Fine
<1>3. c.codec = "raw" /\ DataOf(bytes) = d
  <2>1. bytes = leaf(d) /\ c.codec = "raw"
    BY DEF Whole, rawLeafCid
  <2> QED BY <2>1 DEF DataOf, leaf
<1>4. d \in Seq(Items)
  BY DEF Items
<1>5. Gives(spendBytes(got.budget, d), d) /\ spendBytes(got.budget, d).code \in Fine
  BY <1>2, <1>4, SpentIs DEF Fine
<1> HIDE DEF c, got, bytes, rest
<1>6. CASE got.code # "OK"
  BY <1>1, <1>2, <1>6 DEF c
<1>7. CASE got.code = "OK"
  <2>1. FileAt(source, c, fetch, b) = spendBytes(got.budget, d)
    BY <1>1, <1>3, <1>7
  <2> QED BY <1>5, <2>1 DEF Gives, c
<1> QED BY <1>6, <1>7

\* The links of a file that are as long as declared are joined to the last, or more than
\* a limit allows.
LEMMA LinksFine ==
  ASSUME NEW node, node.links \in Seq(Links), NEW fetch,
         \A i \in DOMAIN node.links : \A b \in Budgets :
           LET part == fetch[node.links[i].cid][b]
           IN  /\ part.budget \in Budgets /\ part.code \in Fine
               /\ part.code = "OK" => Len(part.data) = node.blocksizes[i],
         NEW got, got.code = "OK", got.budget \in Budgets
  PROVE  FetchLinks(node, fetch, got).code \in Fine
<1> DEFINE links == node.links
           n == Len(links)
<1>1. n \in Nat /\ DOMAIN links = 1 .. n
  <2> HIDE DEF Links
  <2> QED OBVIOUS
<1>2. PICK g : IsParts(g, node, fetch, got, n) /\ FetchLinks(node, fetch, got) = g[n]
  BY <1>1, FetchLinksIs
<1> DEFINE T == {i \in 0 .. n : g[i].code \in Fine /\ g[i].budget \in Budgets}
<1>3. 0 \in T
  <2>1. g[0] = got
    BY <1>1, <1>2 DEF IsParts
  <2> QED BY <1>1, <2>1 DEF Fine
<1>4. ASSUME NEW i \in 0 .. (n - 1), i \in T PROVE i + 1 \in T
  <2> DEFINE j == i + 1
             before == g[i]
             part == fetch[links[j].cid][before.budget]
  <2>1. j \in 0 .. n /\ j \in 1 .. n /\ j # 0 /\ j - 1 = i
    BY <1>1
  <2> HIDE DEF j
  <2>2. g[j] = IF before.code # "OK" THEN before ELSE Join(before, part, node.blocksizes[j])
    BY <1>2, <2>1 DEF IsParts
  <2>3. before.code \in Fine /\ before.budget \in Budgets
    BY <1>4
  <2>4. /\ part.budget \in Budgets /\ part.code \in Fine
        /\ part.code = "OK" => Len(part.data) = node.blocksizes[j]
    BY <1>1, <2>1, <2>3
  <2> HIDE DEF before, part
  <2>5. Join(before, part, node.blocksizes[j]).code \in Fine
        /\ Join(before, part, node.blocksizes[j]).budget \in Budgets
    <3>1. CASE part.code # "OK"
      BY <2>4, <3>1 DEF Join
    <3>2. CASE part.code = "OK"
      <4>1. Join(before, part, node.blocksizes[j]) = Result("OK", before.data \o part.data, part.budget)
        BY <2>4, <3>2 DEF Join
      <4> QED BY <2>4, <4>1 DEF Result, Fine
    <3> QED BY <3>1, <3>2
  <2>6. g[j].code \in Fine /\ g[j].budget \in Budgets
    BY <2>2, <2>3, <2>5
  <2>7. j \in T
    BY <2>1, <2>6
  <2> QED BY <2>7 DEF j
<1>5. \A i \in 0 .. n : i \in T
  <2> HIDE DEF T, n
  <2> QED BY <1>1, <1>3, <1>4, IntervalInduction
<1>6. n \in T
  <2> HIDE DEF T, n
  <2> QED BY <1>1, <1>5
<1> QED BY <1>2, <1>6

\* No file is where there is a directory, and nothing worse is said of it.
LEMMA DirectoryFine ==
  ASSUME NEW source, Whole(source), NEW c \in DOMAIN source, c.codec = "dag-pb",
         c.digest.kind = "node", c.digest.type = "directory", NEW b \in Budgets, NEW fetch
  PROVE  FileAt(source, c, fetch, b).code \in {"RESPONSE_TOO_LARGE", "PATH_NOT_FOUND"}
<1> DEFINE got == fetchVerified(source, c, b)
           bytes == source[c]
           node == decodeNode(bytes)
           whole == FetchLinks(node, fetch, got)
           rest == IF node.type # "file" \/ Len(node.blocksizes) # Len(node.links)
                   THEN Refused("MALFORMED_BLOCK", got.budget)
                   ELSE IF whole.code = "OK" /\ Len(whole.data) # node.filesize
                   THEN Refused("MALFORMED_BLOCK", whole.budget)
                   ELSE whole
<1>1. bytes = c.digest
  BY DEF Whole
<1>2. FileAt(source, c, fetch, b) =
        IF got.code # "OK" THEN got
        ELSE IF c.codec = "raw" THEN spendBytes(got.budget, DataOf(bytes))
        ELSE IF DecodeError(bytes) # "OK" THEN Refused(DecodeError(bytes), got.budget)
        ELSE IF node.type = "directory" THEN Refused("PATH_NOT_FOUND", got.budget)
        ELSE rest
  BY DEF FileAt
<1>3. node.type = "directory" /\ DecodeError(bytes) \in Fine
  BY <1>1 DEF decodeNode, DecodeError, Fine
<1>4. got.code \in Fine
  BY WholeVerified DEF Fine
<1> HIDE DEF got, bytes, node, rest
<1> QED BY <1>2, <1>3, <1>4 DEF Refused, Result, Fine

\* A file of a published site that is held is found, or is more than a limit allows.
LEMMA FileFine ==
  ASSUME NEW source, Whole(source), NEW f, IsFiles(f, source, DEPTH + 1), DEPTH >= 1,
         NEW data \in Seq(Nat), fileBlocks(data) \in DOMAIN source,
         NEW k \in 1 .. (DEPTH + 1), NEW b \in Budgets
  PROVE  f[k][fileBlocks(data)][b].code \in Fine
<1> DEFINE c == fileBlocks(data)
           chunks == chunk(data)
           D == DEPTH + 1
<1>1. DEPTH \in Nat /\ c \in Cids /\ DOMAIN source \subseteq Cids
  BY UnixFsAssumption DEF Whole
<1>2. /\ f[0] = TooDeep
      /\ \A i \in 1 .. D : \A d \in Cids : \A e \in Budgets : f[i][d][e] = FileAt(source, d, f[i - 1], e)
  <2>1. 0 \in 0 .. D /\ (\A i \in 1 .. D : i \in 0 .. D /\ i # 0) /\ IsFiles(f, source, D)
    BY <1>1
  <2> HIDE DEF D
  <2>2. f[0] = TooDeep
    BY <2>1 DEF IsFiles
  <2>3. ASSUME NEW i \in 1 .. D, NEW d \in Cids, NEW e \in Budgets
        PROVE  f[i][d][e] = FileAt(source, d, f[i - 1], e)
    <3>1. i \in 0 .. D /\ i # 0
      BY <2>1
    <3>2. f[i] = [cc \in Cids |-> [bb \in Budgets |-> FileAt(source, cc, f[i - 1], bb)]]
      BY <2>1, <3>1 DEF IsFiles
    <3> QED BY <3>2
  <2> QED BY <2>2, <2>3
<1>3. c = rawLeafCid(data) \/ IsFileNode(c, chunks)
  <2>1. c = fileBlocks(data) /\ chunks = chunk(data)
    OBVIOUS
  <2> HIDE DEF c, chunks
  <2> QED BY <2>1, FileBlocksAre
<1>4. k \in 1 .. D /\ D \in Nat
  BY <1>1
<1>5. f[k][c][b] = FileAt(source, c, f[k - 1], b)
  <2> HIDE DEF c, D
  <2> QED BY <1>1, <1>2, <1>4
<1>6. c \in DOMAIN source /\ \A i \in DOMAIN chunks : chunks[i] \in Seq(Nat)
  BY ChunksJoin
<1>7. Total([i \in DOMAIN chunks |-> Len(chunks[i])]) = Len(data) /\ Len(data) \in Nat
  BY TotalIs
<1>8. DOMAIN chunks = 1 .. Len(chunks) /\ Len(chunks) \in Nat
  BY ChunksAre
<1>9. CASE c = rawLeafCid(data)
  <2> HIDE DEF c
  <2> QED BY <1>5, <1>6, <1>9, LeafFine DEF c
<1>10. CASE IsFileNode(c, chunks)
  <2> DEFINE fetch == f[k - 1]
             got == fetchVerified(source, c, b)
             bytes == source[c]
             node == decodeNode(bytes)
             whole == FetchLinks(node, fetch, got)
  <2>1. FileAt(source, c, fetch, b) =
          IF got.code # "OK" THEN got
          ELSE IF c.codec = "raw" THEN spendBytes(got.budget, DataOf(bytes))
          ELSE IF DecodeError(bytes) # "OK" THEN Refused(DecodeError(bytes), got.budget)
          ELSE IF node.type = "directory" THEN Refused("PATH_NOT_FOUND", got.budget)
          ELSE IF node.type # "file" \/ Len(node.blocksizes) # Len(node.links)
          THEN Refused("MALFORMED_BLOCK", got.budget)
          ELSE IF whole.code = "OK" /\ Len(whole.data) # node.filesize
          THEN Refused("MALFORMED_BLOCK", whole.budget)
          ELSE whole
    BY DEF FileAt
  <2>2. got.budget \in Budgets /\ got.code \in Fine /\ got.data = <<>>
    BY <1>6, WholeVerified, VerifiedIs DEF Blameless, Fine
  <2> HIDE DEF c, chunks, D
  <2>3. bytes = c.digest /\ bytes.kind = "node" /\ node = bytes /\ bytes \in Blocks
    BY <1>1, <1>6, <1>10, UnixFsAssumption DEF Whole, IsFileNode, decodeNode
  <2>4. c.codec = "dag-pb" /\ node.type = "file"
    BY <1>10, <2>3 DEF IsFileNode
  <2>5. DecodeError(bytes) \in Fine
    BY <2>3 DEF DecodeError, Fine
  <2>6. /\ DOMAIN node.links = DOMAIN chunks
        /\ \A i \in DOMAIN chunks : /\ node.links[i].cid = rawLeafCid(chunks[i])
                                    /\ node.blocksizes[i] = Len(chunks[i])
    BY <1>10, <2>3 DEF IsFileNode
  <2>7. Len(node.blocksizes) = Len(node.links)
    <3> DEFINE n == Len(chunks)
    <3>1. /\ node.links = [i \in 1 .. n |-> [name |-> Unnamed, cid |-> rawLeafCid(chunks[i])]]
          /\ node.blocksizes = [i \in 1 .. n |-> Len(chunks[i])]
      BY <1>8, <1>10, <2>3 DEF IsFileNode
    <3>2. n \in Nat
      BY <1>8
    <3> HIDE DEF n
    <3>3. Len(node.links) = n
      BY <3>1, <3>2
    <3>4. Len(node.blocksizes) = n
      BY <3>1, <3>2
    <3> QED BY <3>3, <3>4
  <2>8. node.filesize = Len(data)
    <3>1. node.filesize = Total(node.blocksizes)
      BY <1>10, <2>3 DEF IsFileNode
    <3>2. node.blocksizes = [i \in DOMAIN chunks |-> Len(chunks[i])]
      BY <1>10, <2>3 DEF IsFileNode
    <3> QED BY <1>7, <3>1, <3>2
  <2> HIDE DEF got, bytes, node, whole
  <2>9. ASSUME got.code = "OK", DecodeError(bytes) = "OK"
        PROVE  whole.code \in Fine /\ (whole.code = "OK" => Len(whole.data) = Len(data))
    <3>1. node.links \in Seq(Links) /\ \A i \in DOMAIN node.links : node.links[i].cid \in DOMAIN source
      <4>1. c.codec # "raw" /\ DecodeError(source[c]) = "OK"
        BY <2>4, <2>9 DEF bytes
      <4> QED BY <1>6, <4>1, WholeLinks DEF node, bytes
    <3>2. ASSUME NEW i \in DOMAIN node.links, NEW e \in Budgets
          PROVE  LET part == fetch[node.links[i].cid][e]
                 IN  /\ part.budget \in Budgets /\ part.code \in Fine
                     /\ part.code = "OK" => Len(part.data) = node.blocksizes[i]
      <4> DEFINE d == node.links[i].cid
      <4>1. d \in DOMAIN source /\ d \in Cids /\ d = rawLeafCid(chunks[i]) /\ chunks[i] \in Seq(Nat)
            /\ node.blocksizes[i] = Len(chunks[i])
        BY <1>1, <1>6, <2>6, <3>1
      <4> HIDE DEF d
      <4>2. CASE k = 1
        <5>1. fetch = TooDeep
          BY <1>2, <4>2
        <5>2. fetch[d][e] = Refused("RESPONSE_TOO_LARGE", e)
          BY <4>1, <5>1 DEF TooDeep
        <5> QED BY <5>2 DEF Refused, Result, Fine, d
      <4>3. CASE k # 1
        <5>1. k - 1 \in 1 .. D
          BY <1>4, <4>3
        <5>2. fetch[d][e] = FileAt(source, d, f[(k - 1) - 1], e)
          BY <1>2, <4>1, <5>1
        <5> DEFINE below == f[(k - 1) - 1]
                   part == FileAt(source, d, below, e)
        <5> HIDE DEF below
        <5>3. part.budget \in Budgets /\ part.code \in Fine /\ (part.code = "OK" => part.data = chunks[i])
          BY <4>1, LeafFine
        <5>4. fetch[d][e] = part
          BY <5>2 DEF below
        <5> HIDE DEF part, fetch
        <5> QED BY <4>1, <5>3, <5>4 DEF d
      <4> QED BY <4>2, <4>3
    <3> HIDE DEF fetch
    <3>3. whole.code \in Fine
      BY <2>2, <2>9, <3>1, <3>2, LinksFine DEF whole
    <3>4. PICK m : IsMeanings(m, DEPTH + 1)
      <4>1. D \in Nat
        BY <1>4
      <4>2. \E m : IsMeanings(m, D)
        BY <4>1, MeaningsExists
      <4> QED BY <4>2 DEF D
    <3>5. \A d \in Cids : \A e \in Budgets : Gives(fetch[d][e], m[DEPTH][d])
      <4>1. k - 1 \in 0 .. (DEPTH + 1) /\ DEPTH \in (k - 1) .. (DEPTH + 1)
        BY <1>1
      <4> QED BY <3>4, <4>1, FilesGive DEF fetch
    <3>6. Gives(whole, FlattenSeq([i \in DOMAIN node.links |-> m[DEPTH][node.links[i].cid]]))
      <4> DEFINE mm == m[DEPTH]
      <4> HIDE DEF mm
      <4>1. \A d \in Cids : \A e \in Budgets : Gives(fetch[d][e], mm[d])
        BY <3>5 DEF mm
      <4>2. Gives(whole, FlattenSeq([i \in DOMAIN node.links |-> mm[node.links[i].cid]]))
        BY <2>2, <2>9, <3>1, <4>1, LinksGive DEF whole
      <4> QED BY <4>2 DEF mm
    <3>7. FlattenSeq([i \in DOMAIN node.links |-> m[DEPTH][node.links[i].cid]]) = data
      <4>1. m[DEPTH + 1][c] = data
        BY <1>1, <3>4, FileSays DEF c
      <4>2. m[DEPTH + 1][c] = Says(c, m[DEPTH])
        <5>1. D \in 0 .. D /\ D # 0 /\ D - 1 = DEPTH
          BY <1>1 DEF D
        <5>2. IsMeanings(m, D)
          BY <3>4 DEF D
        <5>3. m[D] = [d \in Cids |-> Says(d, m[D - 1])]
          BY <5>1, <5>2 DEF IsMeanings
        <5>4. m[D][c] = Says(c, m[DEPTH])
          BY <1>1, <5>1, <5>3
        <5> QED BY <5>4 DEF D
      <4>3. Says(c, m[DEPTH]) = FlattenSeq([i \in DOMAIN node.links |-> m[DEPTH][node.links[i].cid]])
        BY <2>3, <2>4 DEF Says
      <4> QED BY <4>1, <4>2, <4>3
    <3> QED BY <3>3, <3>6, <3>7 DEF Gives
  <2>10. FileAt(source, c, fetch, b).code \in Fine
    <3> HIDE DEF fetch
    <3>1. CASE got.code # "OK"
      BY <2>1, <2>2, <3>1
    <3>2. CASE got.code = "OK" /\ DecodeError(bytes) # "OK"
      BY <2>1, <2>4, <2>5, <3>2 DEF Refused, Result
    <3>3. CASE got.code = "OK" /\ DecodeError(bytes) = "OK"
      BY <2>1, <2>4, <2>7, <2>8, <2>9, <3>3
    <3> QED BY <3>1, <3>2, <3>3
  <2> QED BY <1>5, <2>10 DEF c
<1> QED BY <1>3, <1>9, <1>10

\* Where a path goes on from a directory there is an entry of that name.
LEMMA EntryExists ==
  ASSUME NEW s, IsSite(s), NEW at \in Places(s), NEW g, NEW p \in DOMAIN s, IsStrictPrefix(at, p)
  PROVE  \E e \in Entries(s, at, g) : e.name = p[Len(at) + 1]
<1> DEFINE n == p[Len(at) + 1]
<1>1. at \in Seq(Nat) /\ p \in Seq(Nat)
  BY PlacesAre DEF IsSite
<1>2. Len(at) < Len(p) /\ Len(at) \in Nat /\ Len(p) \in Nat
  BY <1>1, PrefixNext
<1>3. CASE Len(p) = Len(at) + 1
  <2> DEFINE e == [name |-> n, cid |-> fileBlocks(s[p])]
  <2>1. e \in Entries(s, at, g)
    BY <1>3 DEF Entries, Below
  <2>2. e.name = n
    OBVIOUS
  <2> HIDE DEF e
  <2> QED BY <2>1, <2>2
<1>4. CASE Len(p) # Len(at) + 1
  <2> DEFINE e == [name |-> n, cid |-> g[Append(at, n)]]
  <2>1. Len(p) > Len(at) + 1
    BY <1>2, <1>4
  <2>2. n \in Subdirectories(s, at)
    BY <2>1 DEF Subdirectories, Below
  <2>3. e.name = n
    OBVIOUS
  <2> HIDE DEF n
  <2>4. e \in Entries(s, at, g)
    BY <2>2 DEF Entries
  <2> HIDE DEF e
  <2> QED BY <2>3, <2>4 DEF n
<1> QED BY <1>3, <1>4

\* A segment is entered, unless a limit stops it or what is reached is a file, or a
\* directory without an entry of that name.
LEMMA EnterFine ==
  ASSUME NEW s, IsSite(s), Importable(s), NEW t, IsTree(t, s),
         NEW source, Whole(source), NEW cid \in DOMAIN source, NEW budget \in Budgets,
         NEW pre, LeadsTo(cid, pre, s, t), NEW segment, NEW index,
         NEW to, to = Enter(source, [cid |-> cid, code |-> "OK", budget |-> budget], segment, index)
  PROVE  /\ to.code \in Fine \cup {"PATH_NOT_FOUND"}
         /\ to.code = "PATH_NOT_FOUND" =>
              \/ pre \in DOMAIN s
              \/ pre \in Places(s) /\ \A e \in Entries(s, pre, t) : e.name # segment
<1> DEFINE got == fetchVerified(source, cid, budget)
           bytes == source[cid]
           links == decodeNode(bytes).links
           matches == {j \in DOMAIN links : links[j].name = segment}
           stop(code, b) == [cid |-> cid, code |-> code, budget |-> b]
           enter == [cid |-> links[CHOOSE j \in matches : TRUE].cid, code |-> "OK",
                     budget |-> got.budget]
<1>1. to = IF index > DEPTH THEN stop("RESPONSE_TOO_LARGE", budget)
           ELSE IF got.code # "OK" THEN stop(got.code, got.budget)
           ELSE IF cid.codec # "dag-pb" THEN stop("PATH_NOT_FOUND", got.budget)
           ELSE IF DecodeError(bytes) # "OK" THEN stop(DecodeError(bytes), got.budget)
           ELSE IF decodeNode(bytes).type # "directory" \/ matches = {}
           THEN stop("PATH_NOT_FOUND", got.budget)
           ELSE IF Cardinality(matches) > 1 THEN stop("MALFORMED_BLOCK", got.budget)
           ELSE enter
  <2> DEFINE at == [cid |-> cid, code |-> "OK", budget |-> budget]
  <2>1. at.cid = cid /\ at.code = "OK" /\ at.budget = budget
    OBVIOUS
  <2>2. ASSUME NEW code, NEW b
        PROVE  [at EXCEPT !.code = code, !.budget = b] = stop(code, b)
    <3> DEFINE end == [at EXCEPT !.code = code, !.budget = b]
    <3>1. at = [cid |-> cid, code |-> "OK", budget |-> budget]
      OBVIOUS
    <3> HIDE DEF at
    <3>2. end = [at EXCEPT !.code = code, !.budget = b]
      OBVIOUS
    <3> HIDE DEF end
    <3>3. end = [cid |-> cid, code |-> code, budget |-> b]
      BY ONLY <3>1, <3>2
    <3> QED BY <3>3 DEF end
  <2> HIDE DEF at, stop
  <2>3. to = Enter(source, at, segment, index)
    BY DEF at
  <2> QED BY <2>1, <2>2, <2>3 DEF Enter
<1>2. got.code \in Fine /\ bytes = cid.digest
  BY WholeVerified DEF Whole, Fine
<1>3. \A code, b : stop(code, b).code = code
  OBVIOUS
<1>4. enter.code = "OK"
  OBVIOUS
<1> HIDE DEF stop, enter, got
<1>5. CASE pre \in DOMAIN s /\ cid = fileBlocks(s[pre])
  <2>1. cid.codec # "dag-pb" \/ (DecodeError(bytes) \in Fine /\ decodeNode(bytes).type # "directory")
    <3> DEFINE chunks == chunk(s[pre])
    <3>1. cid = rawLeafCid(s[pre]) \/ IsFileNode(cid, chunks)
      <4>1. cid = fileBlocks(s[pre]) /\ chunks = chunk(s[pre]) /\ s[pre] \in Seq(Nat)
        BY <1>5 DEF IsSite
      <4> HIDE DEF chunks
      <4> QED BY <4>1, FileBlocksAre
    <3>2. CASE cid = rawLeafCid(s[pre])
      BY <3>2 DEF rawLeafCid
    <3>3. CASE IsFileNode(cid, chunks)
      <4>1. bytes.kind = "node" /\ bytes.type = "file"
        BY <1>2, <3>3 DEF IsFileNode
      <4> QED BY <4>1 DEF DecodeError, decodeNode, Fine
    <3> QED BY <3>1, <3>2, <3>3
  <2> HIDE DEF bytes, links, matches
  <2>2. to.code \in Fine \cup {"PATH_NOT_FOUND"}
    <3>1. \/ to = stop("RESPONSE_TOO_LARGE", budget)
          \/ to = stop(got.code, got.budget)
          \/ to = stop("PATH_NOT_FOUND", got.budget)
          \/ DecodeError(bytes) \in Fine /\ to = stop(DecodeError(bytes), got.budget)
      BY <1>1, <2>1
    <3> QED BY <1>2, <1>3, <3>1 DEF Fine
  <2> QED BY <1>5, <2>2
<1>6. CASE pre \in Places(s) /\ cid = t[pre]
  <2> DEFINE ls == t[pre].digest.links
  <2>1. /\ cid.codec = "dag-pb" /\ bytes.kind = "node" /\ bytes.type = "directory"
        /\ \E k \in Nat : DOMAIN ls = 1 .. k
        /\ \A e \in Entries(s, pre, t) : \E i \in DOMAIN ls : ls[i] = e
        /\ \A i, j \in DOMAIN ls : ls[i].name = ls[j].name => i = j
    <3>1. ls = t[pre].digest.links
      OBVIOUS
    <3> HIDE DEF ls
    <3>2. /\ t[pre].codec = "dag-pb" /\ t[pre].digest.kind = "node"
          /\ t[pre].digest.type = "directory"
          /\ \E k \in Nat : DOMAIN ls = 1 .. k
          /\ \A e \in Entries(s, pre, t) : \E i \in DOMAIN ls : ls[i] = e
          /\ \A i, j \in DOMAIN ls : ls[i].name = ls[j].name => i = j
      BY <1>6, <3>1, DirectoryIs
    <3>3. bytes = t[pre].digest
      BY <1>2, <1>6
    <3> HIDE DEF bytes
    <3> QED BY <1>6, <3>2, <3>3
  <2>2. decodeNode(bytes) = bytes /\ DecodeError(bytes) \in Fine /\ links = ls
    BY <1>2, <1>6, <2>1 DEF decodeNode, DecodeError, Fine
  <2> HIDE DEF bytes, links, ls
  <2>3. ~(Cardinality(matches) > 1)
    <3>1. CASE matches = {}
      <4> HIDE DEF matches
      <4>1. Cardinality({}) = 0
        BY FS_EmptySet, Zenon
      <4> QED BY <3>1, <4>1
    <3>2. CASE matches # {}
      <4>1. PICK i : i \in matches
        BY <3>2
      <4>2. matches = {i}
        BY <2>1, <2>2, <4>1
      <4> HIDE DEF matches
      <4>3. Cardinality({i}) = 1
        BY FS_Singleton, Zenon
      <4> QED BY <4>2, <4>3
    <3> QED BY <3>1, <3>2
  <2>4. matches = {} => \A e \in Entries(s, pre, t) : e.name # segment
    BY <2>1, <2>2
  <2> HIDE DEF matches
  <2>5. \/ to = stop("RESPONSE_TOO_LARGE", budget)
        \/ got.code # "OK" /\ to = stop(got.code, got.budget)
        \/ DecodeError(bytes) # "OK" /\ to = stop(DecodeError(bytes), got.budget)
        \/ matches = {} /\ to = stop("PATH_NOT_FOUND", got.budget)
        \/ to = enter
    BY <1>1, <2>1, <2>2, <2>3
  <2> QED BY <1>2, <1>3, <1>4, <1>6, <2>2, <2>4, <2>5 DEF Fine
<1> QED BY <1>5, <1>6 DEF LeadsTo

\* A path can be walked in a site that is held, unless a limit stops it or there is no
\* file at the path.
LEMMA WalkFine ==
  ASSUME NEW s, IsSite(s), Importable(s), NEW t, IsTree(t, s), NEW source, Whole(source),
         t[<<>>] \in DOMAIN source,
         NEW path \in Seq(Nat), NEW g, IsWalk(g, source, t[<<>>], path, Len(path))
  PROVE  LET end == g[Len(path)]
         IN  /\ end.code \in Fine \cup {"PATH_NOT_FOUND"} /\ end.cid \in DOMAIN source
             /\ end.code = "PATH_NOT_FOUND" => path \notin DOMAIN s
<1> DEFINE n == Len(path)
           Pre(i) == SubSeq(path, 1, i)
           Good(i) ==
             /\ Blameless(g[i]) /\ g[i].cid \in DOMAIN source
             /\ g[i] = [cid |-> g[i].cid, code |-> g[i].code, budget |-> g[i].budget]
             /\ g[i].code = "OK" => LeadsTo(g[i].cid, Pre(i), s, t)
             /\ g[i].code \in Fine \cup {"PATH_NOT_FOUND"}
             /\ g[i].code = "PATH_NOT_FOUND" => path \notin DOMAIN s
           T == {i \in 0 .. n : Good(i)}
<1>1. n \in Nat
  OBVIOUS
<1>2. 0 \in T
  <2>1. 0 \in 0 .. n
    BY <1>1
  <2>2. g[0] = [cid |-> t[<<>>], code |-> "OK", budget |-> Budget]
    BY <2>1 DEF IsWalk
  <2>3. Budget \in Budgets
    BY DEF Budget, Budgets
  <2>4. Pre(0) = <<>> /\ <<>> \in Places(s)
    BY PlacesAre
  <2>5. <<>> \notin DOMAIN s
    <3>1. Len(<<>>) = 0
      OBVIOUS
    <3> QED BY <3>1 DEF Importable
  <2>6. LeadsTo(t[<<>>], Pre(0), s, t)
    BY <2>4, <2>5 DEF LeadsTo
  <2> HIDE DEF Pre
  <2> QED BY <2>1, <2>2, <2>3, <2>6 DEF Blameless, Faults, Fine
<1>3. ASSUME NEW i \in 0 .. (n - 1), i \in T PROVE i + 1 \in T
  <2> DEFINE j == i + 1
  <2>1. j \in 0 .. n /\ j # 0 /\ j - 1 = i
    BY <1>1
  <2>2. Append(Pre(i), path[j]) = Pre(j)
    BY PathNext
  <2>3. Pre(i) \in Seq(Nat) /\ Len(Pre(i)) = i /\ path[j] = path[Len(Pre(i)) + 1] /\ Pre(i) # path
    <3>1. i \in Nat /\ i < Len(path)
      BY <1>1
    <3>2. Pre(i) \in Seq(Nat) /\ Len(Pre(i)) = i
      BY <3>1
    <3> HIDE DEF Pre
    <3> QED BY <1>1, <3>1, <3>2
  <2>4. IsStrictPrefix(Pre(i), path)
    <3>1. SubSeq(Pre(i), 1, Len(Pre(i))) = Pre(i)
      <4> HIDE DEF Pre
      <4> QED BY <2>3
    <3>2. Pre(i) = SubSeq(path, 1, Len(Pre(i)))
      <4>1. Pre(i) = SubSeq(path, 1, i)
        OBVIOUS
      <4> HIDE DEF Pre
      <4> QED BY <2>3, <4>1
    <3>3. Len(Pre(i)) <= Len(path)
      <4> HIDE DEF Pre
      <4> QED BY <1>1, <2>3
    <3> HIDE DEF Pre
    <3> QED BY <2>3, <3>1, <3>2, <3>3 DEF IsStrictPrefix, IsPrefix
  <2> HIDE DEF j, Pre
  <2>5. g[j] = Enter(source, g[i], path[j], i)
    BY <2>1 DEF IsWalk
  <2>6. Good(i)
    BY <1>3
  <2>7. /\ Blameless(g[j]) /\ g[j] = [cid |-> g[j].cid, code |-> g[j].code, budget |-> g[j].budget]
        /\ g[j].cid \in DOMAIN source
    BY <2>5, <2>6, EnterBlameless
  <2>8. g[i].budget \in Budgets /\ g[i].cid \in Cids
    BY <2>6 DEF Blameless, Whole
  <2>9. CASE g[i].code # "OK"
    <3>1. g[j] = g[i]
      BY <2>5, <2>9 DEF Enter
    <3>2. Good(j)
      BY <2>6, <2>9, <3>1
    <3> QED BY <2>1, <3>2 DEF j
  <2>10. CASE g[i].code = "OK"
    <3>1. LeadsTo(g[i].cid, Pre(i), s, t)
      BY <2>6, <2>10
    <3>2. /\ g[j].code \in Fine \cup {"PATH_NOT_FOUND"}
          /\ g[j].code = "PATH_NOT_FOUND" =>
               \/ Pre(i) \in DOMAIN s
               \/ Pre(i) \in Places(s) /\ \A e \in Entries(s, Pre(i), t) : e.name # path[j]
      <4> DEFINE cid == g[i].cid
                 budget == g[i].budget
                 to == g[j]
                 pre == Pre(i)
                 segment == path[j]
      <4>1. /\ budget \in Budgets /\ cid \in DOMAIN source /\ LeadsTo(cid, pre, s, t)
            /\ g[i] = [cid |-> cid, code |-> "OK", budget |-> budget]
        BY <2>6, <2>8, <2>10, <3>1
      <4> HIDE DEF cid, budget, to, pre, segment
      <4>2. to = Enter(source, [cid |-> cid, code |-> "OK", budget |-> budget], segment, i)
        BY <2>5, <4>1 DEF to, segment
      <4>3. /\ to.code \in Fine \cup {"PATH_NOT_FOUND"}
            /\ to.code = "PATH_NOT_FOUND" =>
                 \/ pre \in DOMAIN s
                 \/ pre \in Places(s) /\ \A e \in Entries(s, pre, t) : e.name # segment
        BY <4>1, <4>2, EnterFine
      <4> QED BY <4>3 DEF to, pre, segment
    <3>3. ASSUME g[j].code = "PATH_NOT_FOUND", path \in DOMAIN s PROVE FALSE
      <4>1. CASE Pre(i) \in DOMAIN s
        BY <2>3, <2>4, <3>3, <4>1 DEF Importable, IsStrictPrefix
      <4>2. CASE Pre(i) \in Places(s) /\ \A e \in Entries(s, Pre(i), t) : e.name # path[j]
        <5>1. \E e \in Entries(s, Pre(i), t) : e.name = path[Len(Pre(i)) + 1]
          BY <2>4, <3>3, <4>2, EntryExists
        <5> QED BY <2>3, <4>2, <5>1
      <4> QED BY <3>2, <3>3, <4>1, <4>2
    <3>4. g[j].code = "OK" => LeadsTo(g[j].cid, Pre(j), s, t)
      <4> SUFFICES ASSUME g[j].code = "OK" PROVE LeadsTo(g[j].cid, Pre(j), s, t)
        OBVIOUS
      <4>1. /\ g[i].cid.codec = "dag-pb" /\ g[i].cid.digest.type = "directory"
            /\ \E link \in ToSet(g[i].cid.digest.links) : link.name = path[j] /\ g[j].cid = link.cid
        BY <2>5, <2>6, <2>8, EnterIs
      <4>2. LeadsTo(g[j].cid, Append(Pre(i), path[j]), s, t)
        BY <3>1, <4>1, EnterOfSite
      <4> QED BY <2>2, <4>2
    <3>5. Good(j)
      BY <2>7, <3>2, <3>3, <3>4
    <3> QED BY <2>1, <3>5 DEF j
  <2> QED BY <2>9, <2>10
<1>4. \A i \in 0 .. n : i \in T
  <2> HIDE DEF T, n
  <2> QED BY <1>1, <1>2, <1>3, IntervalInduction
<1>5. Good(n)
  <2>1. n \in 0 .. n
    BY <1>1
  <2> HIDE DEF Good, n
  <2> QED BY <1>4, <2>1
<1> QED BY <1>5

\* In a site that is held a fetch finds the files of the site and nothing else, unless a
\* limit stops it.
LEMMA PublishedFound ==
  ASSUME NEW s, IsSite(s), Importable(s), NEW source, Whole(source),
         importSite(s) \in DOMAIN source,
         NEW path \in Seq(Nat), NEW got, got = fetchPath(source, importSite(s), path)
  PROVE  \/ got.code = "RESPONSE_TOO_LARGE"
         \/ path \in DOMAIN s /\ got.code = "OK" /\ got.data = s[path]
         \/ path \notin DOMAIN s /\ got.code = "PATH_NOT_FOUND"
<1> DEFINE n == Len(path)
<1>1. n \in Nat /\ DEPTH \in Nat /\ importSite(s) \in Cids
  BY UnixFsAssumption DEF Whole
<1>2. PICK t : IsTree(t, s) /\ importSite(s) = t[<<>>]
  BY ImportIs
<1>3. PICK g : /\ IsWalk(g, source, importSite(s), path, n)
               /\ got = IF \E i \in DOMAIN path : path[i] \in Dots
                        THEN Refused("PATH_NOT_FOUND", Budget)
                        ELSE IF g[n].code # "OK" THEN Refused(g[n].code, g[n].budget)
                        ELSE fetchFile(source, g[n].cid, n, g[n].budget)
  BY FetchPathIs
<1>4. g[n].budget \in Budgets /\ (g[n].code = "OK" => LeadsTo(g[n].cid, path, s, t))
  BY <1>1, <1>2, <1>3, WalkOfSite
<1>5. /\ g[n].code \in Fine \cup {"PATH_NOT_FOUND"} /\ g[n].cid \in DOMAIN source
      /\ g[n].code = "PATH_NOT_FOUND" => path \notin DOMAIN s
  BY <1>2, <1>3, WalkFine
<1>6. got.code = "OK" => path \in DOMAIN s /\ got.data = s[path]
  BY <1>1, PublishedGives
<1> HIDE DEF n
<1>7. CASE \E i \in DOMAIN path : path[i] \in Dots
  <2>1. got.code = "PATH_NOT_FOUND"
    BY <1>3, <1>7 DEF Refused, Result
  <2>2. path \notin DOMAIN s
    BY <1>7 DEF Importable
  <2> QED BY <2>1, <2>2
<1>8. CASE ~(\E i \in DOMAIN path : path[i] \in Dots) /\ g[n].code # "OK"
  <2>1. got.code = g[n].code
    BY <1>3, <1>8 DEF Refused, Result
  <2> QED BY <1>5, <1>8, <2>1 DEF Fine
<1>9. CASE ~(\E i \in DOMAIN path : path[i] \in Dots) /\ g[n].code = "OK"
  <2>1. PICK f : /\ IsFiles(f, source, DEPTH + 1)
                 /\ \A c, depth, budget :
                      fetchFile(source, c, depth, budget) =
                        IF depth > DEPTH THEN Refused("RESPONSE_TOO_LARGE", budget)
                        ELSE f[DEPTH + 1 - depth][c][budget]
    BY FetchFileIs
  <2> DEFINE k == DEPTH + 1 - n
             cid == g[n].cid
             b == g[n].budget
  <2>2. got = IF n > DEPTH THEN Refused("RESPONSE_TOO_LARGE", b) ELSE f[k][cid][b]
    BY <1>3, <1>9, <2>1
  <2>3. cid \in DOMAIN source /\ cid \in Cids /\ b \in Budgets /\ LeadsTo(cid, path, s, t)
    BY <1>4, <1>5, <1>9 DEF Whole
  <2>4. CASE n > DEPTH
    BY <2>2, <2>4 DEF Refused, Result
  <2>5. CASE ~(n > DEPTH)
    <3>1. k \in 1 .. (DEPTH + 1)
      BY <1>1, <2>5
    <3>2. got = f[k][cid][b]
      BY <2>2, <2>5
    <3> HIDE DEF k, cid, b
    <3>3. CASE path \in DOMAIN s /\ cid = fileBlocks(s[path])
      <4>1. s[path] \in Seq(Nat) /\ fileBlocks(s[path]) \in DOMAIN source
        BY <2>3, <3>3 DEF IsSite
      <4>2. DEPTH >= 1
        <5>1. n > 0
          BY <3>3 DEF Importable, n
        <5> QED BY <1>1, <2>5, <5>1
      <4>3. f[k][fileBlocks(s[path])][b].code \in Fine
        BY <2>1, <2>3, <3>1, <4>1, <4>2, FileFine
      <4> QED BY <1>6, <3>2, <3>3, <4>3 DEF Fine
    <3>4. CASE path \in Places(s) \ DOMAIN s /\ cid = t[path]
      <4>1. cid.codec = "dag-pb" /\ cid.digest.kind = "node" /\ cid.digest.type = "directory"
        BY <1>2, <3>4, DirectoryIs
      <4>2. f[k] = [cc \in Cids |-> [bb \in Budgets |-> FileAt(source, cc, f[k - 1], bb)]]
        <5> DEFINE D == DEPTH + 1
        <5>1. k \in 0 .. D /\ k # 0 /\ IsFiles(f, source, D)
          BY <1>1, <2>1, <3>1
        <5> HIDE DEF D
        <5> QED BY <5>1 DEF IsFiles
      <4>3. got = FileAt(source, cid, f[k - 1], b)
        BY <2>3, <3>2, <4>2
      <4>4. got.code \in {"RESPONSE_TOO_LARGE", "PATH_NOT_FOUND"}
        <5> DEFINE below == f[k - 1]
        <5> HIDE DEF below
        <5>1. FileAt(source, cid, below, b).code \in {"RESPONSE_TOO_LARGE", "PATH_NOT_FOUND"}
          BY <2>3, <4>1, DirectoryFine
        <5> QED BY <4>3, <5>1 DEF below
      <4> QED BY <3>4, <4>4
    <3> QED BY <2>3, <3>3, <3>4 DEF LeadsTo
  <2> QED BY <2>4, <2>5
<1> QED BY <1>7, <1>8, <1>9

\* No limit of a request stops a fetch of the site.
WithinLimits ==
  \A path \in Paths \cup DOMAIN site : fetchPath(held, root, path).code # "RESPONSE_TOO_LARGE"

\* Once the tree of a published site was pulled, every file of it and nothing else is at
\* its path, for any site, peers and paths within the limits of a request (unixfs.ts
\* importSite, blockstore.ts prefetch, fetch.ts fetchPath).
THEOREM PublishedIsFetchedHolds == Spec => [](WithinLimits => PublishedIsFetched)
<1>1. PullInv /\ SiteInv => (WithinLimits => PublishedIsFetched)
  <2> SUFFICES ASSUME PullInv, SiteInv, WithinLimits, status = "done", site # None,
                      NEW path \in Paths \cup DOMAIN site
               PROVE  LET got == fetchPath(held, root, path)
                      IN  IF path \in DOMAIN site THEN got.code = "OK" /\ got.data = site[path]
                          ELSE got.code = "PATH_NOT_FOUND"
    BY DEF PublishedIsFetched
  <2>1. DOMAIN held \subseteq Cids /\ root \in DOMAIN held
    BY DEF PullInv, PullTypeOK, ClosesInv
  <2>2. \A c \in DOMAIN held : Kids(c) \subseteq DOMAIN held
    BY DEF PullInv, ClosesInv
  <2>3. Whole(held)
    BY <2>1, <2>2 DEF Whole, PullInv, HoldsInv
  <2>4. site \in Sites /\ Importable(site) /\ root = importSite(site)
    BY DEF SiteInv
  <2>5. IsSite(site) /\ path \in Seq(Nat)
    BY <2>4, ContentAssumption DEF IsSite
  <2> DEFINE got == fetchPath(held, root, path)
  <2>6. got.code # "RESPONSE_TOO_LARGE"
    BY DEF WithinLimits
  <2>7. got = fetchPath(held, importSite(site), path) /\ importSite(site) \in DOMAIN held
    BY <2>1, <2>4
  <2> HIDE DEF got
  <2>8. \/ got.code = "RESPONSE_TOO_LARGE"
        \/ path \in DOMAIN site /\ got.code = "OK" /\ got.data = site[path]
        \/ path \notin DOMAIN site /\ got.code = "PATH_NOT_FOUND"
    BY <2>3, <2>4, <2>5, <2>7, PublishedFound
  <2> QED BY <2>6, <2>8 DEF got
<1> QED BY <1>1, PullAlways, SiteAlways, PTL
=============================================================================
