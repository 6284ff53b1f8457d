--------------------------- MODULE SurfaceProofs ---------------------------
(***************************************************************************)
(* Proofs about the local surface: what the resolution cache keeps is      *)
(* bounded and true, and so are the answers given from it, for any         *)
(* registry, sites, requests and control operations; and about the sockets *)
(* it is served on (Listener), for any number of connections, any plans of *)
(* their peers, any chunking and any limits.                               *)
(***************************************************************************)
EXTENDS LocalSurface, Listener, Induction, FiniteSetTheorems, TLAPS

-----------------------------------------------------------------------------
(***************************************************************************)
(* Maps in insertion order (cache.ts).                                     *)
(***************************************************************************)
Distinct(map) == \A i, j \in DOMAIN map : map[i].key = map[j].key => i = j

\* Every entry of `small` is an entry of `map`.
Within(small, map) == \A i \in DOMAIN small : \E j \in DOMAIN map : small[i] = map[j]

\* g is what is kept of the first n entries, for each n.
IsKept(g, map, keys, n) ==
  g = [i \in 0..n |->
         IF i = 0 THEN <<>>
         ELSE IF map[i].key \in keys THEN g[i - 1]
         ELSE Append(g[i - 1], map[i])]

\* The recursion of Without is well founded.
LEMMA KeptExists ==
  ASSUME NEW map, NEW keys, NEW n \in Nat
  PROVE  \E g : IsKept(g, map, keys, n)
<1> DEFINE T == {k \in Nat : \E g : IsKept(g, map, keys, k)}
<1>1. 0 \in T
  <2>1. IsKept([i \in 0..0 |-> <<>>], map, keys, 0)
    BY DEF IsKept
  <2> QED BY <2>1
<1>2. ASSUME NEW k \in T PROVE k + 1 \in T
  <2>1. PICK g : IsKept(g, map, keys, k)
    OBVIOUS
  <2> DEFINE Step(i, x) == IF map[i].key \in keys THEN x ELSE Append(x, map[i])
             h == [i \in 0..(k + 1) |-> IF i = k + 1 THEN Step(k + 1, g[k]) ELSE g[i]]
  <2>2. \A i \in 0..k : g[i] = IF i = 0 THEN <<>> ELSE Step(i, g[i - 1])
    BY <2>1 DEF IsKept
  <2> HIDE DEF Step
  <2>3. h[k + 1] = Step(k + 1, g[k]) /\ \A i \in 0..k : h[i] = g[i]
    OBVIOUS
  <2>4. h = [i \in 0..(k + 1) |-> h[i]]
    OBVIOUS
  <2> HIDE DEF h
  <2>5. ASSUME NEW i \in 0..(k + 1)
        PROVE  h[i] = IF i = 0 THEN <<>> ELSE Step(i, h[i - 1])
    <3>1. CASE i = k + 1
      BY <2>3, <3>1
    <3>2. CASE i # k + 1
      <4>1. i \in 0..k /\ (i # 0 => i - 1 \in 0..k)
        BY <3>2
      <4> QED BY <2>2, <2>3, <4>1
    <3> QED BY <3>1, <3>2
  <2>6. h = [i \in 0..(k + 1) |-> IF i = 0 THEN <<>> ELSE Step(i, h[i - 1])]
    BY <2>4, <2>5
  <2>7. IsKept(h, map, keys, k + 1)
    BY <2>6 DEF IsKept, Step
  <2> QED BY <2>7
<1>3. T = Nat
  <2>1. T \in SUBSET Nat
    OBVIOUS
  <2> HIDE DEF T
  <2> QED BY <1>1, <1>2, <2>1, SetInduction
<1> QED BY <1>3

\* Deleting keys leaves a map of the other entries.
LEMMA WithoutMap ==
  ASSUME NEW E, NEW map \in Seq(E), Distinct(map), NEW keys
  PROVE  /\ Without(map, keys) \in Seq(E)
         /\ Len(Without(map, keys)) <= Len(map)
         /\ Distinct(Without(map, keys))
         /\ Within(Without(map, keys), map)
         /\ \A i \in DOMAIN Without(map, keys) : Without(map, keys)[i].key \notin keys
<1> DEFINE n == Len(map)
           g == CHOOSE h : IsKept(h, map, keys, n)
           Good(s, i) ==
             /\ s \in Seq(E)
             /\ Len(s) <= i
             /\ \A j \in DOMAIN s : s[j].key \notin keys /\ \E k \in 1..i : s[j] = map[k]
             /\ Distinct(s)
           T == {i \in 0..n : Good(g[i], i)}
<1>1. n \in Nat /\ DOMAIN map = 1..n
  OBVIOUS
<1>2. Without(map, keys) = g[n]
  BY DEF Without, IsKept
<1>3. IsKept(g, map, keys, n)
  <2> HIDE DEF n
  <2>1. \E h : IsKept(h, map, keys, n)
    BY <1>1, KeptExists
  <2> QED BY <2>1
<1> HIDE DEF g
<1>4. 0 \in T
  <2>1. g[0] = <<>>
    BY <1>1, <1>3 DEF IsKept
  <2>2. <<>> \in Seq(E) /\ Len(<<>>) = 0 /\ DOMAIN <<>> = {}
    OBVIOUS
  <2>3. Good(<<>>, 0)
    BY <2>2 DEF Distinct
  <2> HIDE DEF Good
  <2> QED BY <1>1, <2>1, <2>3
<1>5. ASSUME NEW i \in 0..(n - 1), i \in T PROVE i + 1 \in T
  <2> DEFINE s == g[i]
             e == map[i + 1]
  <2>1. Good(s, i)
    BY <1>5
  <2>2. i \in Nat /\ i + 1 \in 0..n /\ i + 1 \in 1..n /\ (i + 1) - 1 = i /\ e \in E
    BY <1>1
  <2>3. g[i + 1] = IF e.key \in keys THEN s ELSE Append(s, e)
    <3> HIDE DEF n, T, Good
    <3>1. i + 1 # 0
      BY <2>2
    <3>2. g[i + 1] = IF i + 1 = 0 THEN <<>>
                     ELSE IF map[i + 1].key \in keys THEN g[(i + 1) - 1]
                     ELSE Append(g[(i + 1) - 1], map[i + 1])
      BY <1>3, <2>2, Zenon DEF IsKept
    <3> QED BY <2>2, <3>1, <3>2, Zenon
  <2> HIDE DEF s, e
  <2>4. Good(s, i + 1)
    <3>1. \A k \in 1..i : k \in 1..(i + 1)
      BY <2>2
    <3>2. Len(s) <= i + 1
      BY <2>1, <2>2
    <3> QED BY <2>1, <3>1, <3>2, Zenon
  <2>5. ASSUME e.key \notin keys PROVE Good(Append(s, e), i + 1)
    <3>1. s \in Seq(E) /\ Len(s) \in Nat /\ Len(s) <= i /\ DOMAIN s = 1..Len(s)
      BY <2>1
    <3>2. /\ Append(s, e) \in Seq(E) /\ Len(Append(s, e)) = Len(s) + 1
          /\ DOMAIN Append(s, e) = 1..(Len(s) + 1)
          /\ Append(s, e)[Len(s) + 1] = e
          /\ \A j \in 1..Len(s) : Append(s, e)[j] = s[j]
      BY <2>2, <3>1
    <3>3. ASSUME NEW j \in DOMAIN s PROVE s[j].key # e.key
      <4>1. PICK k \in 1..i : s[j] = map[k]
        BY <2>1
      <4>2. k \in DOMAIN map /\ i + 1 \in DOMAIN map /\ k # i + 1
        BY <1>1, <2>2
      <4> QED BY <4>1, <4>2 DEF Distinct, e
    <3>4. Distinct(Append(s, e))
      <4> SUFFICES ASSUME NEW a \in 1..(Len(s) + 1), NEW b \in 1..(Len(s) + 1),
                          Append(s, e)[a].key = Append(s, e)[b].key
                   PROVE  a = b
        BY <3>2 DEF Distinct
      <4>1. CASE a \in 1..Len(s) /\ b \in 1..Len(s)
        BY <2>1, <3>1, <3>2, <4>1 DEF Distinct
      <4>2. CASE a = Len(s) + 1 /\ b = Len(s) + 1
        BY <4>2
      <4>3. CASE a \in 1..Len(s) /\ b = Len(s) + 1
        BY <3>1, <3>2, <3>3, <4>3
      <4>4. CASE a = Len(s) + 1 /\ b \in 1..Len(s)
        BY <3>1, <3>2, <3>3, <4>4
      <4> QED BY <3>1, <4>1, <4>2, <4>3, <4>4
    <3>5. \A j \in DOMAIN Append(s, e) :
            /\ Append(s, e)[j].key \notin keys
            /\ \E k \in 1..(i + 1) : Append(s, e)[j] = map[k]
      <4> TAKE j \in DOMAIN Append(s, e)
      <4>1. CASE j \in 1..Len(s)
        <5>1. PICK k \in 1..i : s[j] = map[k]
          BY <2>1, <3>1, <4>1
        <5>2. k \in 1..(i + 1)
          BY <2>2
        <5>3. s[j].key \notin keys
          BY <2>1, <3>1, <4>1
        <5> QED BY <3>2, <4>1, <5>1, <5>2, <5>3
      <4>2. CASE j = Len(s) + 1
        <5>1. i + 1 \in 1..(i + 1) /\ e = map[i + 1]
          BY <2>2 DEF e
        <5> QED BY <2>5, <3>2, <4>2, <5>1
      <4> QED BY <3>1, <3>2, <4>1, <4>2
    <3> QED BY <2>2, <3>1, <3>2, <3>4, <3>5
  <2> HIDE DEF Good
  <2> QED BY <2>2, <2>3, <2>4, <2>5
<1>6. n \in T
  <2> HIDE DEF T, n
  <2>1. \A i \in 0..n : i \in T
    BY <1>1, <1>4, <1>5, IntervalInduction
  <2> QED BY <1>1, <2>1
<1>7. Good(g[n], n)
  BY <1>6
<1> QED BY <1>1, <1>2, <1>7 DEF Within

\* Lowering a bound keeps the youngest entries.
LEMMA TrimmedMap ==
  ASSUME NEW E, NEW map \in Seq(E), Distinct(map), NEW limit \in Nat \ {0}
  PROVE  /\ trimTo(map, limit) \in Seq(E)
         /\ Bounded(trimTo(map, limit), limit)
         /\ Within(trimTo(map, limit), map)
<1> DEFINE k == Len(map) - limit
<1>1. CASE Len(map) <= limit
  BY <1>1 DEF trimTo, Bounded, Distinct, Within
<1>2. CASE Len(map) > limit
  <2>1. k \in Nat /\ k + limit = Len(map) /\ k + 1 \in 1..Len(map)
    BY <1>2
  <2>2. trimTo(map, limit) = SubSeq(map, k + 1, Len(map))
    BY <1>2 DEF trimTo
  <2> DEFINE s == SubSeq(map, k + 1, Len(map))
  <2>3. s \in Seq(E) /\ Len(s) = limit /\ DOMAIN s = 1..limit
        /\ \A i \in 1..limit : s[i] = map[k + i]
    <3>1. k + 1 \in 1..Len(map) /\ Len(map) \in 1..Len(map) /\ Len(map) - (k + 1) + 1 = limit
      BY <2>1
    <3>2. s \in Seq(E) /\ Len(s) = Len(map) - (k + 1) + 1
      BY <3>1
    <3>3. DOMAIN s = 1..limit
      BY <3>1, <3>2
    <3>4. ASSUME NEW i \in 1..limit PROVE s[i] = map[k + i]
      <4>1. s[i] = map[(k + 1) + i - 1] /\ (k + 1) + i - 1 = k + i
        BY <2>1, <3>1
      <4> QED BY <4>1
    <3> QED BY <3>1, <3>2, <3>3, <3>4
  <2>4. \A i \in 1..limit : k + i \in DOMAIN map
    BY <2>1
  <2> HIDE DEF s, k
  <2>5. Within(s, map)
    BY <2>3, <2>4 DEF Within
  <2>6. Distinct(s)
    <3> SUFFICES ASSUME NEW i \in 1..limit, NEW j \in 1..limit, s[i].key = s[j].key
                 PROVE  i = j
      BY <2>3 DEF Distinct
    <3>1. k + i = k + j
      BY <2>3, <2>4 DEF Distinct
    <3> QED BY <2>1, <3>1
  <2> QED BY <2>2, <2>3, <2>5, <2>6 DEF s, Bounded, Distinct
<1> QED BY <1>1, <1>2

Inserted(map, e, limit) == Put(evictFor(map, e.key, limit), e)

\* An entry that is put into a map at its bound takes the place of the one with its key,
\* or else of the oldest.
LEMMA PutMap ==
  ASSUME NEW E, NEW map \in Seq(E), NEW limit \in Nat \ {0}, Bounded(map, limit),
         NEW e \in E
  PROVE  /\ Inserted(map, e, limit) \in Seq(E)
         /\ Bounded(Inserted(map, e, limit), limit)
         /\ \A i \in DOMAIN Inserted(map, e, limit) :
              \/ Inserted(map, e, limit)[i] = e
              \/ \E j \in DOMAIN map : Inserted(map, e, limit)[i] = map[j]
<1> DEFINE room == evictFor(map, e.key, limit)
           put == Put(room, e)
<1>0. Len(map) \in Nat /\ DOMAIN map = 1..Len(map) /\ Len(map) <= limit /\ Distinct(map)
  BY DEF Bounded, Distinct
<1>1. CASE Held(map, e.key)
  <2>1. room = map
    BY <1>1 DEF evictFor
  <2>2. put = [i \in DOMAIN map |-> IF map[i].key = e.key THEN e ELSE map[i]]
    BY <1>1, <2>1 DEF Put
  <2> HIDE DEF put, room
  <2>3. put \in [1..Len(map) -> E] /\ DOMAIN put = DOMAIN map
    BY <1>0, <2>2
  <2>4. put \in Seq(E) /\ Len(put) = Len(map)
    BY <1>0, <2>3
  <2>5. \A i \in DOMAIN map : put[i].key = map[i].key
    BY <2>2
  <2>6. Distinct(put)
    BY <1>0, <2>3, <2>5 DEF Distinct
  <2>7. \A i \in DOMAIN put : put[i] = e \/ put[i] = map[i]
    BY <2>2
  <2> QED BY <1>0, <2>3, <2>4, <2>6, <2>7 DEF Bounded, Distinct, put, room, Inserted
<1>2. CASE ~Held(map, e.key)
  <2>1. \A i \in DOMAIN map : map[i].key # e.key
    BY <1>2 DEF Held
  <2>2. /\ room \in Seq(E) /\ Len(room) \in Nat /\ Len(room) + 1 <= limit
        /\ DOMAIN room = 1..Len(room)
        /\ Distinct(room) /\ Within(room, map)
    <3>1. CASE Len(map) < limit
      <4>1. room = map
        BY <3>1 DEF evictFor
      <4> QED BY <1>0, <3>1, <4>1 DEF Within
    <3>2. CASE ~(Len(map) < limit)
      <4>1. room = Tail(map)
        BY <1>2, <3>2 DEF evictFor
      <4>2. Len(map) = limit /\ map # <<>>
        <5>1. Len(map) = limit /\ limit # 0
          <6>1. \A x \in Nat, y \in Nat \ {0} : x <= y /\ ~(x < y) => x = y /\ y # 0
            OBVIOUS
          <6> QED BY <1>0, <3>2, <6>1, Zenon
        <5>2. Len(<<>>) = 0
          OBVIOUS
        <5> QED BY <5>1, <5>2
      <4>3. /\ Tail(map) \in Seq(E) /\ Len(Tail(map)) = limit - 1
            /\ \A i \in 1..(limit - 1) : Tail(map)[i] = map[i + 1]
        BY <4>2
      <4>4. \A i \in 1..(limit - 1) : i + 1 \in DOMAIN map
        BY <1>0, <4>2
      <4> HIDE DEF room
      <4>5. room \in Seq(E) /\ Len(room) = limit - 1 /\ DOMAIN room = 1..(limit - 1)
        BY <4>1, <4>3
      <4>6. Within(room, map)
        BY <4>1, <4>3, <4>4, <4>5 DEF Within
      <4>7. Distinct(room)
        <5> SUFFICES ASSUME NEW i \in 1..(limit - 1), NEW j \in 1..(limit - 1),
                            room[i].key = room[j].key
                     PROVE  i = j
          BY <4>5 DEF Distinct
        <5>1. i + 1 = j + 1
          BY <1>0, <4>1, <4>3, <4>4 DEF Distinct
        <5> QED BY <5>1
      <4> QED BY <4>5, <4>6, <4>7
    <3> QED BY <3>1, <3>2
  <2> HIDE DEF room
  <2>3. \A i \in DOMAIN room : room[i].key # e.key
    BY <2>1, <2>2 DEF Within
  <2>4. put = Append(room, e)
    BY <2>3 DEF Put, Held
  <2>5. /\ Append(room, e) \in Seq(E) /\ Len(Append(room, e)) = Len(room) + 1
        /\ DOMAIN Append(room, e) = 1..(Len(room) + 1)
        /\ Append(room, e)[Len(room) + 1] = e
        /\ \A i \in 1..Len(room) : Append(room, e)[i] = room[i]
    BY <2>2
  <2> HIDE DEF put
  <2>6. Distinct(put)
    <3> SUFFICES ASSUME NEW a \in 1..(Len(room) + 1), NEW b \in 1..(Len(room) + 1),
                        put[a].key = put[b].key
                 PROVE  a = b
      BY <2>4, <2>5 DEF Distinct
    <3>1. CASE a \in 1..Len(room) /\ b \in 1..Len(room)
      BY <2>2, <2>4, <2>5, <3>1 DEF Distinct
    <3>2. CASE a = Len(room) + 1 /\ b = Len(room) + 1
      BY <3>2
    <3>3. CASE a \in 1..Len(room) /\ b = Len(room) + 1
      BY <2>2, <2>3, <2>4, <2>5, <3>3
    <3>4. CASE a = Len(room) + 1 /\ b \in 1..Len(room)
      BY <2>2, <2>3, <2>4, <2>5, <3>4
    <3> QED BY <2>2, <3>1, <3>2, <3>3, <3>4
  <2>7. ASSUME NEW i \in DOMAIN put
        PROVE  put[i] = e \/ \E j \in DOMAIN map : put[i] = map[j]
    <3>1. CASE i \in 1..Len(room)
      BY <2>2, <2>4, <2>5, <3>1 DEF Within
    <3>2. CASE i = Len(room) + 1
      BY <2>4, <2>5, <3>2
    <3> QED BY <2>2, <2>4, <2>5, <3>1, <3>2
  <2>8. put \in Seq(E) /\ Len(put) <= limit
    BY <2>2, <2>4, <2>5
  <2> QED BY <2>6, <2>7, <2>8 DEF Bounded, Distinct, put, room, Inserted
<1> QED BY <1>1, <1>2

-----------------------------------------------------------------------------
(***************************************************************************)
(* The operations of the cache keep it faithful.                           *)
(***************************************************************************)
\* The parts of a cache, and their types.
LEMMA CacheParts ==
  ASSUME NEW c \in Caches
  PROVE  /\ c.negatives \in Seq(NegativeEntry)
         /\ c.positives \in Seq(PositiveEntry)
         /\ c.manifests \in Seq(ManifestEntry)
         /\ c.limits.negativeEntries \in Nat \ {0}
         /\ c.limits.positiveEntries \in Nat \ {0}
         /\ c.limits.manifestEntries \in Nat \ {0}
         /\ c.limits \in [Fields -> Nat \ {0}]
         /\ c.generation \in Int
BY DEF Caches, Fields, NoGeneration

\* Failures that stand may take the place of those kept.
LEMMA NewNegatives ==
  ASSUME NEW c, Faithful(c), NEW m \in Seq(NegativeEntry),
         Bounded(m, c.limits.negativeEntries),
         \A i \in DOMAIN m : StillFails(m[i]),
         c.generation = registry.length => \A i \in DOMAIN m : TrueWhenKept(m[i])
  PROVE  /\ Faithful([c EXCEPT !.negatives = m])
         /\ [c EXCEPT !.negatives = m].generation = c.generation
         /\ [c EXCEPT !.negatives = m].negatives = m
<1> DEFINE d == [c EXCEPT !.negatives = m]
<1>1. c \in Caches
  BY DEF Faithful
<1>2. /\ d \in Caches /\ d.negatives = m /\ d.positives = c.positives
      /\ d.manifests = c.manifests /\ d.limits = c.limits /\ d.generation = c.generation
  BY <1>1 DEF Caches
<1> HIDE DEF d
<1>3. Faithful(d)
  BY <1>2 DEF Faithful
<1> QED BY <1>2, <1>3 DEF d

\* Records that are in force may take the place of those kept.
LEMMA NewPositives ==
  ASSUME NEW c, Faithful(c), NEW m \in Seq(PositiveEntry),
         Bounded(m, c.limits.positiveEntries),
         c.generation = registry.length => \A i \in DOMAIN m : Vouched(m[i])
  PROVE  /\ Faithful([c EXCEPT !.positives = m])
         /\ [c EXCEPT !.positives = m].generation = c.generation
<1> DEFINE d == [c EXCEPT !.positives = m]
<1>1. c \in Caches
  BY DEF Faithful
<1>2. /\ d \in Caches /\ d.positives = m /\ d.negatives = c.negatives
      /\ d.manifests = c.manifests /\ d.limits = c.limits /\ d.generation = c.generation
  BY <1>1 DEF Caches
<1> HIDE DEF d
<1>3. Faithful(d)
  BY <1>2 DEF Faithful
<1> QED BY <1>2, <1>3 DEF d

\* The manifests kept are of no consequence to the rest.
LEMMA NewManifests ==
  ASSUME NEW c, Faithful(c), NEW m \in Seq(ManifestEntry),
         Bounded(m, c.limits.manifestEntries)
  PROVE  /\ Faithful([c EXCEPT !.manifests = m])
         /\ [c EXCEPT !.manifests = m].generation = c.generation
<1> DEFINE d == [c EXCEPT !.manifests = m]
<1>1. c \in Caches
  BY DEF Faithful
<1>2. /\ d \in Caches /\ d.manifests = m /\ d.negatives = c.negatives
      /\ d.positives = c.positives /\ d.limits = c.limits /\ d.generation = c.generation
  BY <1>1 DEF Caches
<1> HIDE DEF d
<1>3. Faithful(d)
  BY <1>2 DEF Faithful
<1> QED BY <1>2, <1>3 DEF d

\* An entry that is held is an entry of the map, under its key.
LEMMA GetHeld ==
  ASSUME NEW map, NEW key, Held(map, key)
  PROVE  \E i \in DOMAIN map : Get(map, key) = map[i] /\ map[i].key = key
<1> DEFINE i == CHOOSE k \in DOMAIN map : map[k].key = key
<1>1. i \in DOMAIN map /\ map[i].key = key
  BY DEF Held
<1> QED BY <1>1 DEF Get

\* Deleting keys from the failures kept.
LEMMA WithoutNegatives ==
  ASSUME NEW c, Faithful(c), NEW keys
  PROVE  LET d == [c EXCEPT !.negatives = Without(@, keys)]
         IN  /\ Faithful(d)
             /\ d.generation = c.generation
             /\ d.negatives = Without(c.negatives, keys)
<1> DEFINE m == Without(c.negatives, keys)
<1>1. c \in Caches /\ c.negatives \in Seq(NegativeEntry) /\ Distinct(c.negatives)
      /\ Len(c.negatives) <= c.limits.negativeEntries
      /\ c.limits.negativeEntries \in Nat
  BY CacheParts DEF Faithful, Bounded, Distinct
<1>2. m \in Seq(NegativeEntry) /\ Len(m) <= Len(c.negatives) /\ Distinct(m)
      /\ Within(m, c.negatives)
  BY <1>1, WithoutMap
<1>3. [c EXCEPT !.negatives = Without(@, keys)] = [c EXCEPT !.negatives = m]
  BY <1>1 DEF Caches
<1> HIDE DEF m
<1>4. Len(m) <= c.limits.negativeEntries
  <2>1. Len(m) \in Nat /\ Len(c.negatives) \in Nat
    BY <1>1, <1>2
  <2>2. \A x, y, z \in Nat : x <= y /\ y <= z => x <= z
    OBVIOUS
  <2> QED BY <1>1, <1>2, <2>1, <2>2, Zenon
<1>5. Bounded(m, c.limits.negativeEntries)
  BY <1>2, <1>4 DEF Bounded, Distinct
<1>6. \A i \in DOMAIN m : StillFails(m[i])
  BY <1>2 DEF Within, Faithful
<1>7. c.generation = registry.length => \A i \in DOMAIN m : TrueWhenKept(m[i])
  BY <1>2 DEF Within, Faithful
<1>8. /\ Faithful([c EXCEPT !.negatives = m])
      /\ [c EXCEPT !.negatives = m].generation = c.generation
      /\ [c EXCEPT !.negatives = m].negatives = m
  BY <1>2, <1>5, <1>6, <1>7, NewNegatives
<1> QED BY <1>3, <1>8 DEF m

\* The same for the records.
LEMMA WithoutPositives ==
  ASSUME NEW c, Faithful(c), NEW keys
  PROVE  LET d == [c EXCEPT !.positives = Without(@, keys)]
         IN  Faithful(d) /\ d.generation = c.generation
<1> DEFINE m == Without(c.positives, keys)
<1>1. c \in Caches /\ c.positives \in Seq(PositiveEntry) /\ Distinct(c.positives)
      /\ Len(c.positives) <= c.limits.positiveEntries
      /\ c.limits.positiveEntries \in Nat
  BY CacheParts DEF Faithful, Bounded, Distinct
<1>2. m \in Seq(PositiveEntry) /\ Len(m) <= Len(c.positives) /\ Distinct(m)
      /\ Within(m, c.positives)
  BY <1>1, WithoutMap
<1>3. [c EXCEPT !.positives = Without(@, keys)] = [c EXCEPT !.positives = m]
  BY <1>1 DEF Caches
<1> HIDE DEF m
<1>4. Len(m) <= c.limits.positiveEntries
  <2>1. Len(m) \in Nat /\ Len(c.positives) \in Nat
    BY <1>1, <1>2
  <2>2. \A x, y, z \in Nat : x <= y /\ y <= z => x <= z
    OBVIOUS
  <2> QED BY <1>1, <1>2, <2>1, <2>2, Zenon
<1>5. Bounded(m, c.limits.positiveEntries)
  BY <1>2, <1>4 DEF Bounded, Distinct
<1>6. c.generation = registry.length => \A i \in DOMAIN m : Vouched(m[i])
  BY <1>2 DEF Within, Faithful
<1>7. /\ Faithful([c EXCEPT !.positives = m])
      /\ [c EXCEPT !.positives = m].generation = c.generation
  BY <1>2, <1>5, <1>6, NewPositives
<1> QED BY <1>3, <1>7

\* What negative answers is an entry of the cache that has not expired.
LEMMA NegativeKeeps ==
  ASSUME NEW c, Faithful(c), NEW key, now \in Nat
  PROVE  LET r == negative(c, key, now)
         IN  /\ Faithful(r.cache)
             /\ r.cache.generation = c.generation
             /\ \/ r.error = Missing
                \/ \E i \in DOMAIN c.negatives :
                     /\ c.negatives[i].key = key
                     /\ c.negatives[i].error = r.error
                     /\ c.negatives[i].expires > now
<1>1. CASE ~Held(c.negatives, key)
  BY <1>1 DEF negative
<1>2. CASE Held(c.negatives, key)
  <2>1. PICK i \in DOMAIN c.negatives :
          Get(c.negatives, key) = c.negatives[i] /\ c.negatives[i].key = key
    BY <1>2, GetHeld
  <2>2. c.negatives[i].expires \in Nat
    <3>1. c.negatives \in Seq(NegativeEntry)
      BY CacheParts DEF Faithful
    <3>2. c.negatives[i] \in NegativeEntry
      BY <3>1
    <3> QED BY <3>2 DEF NegativeEntry
  <2>3. CASE c.negatives[i].expires <= now
    <3> DEFINE d == [c EXCEPT !.negatives = Without(@, {key})]
    <3>1. negative(c, key, now) = [cache |-> d, error |-> Missing]
      BY <1>2, <2>1, <2>3 DEF negative
    <3>2. Faithful(d) /\ d.generation = c.generation
      BY WithoutNegatives
    <3> HIDE DEF d
    <3> QED BY <3>1, <3>2
  <2>4. CASE ~(c.negatives[i].expires <= now)
    <3>1. negative(c, key, now) = [cache |-> c, error |-> c.negatives[i].error]
      BY <1>2, <2>1, <2>4 DEF negative
    <3>2. c.negatives[i].expires > now
      BY <2>2, <2>4
    <3> QED BY <2>1, <3>1, <3>2
  <2> QED BY <2>3, <2>4
<1> QED BY <1>1, <1>2

\* What positive answers is an entry of the cache that has not expired.
LEMMA PositiveKeeps ==
  ASSUME NEW c, Faithful(c), NEW key, now \in Nat
  PROVE  LET r == positive(c, key, now)
         IN  /\ Faithful(r.cache)
             /\ r.cache.generation = c.generation
             /\ \/ r.record = Missing
                \/ /\ r.cache = c
                   /\ \E i \in DOMAIN c.positives :
                        /\ c.positives[i].key = key
                        /\ c.positives[i].record = r.record
                        /\ c.positives[i].expires > now
<1>1. CASE ~Held(c.positives, key)
  BY <1>1 DEF positive
<1>2. CASE Held(c.positives, key)
  <2>1. PICK i \in DOMAIN c.positives :
          Get(c.positives, key) = c.positives[i] /\ c.positives[i].key = key
    BY <1>2, GetHeld
  <2>2. c.positives[i].expires \in Nat
    <3>1. c.positives \in Seq(PositiveEntry)
      BY CacheParts DEF Faithful
    <3>2. c.positives[i] \in PositiveEntry
      BY <3>1
    <3> QED BY <3>2 DEF PositiveEntry
  <2>3. CASE c.positives[i].expires <= now
    <3> DEFINE d == [c EXCEPT !.positives = Without(@, {key})]
    <3>1. positive(c, key, now) = [cache |-> d, record |-> Missing]
      BY <1>2, <2>1, <2>3 DEF positive
    <3>2. Faithful(d) /\ d.generation = c.generation
      BY WithoutPositives
    <3> HIDE DEF d
    <3> QED BY <3>1, <3>2
  <2>4. CASE ~(c.positives[i].expires <= now)
    <3>1. positive(c, key, now) = [cache |-> c, record |-> c.positives[i].record]
      BY <1>2, <2>1, <2>4 DEF positive
    <3>2. c.positives[i].expires > now
      BY <2>2, <2>4
    <3> QED BY <2>1, <3>1, <3>2
  <2> QED BY <2>3, <2>4
<1> QED BY <1>1, <1>2

\* A failure that is true now may be kept.
LEMMA PutNegativeKeeps ==
  ASSUME NEW c, Faithful(c), NEW error \in ResolveErrorName, now \in Nat,
         NEW key \in Names \cup ({"content"} \X {"ipns", "cid"} \X Values),
         \A cid \in Cids : About(key, cid) =>
           IF error = "CONTENT_UNAVAILABLE" THEN cid \notin pinned ELSE cid \notin port.corrupt,
         error \in NameErrors =>
           \E name \in Names : RegistryVerdict(registry, name, now) = error
  PROVE  /\ Faithful(putNegative(c, key, error, now))
         /\ putNegative(c, key, error, now).generation = c.generation
<1> DEFINE ttl == NEGATIVE_TTL_SECONDS[error]
           e == [key |-> key, error |-> error, expires |-> now + ttl]
           m == Inserted(c.negatives, e, c.limits.negativeEntries)
<1>1. CASE ttl = Never
  BY <1>1 DEF putNegative
<1>2. CASE ttl # Never
  <2>1. ttl \in Nat
    BY <1>2, ResolverAssumption
  <2> HIDE DEF ttl
  <2>2. e \in NegativeEntry /\ e.key = key /\ e.error = error /\ e.expires = now + ttl
    BY <2>1 DEF NegativeEntry
  <2>3. c \in Caches /\ c.negatives \in Seq(NegativeEntry)
        /\ c.limits.negativeEntries \in Nat \ {0}
        /\ Bounded(c.negatives, c.limits.negativeEntries)
    BY CacheParts DEF Faithful
  <2>4. putNegative(c, key, error, now) = [c EXCEPT !.negatives = m]
    BY <1>2, <2>3 DEF putNegative, Caches, ttl, Inserted
  <2>5. StillFails(e)
    BY <2>2 DEF StillFails
  <2>6. TrueWhenKept(e)
    <3>1. now \in 0..now
      OBVIOUS
    <3> QED BY <2>2, <3>1 DEF TrueWhenKept, ttl
  <2> HIDE DEF e
  <2>7. /\ m \in Seq(NegativeEntry)
        /\ Bounded(m, c.limits.negativeEntries)
        /\ \A i \in DOMAIN m : m[i] = e \/ \E j \in DOMAIN c.negatives : m[i] = c.negatives[j]
    <3> DEFINE limit == c.limits.negativeEntries
    <3>1. limit \in Nat \ {0} /\ Bounded(c.negatives, limit)
      BY <2>3
    <3>2. e \in NegativeEntry
      BY <2>2
    <3> HIDE DEF limit
    <3>3. /\ Inserted(c.negatives, e, limit) \in Seq(NegativeEntry)
          /\ Bounded(Inserted(c.negatives, e, limit), limit)
          /\ \A i \in DOMAIN Inserted(c.negatives, e, limit) :
               \/ Inserted(c.negatives, e, limit)[i] = e
               \/ \E j \in DOMAIN c.negatives : Inserted(c.negatives, e, limit)[i] = c.negatives[j]
      BY <2>3, <3>1, <3>2, PutMap
    <3> QED BY <3>3 DEF limit
  <2> HIDE DEF m
  <2>8. \A i \in DOMAIN m : StillFails(m[i])
    BY <2>5, <2>7 DEF Faithful
  <2>9. c.generation = registry.length => \A i \in DOMAIN m : TrueWhenKept(m[i])
    BY <2>6, <2>7 DEF Faithful
  <2> QED BY <2>4, <2>7, <2>8, <2>9, NewNegatives
<1> QED BY <1>1, <1>2

\* A record that is live stays live until its term ends, whatever its operation.
LEMMA LiveUntilItsTerm ==
  ASSUME NEW r \in Recorded, NEW t \in Nat, stateAt(r, t) = "LIVE",
         NEW at \in Nat, at >= t, at < r.notAfter
  PROVE  stateAt(r, at) = "LIVE"
<1>1. r.notBefore \in Nat /\ r.notAfter \in Nat
  BY AppendsAssumption DEF Recorded
<1>2. CASE r.op = "RELINQUISH"
  BY <1>1, <1>2 DEF stateAt, lifecycleOf
<1>3. CASE r.op = "REVOKE"
  BY <1>1, <1>3 DEF stateAt, lifecycleOf
<1>4. CASE r.op \notin {"RELINQUISH", "REVOKE"}
  BY <1>1, <1>4 DEF stateAt, lifecycleOf
<1> QED BY <1>2, <1>3, <1>4

\* The record in force may be kept while it is live.
LEMMA PutPositiveKeeps ==
  ASSUME NEW c, Faithful(c), NEW name \in Names, now \in Nat,
         registry.records[name] \in Recorded,
         stateAt(registry.records[name], now) = "LIVE"
  PROVE  /\ Faithful(putPositive(c, name, registry.records[name], now))
         /\ putPositive(c, name, registry.records[name], now).generation = c.generation
<1> DEFINE record == registry.records[name]
           ttl == now + POSITIVE_TTL_SECONDS
           expires == IF ttl < record.notAfter THEN ttl ELSE record.notAfter
           e == [key |-> name, record |-> record, expires |-> expires]
           m == Inserted(c.positives, e, c.limits.positiveEntries)
<1>1. record.notAfter \in Nat
  BY AppendsAssumption DEF Recorded
<1> HIDE DEF record
<1>2. expires \in Nat /\ expires <= record.notAfter
  BY <1>1, ResolverAssumption
<1>3. CASE expires <= now
  BY <1>3 DEF putPositive, record
<1>4. CASE ~(expires <= now)
  <2>1. c \in Caches /\ c.positives \in Seq(PositiveEntry)
        /\ c.limits.positiveEntries \in Nat \ {0}
        /\ Bounded(c.positives, c.limits.positiveEntries)
    BY CacheParts DEF Faithful
  <2>2. putPositive(c, name, record, now) = [c EXCEPT !.positives = m]
    BY <1>4, <2>1 DEF putPositive, Caches, Inserted
  <2> HIDE DEF expires
  <2>3. e \in PositiveEntry /\ e.key = name /\ e.record = record /\ e.expires = expires
    BY <1>2 DEF PositiveEntry, record
  <2>4. Vouched(e)
    <3>1. ASSUME NEW at \in now..(expires - 1) PROVE stateAt(record, at) = "LIVE"
      <4>1. at \in Nat /\ at >= now /\ at < record.notAfter
        BY <1>1, <1>2
      <4> QED BY <4>1, LiveUntilItsTerm DEF record
    <3> QED BY <2>3, <3>1 DEF Vouched, record
  <2> HIDE DEF e
  <2>5. /\ m \in Seq(PositiveEntry)
        /\ Bounded(m, c.limits.positiveEntries)
        /\ \A i \in DOMAIN m : m[i] = e \/ \E j \in DOMAIN c.positives : m[i] = c.positives[j]
    <3> DEFINE limit == c.limits.positiveEntries
    <3>1. limit \in Nat \ {0} /\ Bounded(c.positives, limit)
      BY <2>1
    <3>2. e \in PositiveEntry
      BY <2>3
    <3> HIDE DEF limit
    <3>3. /\ Inserted(c.positives, e, limit) \in Seq(PositiveEntry)
          /\ Bounded(Inserted(c.positives, e, limit), limit)
          /\ \A i \in DOMAIN Inserted(c.positives, e, limit) :
               \/ Inserted(c.positives, e, limit)[i] = e
               \/ \E j \in DOMAIN c.positives : Inserted(c.positives, e, limit)[i] = c.positives[j]
      BY <2>1, <3>1, <3>2, PutMap
    <3> QED BY <3>3 DEF limit
  <2> HIDE DEF m
  <2>6. c.generation = registry.length => \A i \in DOMAIN m : Vouched(m[i])
    BY <2>4, <2>5 DEF Faithful
  <2> QED BY <2>2, <2>5, <2>6, NewPositives DEF record
<1> QED BY <1>3, <1>4

\* A manifest may be remembered.
LEMMA RememberKeeps ==
  ASSUME NEW c, Faithful(c), NEW cid \in Cids,
         NEW manifest \in {Missing} \cup {Site[x].manifest : x \in Cids}
  PROVE  /\ Faithful(rememberManifest(c, cid, manifest))
         /\ rememberManifest(c, cid, manifest).generation = c.generation
<1> DEFINE e == [key |-> cid, manifest |-> manifest]
           limit == c.limits.manifestEntries
           m == Inserted(c.manifests, e, limit)
<1>1. c \in Caches /\ c.manifests \in Seq(ManifestEntry)
      /\ limit \in Nat \ {0} /\ Bounded(c.manifests, limit)
  BY CacheParts DEF Faithful
<1>2. rememberManifest(c, cid, manifest) = [c EXCEPT !.manifests = m]
  BY <1>1 DEF rememberManifest, Caches, Inserted
<1>3. e \in ManifestEntry
  BY DEF ManifestEntry
<1> HIDE DEF e, limit
<1>4. m \in Seq(ManifestEntry) /\ Bounded(m, limit)
  BY <1>1, <1>3, PutMap
<1> HIDE DEF m
<1>5. Bounded(m, c.limits.manifestEntries)
  BY <1>4 DEF limit
<1>6. /\ Faithful([c EXCEPT !.manifests = m])
      /\ [c EXCEPT !.manifests = m].generation = c.generation
  BY <1>4, <1>5, NewManifests
<1> QED BY <1>2, <1>6

\* The empty map is within any bound.
LEMMA EmptyMap ==
  ASSUME NEW E, NEW limit \in Nat
  PROVE  <<>> \in Seq(E) /\ Bounded(<<>>, limit) /\ DOMAIN <<>> = {}
<1>1. <<>> \in Seq(E) /\ Len(<<>>) = 0 /\ DOMAIN <<>> = {}
  OBVIOUS
<1> QED BY <1>1 DEF Bounded

\* forget takes keys from both halves, and what it leaves was there.
LEMMA ForgetKeeps ==
  ASSUME NEW c, Faithful(c), NEW keys
  PROVE  /\ Faithful(forget(c, keys))
         /\ forget(c, keys).generation = c.generation
         /\ forget(c, keys).negatives = Without(c.negatives, keys)
<1> DEFINE d == [c EXCEPT !.negatives = Without(@, keys)]
           f == [d EXCEPT !.positives = Without(@, keys)]
<1>1. c \in Caches
  BY DEF Faithful
<1>2. forget(c, keys) = f
  BY <1>1 DEF forget, Caches
<1>3. Faithful(d) /\ d.generation = c.generation
      /\ d.negatives = Without(c.negatives, keys)
  BY WithoutNegatives
<1> HIDE DEF d
<1>4. Faithful(f) /\ f.generation = d.generation
  BY <1>3, WithoutPositives
<1>5. f.negatives = d.negatives
  BY <1>3 DEF Faithful, Caches
<1> HIDE DEF f
<1> QED BY <1>2, <1>3, <1>4, <1>5

\* Told of a registry that moved, the cache forgets what it knew of names.
LEMMA SetGenerationKeeps ==
  ASSUME NEW c, Faithful(c), registry.length \in Nat
  PROVE  /\ Faithful(setGeneration(c, registry.length))
         /\ setGeneration(c, registry.length).generation = registry.length
<1> DEFINE d == [c EXCEPT !.generation = registry.length, !.negatives = <<>>,
                          !.positives = <<>>]
<1>1. CASE c.generation = registry.length
  BY <1>1 DEF setGeneration
<1>2. CASE c.generation # registry.length
  <2>1. setGeneration(c, registry.length) = d
    BY <1>2 DEF setGeneration
  <2>2. c \in Caches
    BY DEF Faithful
  <2>3. /\ c.limits.negativeEntries \in Nat /\ c.limits.positiveEntries \in Nat
        /\ <<>> \in Seq(NegativeEntry) /\ <<>> \in Seq(PositiveEntry)
    BY <2>2, CacheParts
  <2>4. /\ d \in Caches /\ d.negatives = <<>> /\ d.positives = <<>>
        /\ d.manifests = c.manifests /\ d.limits = c.limits
        /\ d.generation = registry.length
    BY <2>2, <2>3 DEF Caches
  <2> HIDE DEF d
  <2>5. /\ Bounded(d.negatives, d.limits.negativeEntries)
        /\ Bounded(d.positives, d.limits.positiveEntries)
        /\ DOMAIN d.negatives = {} /\ DOMAIN d.positives = {}
    BY <2>3, <2>4, EmptyMap
  <2>6. Bounded(d.manifests, d.limits.manifestEntries)
    BY <2>4 DEF Faithful
  <2>7. Faithful(d)
    BY <2>4, <2>5, <2>6 DEF Faithful
  <2> QED BY <2>1, <2>4, <2>7
<1> QED BY <1>1, <1>2

\* An emptied cache is faithful.
LEMMA ClearKeeps ==
  ASSUME NEW c, Faithful(c)
  PROVE  Faithful(clear(c)) /\ clear(c).generation = c.generation
<1> DEFINE d == [c EXCEPT !.negatives = <<>>, !.positives = <<>>, !.manifests = <<>>]
<1>1. c \in Caches
  BY DEF Faithful
<1>2. /\ c.limits.negativeEntries \in Nat /\ c.limits.positiveEntries \in Nat
      /\ c.limits.manifestEntries \in Nat
      /\ <<>> \in Seq(NegativeEntry) /\ <<>> \in Seq(PositiveEntry)
      /\ <<>> \in Seq(ManifestEntry)
  BY <1>1, CacheParts
<1>3. /\ d \in Caches /\ d.negatives = <<>> /\ d.positives = <<>> /\ d.manifests = <<>>
      /\ d.limits = c.limits /\ d.generation = c.generation
  BY <1>1, <1>2 DEF Caches
<1> HIDE DEF d
<1>4. /\ Bounded(d.negatives, d.limits.negativeEntries)
      /\ Bounded(d.positives, d.limits.positiveEntries)
      /\ Bounded(d.manifests, d.limits.manifestEntries)
      /\ DOMAIN d.negatives = {} /\ DOMAIN d.positives = {}
  BY <1>2, <1>3, EmptyMap
<1>5. Faithful(d)
  BY <1>3, <1>4 DEF Faithful
<1> QED BY <1>3, <1>5 DEF clear, d

\* Lowered bounds hold of what is already kept.
LEMMA SetLimitsKeeps ==
  ASSUME NEW c, Faithful(c), NEW sizes, DOMAIN sizes \subseteq Fields,
         \A field \in DOMAIN sizes : sizes[field] \in 1..CACHE_CEILINGS[field]
  PROVE  Faithful(setLimits(c, sizes)) /\ setLimits(c, sizes).generation = c.generation
<1> DEFINE limits == Resized(c.limits, sizes)
           n == trimTo(c.negatives, limits.negativeEntries)
           p == trimTo(c.positives, limits.positiveEntries)
           m == trimTo(c.manifests, limits.manifestEntries)
           d == [c EXCEPT !.limits = limits, !.negatives = n, !.positives = p,
                          !.manifests = m]
<1>1. c \in Caches /\ c.limits \in [Fields -> Nat \ {0}]
      /\ c.negatives \in Seq(NegativeEntry) /\ c.positives \in Seq(PositiveEntry)
      /\ c.manifests \in Seq(ManifestEntry)
      /\ Distinct(c.negatives) /\ Distinct(c.positives) /\ Distinct(c.manifests)
  BY CacheParts DEF Faithful, Bounded, Distinct
<1>2. limits \in [Fields -> Nat \ {0}]
  <2>1. ASSUME NEW field \in DOMAIN sizes PROVE sizes[field] \in Nat \ {0}
    <3>1. CACHE_CEILINGS[field] \in Nat
      BY SurfaceAssumption
    <3> QED BY <3>1
  <2> QED BY <1>1, <2>1 DEF Resized
<1>3. setLimits(c, sizes) = d
  BY <1>1 DEF setLimits, Caches
<1> HIDE DEF limits
<1>4. /\ limits.negativeEntries \in Nat \ {0} /\ limits.positiveEntries \in Nat \ {0}
      /\ limits.manifestEntries \in Nat \ {0}
  BY <1>2 DEF Fields
<1>5. n \in Seq(NegativeEntry) /\ Bounded(n, limits.negativeEntries)
      /\ Within(n, c.negatives)
  BY <1>1, <1>4, TrimmedMap
<1>6. p \in Seq(PositiveEntry) /\ Bounded(p, limits.positiveEntries)
      /\ Within(p, c.positives)
  BY <1>1, <1>4, TrimmedMap
<1>7. m \in Seq(ManifestEntry) /\ Bounded(m, limits.manifestEntries)
  BY <1>1, <1>4, TrimmedMap
<1> HIDE DEF n, p, m
<1>8. /\ d \in Caches /\ d.negatives = n /\ d.positives = p /\ d.manifests = m
      /\ d.limits = limits /\ d.generation = c.generation
  BY <1>1, <1>2, <1>5, <1>6, <1>7 DEF Caches
<1> HIDE DEF d
<1>9. \A i \in DOMAIN n : StillFails(n[i])
  BY <1>5 DEF Within, Faithful
<1>10. c.generation = registry.length =>
         /\ \A i \in DOMAIN p : Vouched(p[i])
         /\ \A i \in DOMAIN n : TrueWhenKept(n[i])
  BY <1>5, <1>6 DEF Within, Faithful
<1>11. Faithful(d)
  BY <1>5, <1>6, <1>7, <1>8, <1>9, <1>10 DEF Faithful
<1> QED BY <1>3, <1>8, <1>11

-----------------------------------------------------------------------------
(***************************************************************************)
(* Resolving a name (resolve.ts).                                          *)
(***************************************************************************)
Fetchable(record) == sourceCandidates(record) # <<>> /\ sourceCandidates(record)[1] # "alias"

\* A refusal that RefusalsWereTrue allows.
TrueLately(error) ==
  error \in NameErrors =>
    \E name \in Names, at \in 0..now :
      /\ at > now - NEGATIVE_TTL_SECONDS[error] \/ at = now
      /\ RegistryVerdict(registry, name, at) = error

InForce(name, record) == registry.records[name] = record /\ stateAt(record, now) = "LIVE"

\* What a walk that started from a cache of generation g may end with.
Truthful(outcome, g) ==
  \/ outcome = None
  \/ /\ outcome.error \in ResolveErrorName
     /\ g = registry.length => TrueLately(outcome.error)
  \/ /\ outcome.error = "ok" /\ outcome.name \in Names /\ outcome.record \in Recorded
     /\ Fetchable(outcome.record)
     /\ g = registry.length => InForce(outcome.name, outcome.record)

Outcomes ==
  {None} \cup [error : ResolveErrorName] \cup
  [error : {"ok"}, record : Recorded, name : Names]

Walks ==
  [current : Names \cup {Malformed}, seen : SUBSET Names, cache : Caches, outcome : Outcomes]

IsWalk(w, g) ==
  /\ w \in Walks
  /\ Faithful(w.cache) /\ w.cache.generation = g
  /\ Truthful(w.outcome, g)

\* The state of the process that the lemmas below take for granted.
Typed ==
  /\ now \in Nat
  /\ registry.length \in Nat
  /\ registry.records \in [Names -> Recorded \cup {Missing}]
  /\ pinned \subseteq Cids
  /\ pinned \subseteq port.holds
  /\ port.tells \/ port.corrupt = {}

\* A walk may end with an error that is true.
LEMMA FailKeeps ==
  ASSUME NEW g, NEW w, IsWalk(w, g), NEW error \in ResolveErrorName,
         g = registry.length => TrueLately(error)
  PROVE  IsWalk(Fail(w, error), g)
<1> DEFINE o == [error |-> error]
           v == [w EXCEPT !.outcome = o]
<1>1. o.error = error
  OBVIOUS
<1>2. Truthful(o, g) /\ o \in Outcomes
  BY <1>1 DEF Truthful, Outcomes
<1> HIDE DEF o
<1>3. v \in Walks /\ v.cache = w.cache /\ v.outcome = o
  BY <1>2 DEF IsWalk, Walks
<1>4. IsWalk(v, g)
  BY <1>2, <1>3 DEF IsWalk
<1> QED BY <1>4 DEF Fail, o

\* The sources of a record are entries it has, two at most, and an alias only alone.
LEMMA SourcesOfRecord ==
  ASSUME NEW r, DOMAIN r.entries \subseteq {"ipns", "cid", "alias"}
  PROVE  LET s == sourceCandidates(r)
         IN  \/ s = <<>>
             \/ /\ Len(s) = 1
                /\ s[1] \in {"ipns", "cid", "alias"} \cap DOMAIN r.entries
             \/ /\ Len(s) = 2 /\ s[1] = "ipns" /\ s[2] = "cid"
                /\ {"ipns", "cid"} \subseteq DOMAIN r.entries
<1>1. CASE "ipns" \in DOMAIN r.entries /\ "cid" \in DOMAIN r.entries
  <2> DEFINE s == <<"ipns">> \o <<"cid">>
  <2>1. Len(s) = 2 /\ s[1] = "ipns" /\ s[2] = "cid"
    OBVIOUS
  <2>2. s # <<>>
    <3>1. Len(<<>>) = 0
      OBVIOUS
    <3> HIDE DEF s
    <3> QED BY <2>1, <3>1
  <2>3. sourceCandidates(r) = s
    BY <1>1, <2>2 DEF sourceCandidates
  <2> HIDE DEF s
  <2> QED BY <1>1, <2>1, <2>3
<1>2. CASE "ipns" \in DOMAIN r.entries /\ "cid" \notin DOMAIN r.entries
  <2>1. <<"ipns">> \o <<>> = <<"ipns">> /\ <<"ipns">> # <<>>
    OBVIOUS
  <2>2. sourceCandidates(r) = <<"ipns">>
    BY <1>2, <2>1 DEF sourceCandidates
  <2> QED BY <1>2, <2>2
<1>3. CASE "ipns" \notin DOMAIN r.entries /\ "cid" \in DOMAIN r.entries
  <2>1. <<>> \o <<"cid">> = <<"cid">> /\ <<"cid">> # <<>>
    OBVIOUS
  <2>2. sourceCandidates(r) = <<"cid">>
    BY <1>3, <2>1 DEF sourceCandidates
  <2> QED BY <1>3, <2>2
<1>4. CASE "ipns" \notin DOMAIN r.entries /\ "cid" \notin DOMAIN r.entries
  <2>1. <<>> \o <<>> = <<>>
    OBVIOUS
  <2>2. \/ sourceCandidates(r) = <<>>
        \/ sourceCandidates(r) = <<"alias">> /\ "alias" \in DOMAIN r.entries
    BY <1>4, <2>1 DEF sourceCandidates
  <2> QED BY <2>2
<1> QED BY <1>1, <1>2, <1>3, <1>4

\* What the entries of a record are.
LEMMA RecordedHas ==
  ASSUME NEW r \in Recorded
  PROVE  /\ r # Missing
         /\ DOMAIN r.entries \subseteq {"ipns", "cid", "alias"}
         /\ "cid" \in DOMAIN r.entries => r.entries["cid"] \in Cids \cup {Malformed}
         /\ "alias" \in DOMAIN r.entries => r.entries["alias"] \in Names \cup {Malformed}
BY AppendsAssumption DEF Recorded

\* A record in force ends the walk, or sends it on to the name of its alias.
LEMMA SelectKeeps ==
  ASSUME NEW g, NEW w, IsWalk(w, g), w.current \in Names, NEW record \in Recorded,
         g = registry.length => InForce(w.current, record)
  PROVE  IsWalk(SelectFrom(w, record), g)
<1> DEFINE sources == sourceCandidates(record)
           target == record.entries["alias"]
<1>1. CASE sources = <<>>
  <2>1. "NO_USABLE_RECORD" \in ResolveErrorName /\ "NO_USABLE_RECORD" \notin NameErrors
    BY DEF ResolveErrorName, NameErrors
  <2>2. IsWalk(Fail(w, "NO_USABLE_RECORD"), g)
    BY <2>1, FailKeeps DEF TrueLately
  <2> QED BY <1>1, <2>2 DEF SelectFrom
<1>2. CASE sources # <<>> /\ sources[1] # "alias"
  <2> DEFINE o == [error |-> "ok", record |-> record, name |-> w.current]
             v == [w EXCEPT !.outcome = o]
  <2>1. SelectFrom(w, record) = v
    BY <1>2 DEF SelectFrom
  <2>2. o.error = "ok" /\ o.record = record /\ o.name = w.current /\ o \in Outcomes
    BY DEF Outcomes
  <2> HIDE DEF o
  <2>3. Truthful(o, g)
    BY <1>2, <2>2 DEF Truthful, Fetchable
  <2>4. v \in Walks /\ v.cache = w.cache /\ v.outcome = o
    BY <2>2 DEF IsWalk, Walks
  <2>5. IsWalk(v, g)
    BY <2>3, <2>4 DEF IsWalk
  <2> QED BY <2>1, <2>5
<1>3. CASE sources # <<>> /\ sources[1] = "alias"
  <2>1. "alias" \in DOMAIN record.entries
    BY <1>3, RecordedHas, SourcesOfRecord
  <2>2. target \in Names \cup {Malformed}
    BY <2>1, RecordedHas
  <2>3. CASE target = Malformed
    <3>1. "NO_USABLE_RECORD" \in ResolveErrorName /\ "NO_USABLE_RECORD" \notin NameErrors
      BY DEF ResolveErrorName, NameErrors
    <3>2. IsWalk(Fail(w, "NO_USABLE_RECORD"), g)
      BY <3>1, FailKeeps DEF TrueLately
    <3> QED BY <1>3, <2>3, <3>2 DEF SelectFrom
  <2>4. CASE target # Malformed
    <3> DEFINE v == [w EXCEPT !.current = target, !.seen = @ \cup {w.current}]
    <3>1. SelectFrom(w, record) = v
      BY <1>3, <2>4 DEF SelectFrom
    <3> HIDE DEF target
    <3>2. v \in Walks /\ v.cache = w.cache /\ v.outcome = w.outcome
      BY <2>2 DEF IsWalk, Walks
    <3> HIDE DEF v
    <3>3. IsWalk(v, g)
      BY <2>2, <3>2 DEF IsWalk
    <3> QED BY <3>1, <3>3
  <2> QED BY <2>3, <2>4
<1> QED BY <1>1, <1>2, <1>3

\* What the registry may say of a name.
LEMMA VerdictCases ==
  ASSUME NEW name, NEW at
  PROVE  /\ RegistryVerdict(registry, name, at) \in
              NameErrors \cup {"REGISTRY_UNAVAILABLE", "LIVE"}
         /\ RegistryVerdict(registry, name, at) = "LIVE" =>
              /\ registry.records[name] # Missing
              /\ stateAt(registry.records[name], at) = "LIVE"
BY DEF RegistryVerdict, NameErrors

\* A refusal kept under a name is not about content.
LEMMA NamesAreNotSources ==
  ASSUME NEW name \in Names, NEW cid \in Cids
  PROVE  ~About(name, cid)
BY NamesAssumption DEF About

\* A kept refusal that has not expired was true lately.
LEMMA KeptIsTrueLately ==
  ASSUME now \in Nat, NEW e \in NegativeEntry, TrueWhenKept(e), e.expires > now
  PROVE  TrueLately(e.error)
<1> SUFFICES ASSUME e.error \in NameErrors PROVE TrueLately(e.error)
  BY DEF TrueLately
<1>1. PICK name \in Names, at \in 0..now :
        /\ e.expires = at + NEGATIVE_TTL_SECONDS[e.error]
        /\ RegistryVerdict(registry, name, at) = e.error
  BY DEF TrueWhenKept
<1>2. NEGATIVE_TTL_SECONDS[e.error] \in Int
  BY ResolverAssumption DEF NegativeEntry, Never
<1>3. at > now - NEGATIVE_TTL_SECONDS[e.error]
  BY <1>1, <1>2
<1> QED BY <1>1, <1>3 DEF TrueLately

\* One round of the alias loop keeps a walk truthful.
LEMMA HopKeeps ==
  ASSUME Typed, NEW g, NEW w, IsWalk(w, g)
  PROVE  IsWalk(Hop(w, registry, now), g)
<1> DEFINE name == w.current
           hit == positive(w.cache, name, now)
           miss == negative(hit.cache, name, now)
           looked == [w EXCEPT !.cache = miss.cache]
           verdict == RegistryVerdict(registry, name, now)
           record == registry.records[name]
           refused == [looked EXCEPT !.cache = putNegative(@, name, verdict, now)]
           live == [looked EXCEPT !.cache = putPositive(@, name, record, now)]
<1>0. /\ now \in Nat /\ w \in Walks /\ Faithful(w.cache) /\ w.cache.generation = g
      /\ name \in Names \cup {Malformed}
  BY DEF Typed, IsWalk, Walks
<1>1. Hop(w, registry, now) =
        IF name = Malformed THEN Fail(w, "LABEL_INVALID")
        ELSE IF name \in w.seen THEN Fail(w, "ALIAS_LOOP")
        ELSE IF hit.record # Missing THEN SelectFrom(w, hit.record)
        ELSE IF miss.error # Missing THEN Fail(looked, miss.error)
        ELSE IF verdict = "REGISTRY_UNAVAILABLE" THEN Fail(looked, verdict)
        ELSE IF verdict # "LIVE" THEN Fail(refused, verdict)
        ELSE SelectFrom(live, record)
  BY DEF Hop
<1>2. /\ Faithful(hit.cache) /\ hit.cache.generation = g
      /\ \/ hit.record = Missing
         \/ \E i \in DOMAIN w.cache.positives :
              /\ w.cache.positives[i].key = name
              /\ w.cache.positives[i].record = hit.record
              /\ w.cache.positives[i].expires > now
  BY <1>0, PositiveKeeps
<1>3. /\ Faithful(miss.cache) /\ miss.cache.generation = g
      /\ \/ miss.error = Missing
         \/ \E i \in DOMAIN hit.cache.negatives :
              /\ hit.cache.negatives[i].key = name
              /\ hit.cache.negatives[i].error = miss.error
              /\ hit.cache.negatives[i].expires > now
  <2> HIDE DEF hit
  <2> QED BY <1>0, <1>2, NegativeKeeps
<1> HIDE DEF hit, miss
<1>4. IsWalk(looked, g) /\ looked.cache = miss.cache /\ looked.current = name
  <2>1. looked \in Walks /\ looked.cache = miss.cache /\ looked.outcome = w.outcome
        /\ looked.current = name
    BY <1>0, <1>3 DEF Walks, Faithful
  <2> HIDE DEF looked
  <2> QED BY <1>3, <2>1 DEF IsWalk
<1>5. /\ {"LABEL_INVALID", "ALIAS_LOOP", "REGISTRY_UNAVAILABLE"} \subseteq ResolveErrorName
      /\ \A e \in {"LABEL_INVALID", "ALIAS_LOOP", "REGISTRY_UNAVAILABLE"} : TrueLately(e)
  BY DEF ResolveErrorName, NameErrors, TrueLately
<1> HIDE DEF looked
<1>6. CASE name = Malformed
  <2>1. IsWalk(Fail(w, "LABEL_INVALID"), g)
    BY <1>5, FailKeeps
  <2> QED BY <1>1, <1>6, <2>1
<1>7. CASE name # Malformed /\ name \in w.seen
  <2>1. IsWalk(Fail(w, "ALIAS_LOOP"), g)
    BY <1>5, FailKeeps
  <2> QED BY <1>1, <1>7, <2>1
<1>8. CASE name # Malformed /\ name \notin w.seen /\ hit.record # Missing
  <2>1. PICK i \in DOMAIN w.cache.positives :
              /\ w.cache.positives[i].key = name
              /\ w.cache.positives[i].record = hit.record
              /\ w.cache.positives[i].expires > now
    BY <1>2, <1>8
  <2> DEFINE e == w.cache.positives[i]
  <2>2. e \in PositiveEntry
    <3>1. w.cache.positives \in Seq(PositiveEntry)
      BY <1>0, CacheParts DEF Faithful
    <3> QED BY <3>1
  <2>3. hit.record \in Recorded /\ e.expires \in Nat
    BY <2>1, <2>2 DEF PositiveEntry
  <2>4. ASSUME g = registry.length PROVE InForce(name, hit.record)
    <3>1. Vouched(e)
      BY <1>0, <2>4 DEF Faithful
    <3>2. now \in now..(e.expires - 1)
      BY <1>0, <2>1, <2>3
    <3> QED BY <2>1, <3>1, <3>2 DEF Vouched, InForce
  <2> HIDE DEF e
  <2>5. name \in Names
    BY <1>0, <1>8
  <2>6. IsWalk(SelectFrom(w, hit.record), g)
    BY <2>3, <2>4, <2>5, SelectKeeps
  <2> QED BY <1>1, <1>8, <2>6
<1>9. CASE name # Malformed /\ name \notin w.seen /\ hit.record = Missing /\ miss.error # Missing
  <2>1. PICK i \in DOMAIN hit.cache.negatives :
              /\ hit.cache.negatives[i].key = name
              /\ hit.cache.negatives[i].error = miss.error
              /\ hit.cache.negatives[i].expires > now
    BY <1>3, <1>9
  <2> DEFINE e == hit.cache.negatives[i]
  <2>2. e \in NegativeEntry
    <3>1. hit.cache.negatives \in Seq(NegativeEntry)
      BY <1>2, CacheParts DEF Faithful
    <3> QED BY <3>1
  <2>3. miss.error \in ResolveErrorName
    BY <2>1, <2>2 DEF NegativeEntry
  <2>4. ASSUME g = registry.length PROVE TrueLately(miss.error)
    <3>1. TrueWhenKept(e)
      BY <1>2, <2>4 DEF Faithful
    <3> HIDE DEF e
    <3>2. TrueLately(e.error)
      BY <1>0, <2>1, <2>2, <3>1, KeptIsTrueLately DEF e
    <3> QED BY <2>1, <3>2 DEF e
  <2> HIDE DEF e
  <2>5. IsWalk(Fail(looked, miss.error), g)
    BY <1>4, <2>3, <2>4, FailKeeps
  <2> QED BY <1>1, <1>9, <2>5
<1>10. CASE /\ name # Malformed /\ name \notin w.seen
            /\ hit.record = Missing /\ miss.error = Missing
  <2>0. name \in Names
    BY <1>0, <1>10
  <2>1. CASE verdict = "REGISTRY_UNAVAILABLE"
    <3>1. IsWalk(Fail(looked, "REGISTRY_UNAVAILABLE"), g)
      BY <1>4, <1>5, FailKeeps
    <3> QED BY <1>1, <1>10, <2>1, <3>1
  <2>2. CASE verdict # "REGISTRY_UNAVAILABLE" /\ verdict # "LIVE"
    <3>1. verdict \in NameErrors
      BY <2>2, VerdictCases
    <3>2. verdict \in ResolveErrorName /\ verdict # "CONTENT_UNAVAILABLE"
      BY <3>1 DEF ResolveErrorName, NameErrors
    <3>3. TrueLately(verdict)
      <4>1. now \in 0..now
        BY <1>0
      <4> QED BY <2>0, <4>1 DEF TrueLately
    <3>4. \E n \in Names : RegistryVerdict(registry, n, now) = verdict
      BY <2>0
    <3> HIDE DEF verdict
    <3> DEFINE d == putNegative(miss.cache, name, verdict, now)
    <3>5. Faithful(d) /\ d.generation = g
      <4>1. \A cid \in Cids : ~About(name, cid)
        BY <2>0, NamesAreNotSources
      <4>2. name \in Names \cup ({"content"} \X {"ipns", "cid"} \X Values)
        BY <2>0
      <4> QED BY <1>0, <1>3, <3>2, <3>4, <4>1, <4>2, PutNegativeKeeps
    <3> HIDE DEF d
    <3>6. IsWalk(refused, g)
      <4>1. refused \in Walks /\ refused.cache = d /\ refused.outcome = looked.outcome
        BY <1>4, <3>5 DEF IsWalk, Walks, Faithful, d
      <4> HIDE DEF refused
      <4> QED BY <1>4, <3>5, <4>1 DEF IsWalk
    <3> HIDE DEF refused
    <3>7. IsWalk(Fail(refused, verdict), g)
      BY <3>2, <3>3, <3>6, FailKeeps
    <3> QED BY <1>1, <1>10, <2>2, <3>7
  <2>3. CASE verdict = "LIVE"
    <3>1. record # Missing /\ stateAt(record, now) = "LIVE"
      BY <2>3, VerdictCases
    <3>2. record \in Recorded
      BY <2>0, <3>1 DEF Typed
    <3> DEFINE d == putPositive(miss.cache, name, record, now)
    <3>3. Faithful(d) /\ d.generation = g
      BY <1>0, <1>3, <2>0, <3>1, <3>2, PutPositiveKeeps
    <3> HIDE DEF d
    <3>4. IsWalk(live, g) /\ live.current = name
      <4>1. live \in Walks /\ live.cache = d /\ live.outcome = looked.outcome
            /\ live.current = name
        BY <1>4, <3>3 DEF IsWalk, Walks, Faithful, d
      <4> HIDE DEF live
      <4> QED BY <1>4, <3>3, <4>1 DEF IsWalk
    <3> HIDE DEF live
    <3>5. InForce(name, record)
      BY <3>1 DEF InForce
    <3>6. IsWalk(SelectFrom(live, record), g)
      BY <2>0, <3>2, <3>4, <3>5, SelectKeeps
    <3>7. verdict # "REGISTRY_UNAVAILABLE"
      BY <2>3
    <3> QED BY <1>1, <1>10, <2>3, <3>6, <3>7
  <2> QED BY <2>1, <2>2, <2>3
<1> QED BY <1>6, <1>7, <1>8, <1>9, <1>10

\* g is the walk after each number of rounds up to n.
IsResolution(g, start, n) ==
  g = [hop \in 0..n |->
         IF hop = 0 THEN start
         ELSE IF g[hop - 1].outcome # None THEN g[hop - 1]
         ELSE Hop(g[hop - 1], registry, now)]

\* The recursion of resolveName is well founded.
LEMMA ResolutionExists ==
  ASSUME NEW start, NEW n \in Nat
  PROVE  \E g : IsResolution(g, start, n)
<1> DEFINE T == {k \in Nat : \E g : IsResolution(g, start, k)}
<1>1. 0 \in T
  <2>1. IsResolution([i \in 0..0 |-> start], start, 0)
    BY DEF IsResolution
  <2> QED BY <2>1
<1>2. ASSUME NEW k \in T PROVE k + 1 \in T
  <2>1. PICK g : IsResolution(g, start, k)
    OBVIOUS
  <2> DEFINE Step(x) == IF x.outcome # None THEN x ELSE Hop(x, registry, now)
             h == [i \in 0..(k + 1) |-> IF i = k + 1 THEN Step(g[k]) ELSE g[i]]
  <2>2. \A i \in 0..k : g[i] = IF i = 0 THEN start ELSE Step(g[i - 1])
    BY <2>1 DEF IsResolution
  <2> HIDE DEF Step
  <2>3. h[k + 1] = Step(g[k]) /\ \A i \in 0..k : h[i] = g[i]
    OBVIOUS
  <2>4. h = [i \in 0..(k + 1) |-> h[i]]
    OBVIOUS
  <2> HIDE DEF h
  <2>5. ASSUME NEW i \in 0..(k + 1)
        PROVE  h[i] = IF i = 0 THEN start ELSE Step(h[i - 1])
    <3>1. CASE i = k + 1
      BY <2>3, <3>1
    <3>2. CASE i # k + 1
      <4>1. i \in 0..k /\ (i # 0 => i - 1 \in 0..k)
        BY <3>2
      <4> QED BY <2>2, <2>3, <4>1
    <3> QED BY <3>1, <3>2
  <2>6. h = [i \in 0..(k + 1) |-> IF i = 0 THEN start ELSE Step(h[i - 1])]
    BY <2>4, <2>5
  <2>7. IsResolution(h, start, k + 1)
    BY <2>6 DEF IsResolution, Step
  <2> QED BY <2>7
<1>3. T = Nat
  <2>1. T \in SUBSET Nat
    OBVIOUS
  <2> HIDE DEF T
  <2> QED BY <1>1, <1>2, <2>1, SetInduction
<1> QED BY <1>3

\* Resolving a name keeps the cache faithful, and its outcome is true of the registry
\* that the cache was told of.
LEMMA ResolveKeeps ==
  ASSUME Typed, NEW host \in Names, NEW c, Faithful(c)
  PROVE  IsWalk(resolveName(host, registry, now, c), c.generation)
<1> DEFINE start == [current |-> host, seen |-> {}, cache |-> c, outcome |-> None]
           n == ALIAS_BUDGET + 1
           g == CHOOSE h : IsResolution(h, start, n)
           end == g[n]
           T == {i \in 0..n : IsWalk(g[i], c.generation)}
<1>1. n \in Nat
  BY ResolverAssumption
<1>2. resolveName(host, registry, now, c) =
        IF end.outcome = None THEN Fail(end, "ALIAS_LOOP") ELSE end
  BY DEF resolveName, IsResolution
<1>3. IsWalk(start, c.generation)
  <2>1. start \in Walks /\ start.cache = c /\ start.outcome = None
    BY DEF Walks, Faithful, Outcomes
  <2> HIDE DEF start
  <2> QED BY <2>1 DEF IsWalk, Truthful
<1> HIDE DEF start, n
<1>4. IsResolution(g, start, n)
  <2>1. \E h : IsResolution(h, start, n)
    BY <1>1, ResolutionExists
  <2> QED BY <2>1
<1> HIDE DEF g
<1>5. 0 \in T
  <2>1. g[0] = start
    BY <1>1, <1>4 DEF IsResolution
  <2> QED BY <1>1, <1>3, <2>1
<1>6. ASSUME NEW i \in 0..(n - 1), i \in T PROVE i + 1 \in T
  <2>1. i + 1 \in 0..n /\ (i + 1) - 1 = i /\ i + 1 # 0
    BY <1>1
  <2>2. g[i + 1] = IF g[i].outcome # None THEN g[i] ELSE Hop(g[i], registry, now)
    <3>1. g[i + 1] = IF i + 1 = 0 THEN start
                     ELSE IF g[(i + 1) - 1].outcome # None THEN g[(i + 1) - 1]
                     ELSE Hop(g[(i + 1) - 1], registry, now)
      <4> HIDE DEF T
      <4> QED BY <1>4, <2>1, Zenon DEF IsResolution
    <3> HIDE DEF T
    <3> QED BY <2>1, <3>1, Zenon
  <2>3. IsWalk(g[i], c.generation)
    BY <1>6
  <2>4. IsWalk(Hop(g[i], registry, now), c.generation)
    BY <2>3, HopKeeps
  <2>5. IsWalk(g[i + 1], c.generation)
    BY <2>2, <2>3, <2>4
  <2> QED BY <2>1, <2>5
<1>7. IsWalk(end, c.generation)
  <2>1. \A i \in 0..n : i \in T
    <3> HIDE DEF T
    <3> QED BY <1>1, <1>5, <1>6, IntervalInduction
  <2> QED BY <1>1, <2>1
<1>8. "ALIAS_LOOP" \in ResolveErrorName /\ TrueLately("ALIAS_LOOP")
  BY DEF ResolveErrorName, NameErrors, TrueLately
<1>9. IsWalk(Fail(end, "ALIAS_LOOP"), c.generation)
  BY <1>7, <1>8, FailKeeps
<1> QED BY <1>2, <1>7, <1>9

-----------------------------------------------------------------------------
(***************************************************************************)
(* Serving a path of a site (proxy.ts, step 13).                           *)
(***************************************************************************)
\* What asking for the bytes of a CID may come to.
IsFetch(error, cid) ==
  /\ error \in {"ok", "CONTENT_UNAVAILABLE", "CONTENT_INTEGRITY", "PATH_NOT_FOUND",
               "RESPONSE_TOO_LARGE"}
  /\ error = "CONTENT_UNAVAILABLE" => cid \notin pinned
  /\ error \in {"PATH_NOT_FOUND", "RESPONSE_TOO_LARGE"} => cid \notin port.corrupt
  /\ cid \in pinned /\ cid \in port.corrupt => error = "CONTENT_INTEGRITY"

\* What the content port answers for one path: one that does not tell why it fails has
\* no bytes that fail their hash.
LEMMA FetchIs ==
  ASSUME Typed, NEW cid, NEW segments
  PROVE  /\ IsFetch(fetch(Content, cid, segments), cid)
         /\ fetch(Content, cid, segments) \in {"ok", "PATH_NOT_FOUND"} =>
              cid \in pinned /\ cid \notin port.corrupt
<1>1. Content.pinned = pinned /\ Content.port = port
  BY DEF Content
<1>2. /\ cid \in pinned => cid \in port.holds
      /\ cid \in port.corrupt => port.tells
  BY DEF Typed
<1>3. Traversal(port, cid, segments) \in
        IF cid \in port.corrupt THEN {"CONTENT_INTEGRITY"}
        ELSE {"ok", "PATH_NOT_FOUND", "RESPONSE_TOO_LARGE"}
  BY DEF Traversal
<1> QED BY <1>1, <1>2, <1>3 DEF fetch, PortAnswer, IsFetch

\* What it answers for several paths in turn.
LEMMA FirstAnswerIs ==
  ASSUME Typed, NEW cid, NEW paths, DOMAIN paths # {}
  PROVE  IsFetch(FirstAnswer(Content, cid, paths).error, cid)
<1> DEFINE Decides(i) == fetch(Content, cid, paths[i]) # "PATH_NOT_FOUND"
           first == CHOOSE i \in DOMAIN paths :
                      Decides(i) /\ \A j \in DOMAIN paths : Decides(j) => i <= j
<1>1. CASE \E i \in DOMAIN paths : Decides(i)
  <2>1. FirstAnswer(Content, cid, paths) =
          [error |-> fetch(Content, cid, paths[first]), path |-> paths[first], status |-> 200]
    BY <1>1 DEF FirstAnswer
  <2> HIDE DEF first
  <2> QED BY <2>1, FetchIs
<1>2. CASE ~\E i \in DOMAIN paths : Decides(i)
  <2>1. FirstAnswer(Content, cid, paths) =
          [error |-> "PATH_NOT_FOUND", path |-> <<>>, status |-> 404]
    BY <1>2 DEF FirstAnswer
  <2>2. PICK i \in DOMAIN paths : fetch(Content, cid, paths[i]) = "PATH_NOT_FOUND"
    BY <1>2
  <2>3. cid \notin port.corrupt
    BY <2>2, FetchIs
  <2> QED BY <2>1, <2>3 DEF IsFetch
<1> QED BY <1>1, <1>2

\* A page that the manifest declares is served from content that is sound.
LEMMA DeclaredPageIs ==
  ASSUME Typed, NEW cid, NEW manifest, NEW otherwise, IsFetch(otherwise.error, cid)
  PROVE  IsFetch(DeclaredPage(Content, cid, manifest, otherwise).error, cid)
<1> DEFINE Usable(field) ==
             /\ Declared(manifest, field) # Missing
             /\ fetch(Content, cid, <<Declared(manifest, field)>>) = "ok"
           page == DeclaredPage(Content, cid, manifest, otherwise)
<1>1. \/ page = otherwise
      \/ (Usable("notFound") \/ Usable("fallback")) /\ page.error = "ok"
  BY DEF DeclaredPage
<1>2. ASSUME Usable("notFound") \/ Usable("fallback") PROVE IsFetch("ok", cid)
  <2>1. cid \notin port.corrupt
    BY <1>2, FetchIs
  <2> QED BY <2>1 DEF IsFetch
<1> QED BY <1>1, <1>2

\* The paths asked for are at least the path as given.
LEMMA SomePath ==
  ASSUME NEW segments, NEW manifest
  PROVE  LET names == indexCandidates(manifest)
             indexes == [i \in DOMAIN names |-> Append(segments, names[i])]
             asGiven == <<segments>>
         IN  /\ DOMAIN (indexes \o asGiven) # {}
             /\ DOMAIN (asGiven \o indexes) # {}
<1> DEFINE names == indexCandidates(manifest)
           indexes == [i \in DOMAIN names |-> Append(segments, names[i])]
           asGiven == <<segments>>
           X == {segments} \cup {indexes[i] : i \in DOMAIN names}
<1>1. \E k \in Nat : DOMAIN names = 1..k
  <2>1. DOMAIN <<"index.html">> = 1..1
    OBVIOUS
  <2>2. \A x : DOMAIN <<x, "index.html">> = 1..2
    OBVIOUS
  <2>3. DOMAIN names = 1..1 \/ DOMAIN names = 1..2
    BY <2>1, <2>2 DEF indexCandidates
  <2> HIDE DEF names
  <2> QED BY <2>3
<1> HIDE DEF names
<1>2. PICK k \in Nat : DOMAIN names = 1..k
  BY <1>1
<1>3. indexes \in [1..k -> X]
  BY <1>2
<1>4. asGiven \in Seq(X) /\ Len(asGiven) = 1
  OBVIOUS
<1> HIDE DEF X, indexes
<1>5. indexes \in Seq(X) /\ Len(indexes) = k
  BY <1>3
<1> HIDE DEF asGiven
<1>6. ASSUME NEW s \in Seq(X), NEW t \in Seq(X), Len(s) + Len(t) = k + 1
      PROVE  1 \in DOMAIN (s \o t)
  <2>1. s \o t \in Seq(X) /\ Len(s \o t) = Len(s) + Len(t)
    OBVIOUS
  <2> QED BY <1>6, <2>1
<1>7. 1 \in DOMAIN (indexes \o asGiven) /\ 1 \in DOMAIN (asGiven \o indexes)
  <2>1. Len(indexes) + Len(asGiven) = k + 1 /\ Len(asGiven) + Len(indexes) = k + 1
    BY <1>4, <1>5
  <2> QED BY <1>4, <1>5, <1>6, <2>1, Zenon
<1> QED BY <1>7 DEF indexes, asGiven, names

\* Reading the manifest keeps the cache faithful.
LEMMA ReadManifestKeeps ==
  ASSUME NEW c, Faithful(c), NEW cid \in Cids
  PROVE  /\ Faithful(ReadManifest(c, Content, cid).cache)
         /\ ReadManifest(c, Content, cid).cache.generation = c.generation
<1>1. CASE Held(c.manifests, cid)
  BY <1>1 DEF ReadManifest
<1>2. CASE ~Held(c.manifests, cid)
  <2> DEFINE manifest == IF fetch(Content, cid, ManifestPath) = "ok"
                         THEN parseManifest(cid) ELSE Missing
  <2>1. manifest \in {Missing} \cup {Site[x].manifest : x \in Cids}
    BY DEF parseManifest
  <2>2. ReadManifest(c, Content, cid).cache = rememberManifest(c, cid, manifest)
    BY <1>2 DEF ReadManifest
  <2> HIDE DEF manifest
  <2> QED BY <2>1, <2>2, RememberKeeps
<1> QED BY <1>1, <1>2

\* Step 13 keeps the cache faithful and says what the content port says.
LEMMA ServeStep13Keeps ==
  ASSUME Typed, NEW c, Faithful(c), NEW cid \in Cids, NEW path
  PROVE  /\ Faithful(serveStep13(Content, cid, path, c).cache)
         /\ serveStep13(Content, cid, path, c).cache.generation = c.generation
         /\ IsFetch(serveStep13(Content, cid, path, c).answer.error, cid)
<1> DEFINE found == ReadManifest(c, Content, cid)
           names == indexCandidates(found.manifest)
           indexes == [i \in DOMAIN names |-> Append(path.segments, names[i])]
           asGiven == <<path.segments>>
           mapped == FirstAnswer(Content, cid,
                       IF path.slash THEN indexes \o asGiven ELSE asGiven \o indexes)
           served == serveStep13(Content, cid, path, c)
<1>1. Faithful(found.cache) /\ found.cache.generation = c.generation
  BY ReadManifestKeeps
<1>2. served.cache = c \/ served.cache = found.cache
  BY DEF serveStep13
<1>3. \/ served.answer = mapped
      \/ served.answer = DeclaredPage(Content, cid, found.manifest, mapped)
  BY DEF serveStep13
<1> HIDE DEF found, served
<1>4. IsFetch(mapped.error, cid)
  <2> DEFINE paths == IF path.slash THEN indexes \o asGiven ELSE asGiven \o indexes
  <2>1. DOMAIN paths # {}
    BY SomePath
  <2> HIDE DEF paths
  <2>2. IsFetch(FirstAnswer(Content, cid, paths).error, cid)
    BY <2>1, FirstAnswerIs
  <2> QED BY <2>2 DEF paths
<1> HIDE DEF mapped
<1>5. IsFetch(DeclaredPage(Content, cid, found.manifest, mapped).error, cid)
  BY <1>4, DeclaredPageIs
<1>6. Faithful(served.cache) /\ served.cache.generation = c.generation
  BY <1>1, <1>2
<1>7. IsFetch(served.answer.error, cid)
  BY <1>3, <1>4, <1>5
<1> QED BY <1>6, <1>7 DEF served

-----------------------------------------------------------------------------
(***************************************************************************)
(* The fallback loop over the sources of a record (proxy.ts).              *)
(***************************************************************************)
\* What is known after some of the sources were tried.
IsTry(t, g) ==
  /\ t \in [cache : Caches, type : {Missing, "ipns", "cid"}, failure : ResolveErrorName,
            fallbacks : {t.fallbacks}, done : BOOLEAN, cid : Cids \cup {Missing},
            page : {t.page}]
  /\ Faithful(t.cache) /\ t.cache.generation = g
  /\ g = registry.length => TrueLately(t.failure)

\* The failure kept under the key of a source is about the CID the source stands for.
LEMMA AboutTheAddressed ==
  ASSUME NEW record \in Recorded, NEW type \in {"ipns", "cid"},
         type \in DOMAIN record.entries, NEW cid \in Cids
  PROVE  About(contentCacheKey(type, record.entries[type]), cid) <=>
           Addressed(Content, record, type) = cid
<1> DEFINE value == record.entries[type]
<1>1. Content.pointers = [p \in {Pointer} |-> PointsTo]
  BY DEF Content, pointerFor
<1>2. PointsTo \in Cids /\ Missing \notin Cids
  BY SurfaceAssumption, ResolverAssumption
<1>3. CASE type = "cid"
  BY <1>3 DEF About, contentCacheKey, Addressed, sourceValueOf
<1>4. CASE type = "ipns"
  <2>1. Addressed(Content, record, type) = IF value = Pointer THEN PointsTo ELSE Missing
    BY <1>1, <1>4 DEF Addressed, sourceValueOf
  <2>2. About(contentCacheKey(type, value), cid) <=> cid = PointsTo /\ value = Pointer
    BY <1>4 DEF About, contentCacheKey
  <2> QED BY <1>2, <2>1, <2>2
<1> QED BY <1>3, <1>4

\* A source that parses stands for a CID or for none.
LEMMA AddressedIs ==
  ASSUME NEW record \in Recorded, NEW type \in {"ipns", "cid"},
         type \in DOMAIN record.entries, record.entries[type] # Malformed
  PROVE  Addressed(Content, record, type) \in Cids \cup {Missing}
<1>1. Content.pointers = [p \in {Pointer} |-> PointsTo]
  BY DEF Content, pointerFor
<1> QED BY <1>1, RecordedHas, SurfaceAssumption DEF Addressed, sourceValueOf

\* A source may be given up for a failure that is true.
LEMMA AbandonKeeps ==
  ASSUME NEW g, NEW t, IsTry(t, g), NEW error \in ResolveErrorName, NEW c, Faithful(c),
         c.generation = g, g = registry.length => TrueLately(error)
  PROVE  IsTry(Abandon(t, error, c), g) /\ Abandon(t, error, c).cid = t.cid
<1> DEFINE v == [t EXCEPT !.cache = c, !.failure = error,
                          !.fallbacks = Append(@, t.type)]
<1>1. c \in Caches
  BY DEF Faithful
<1>2. /\ v \in [cache : Caches, type : {Missing, "ipns", "cid"}, failure : ResolveErrorName,
                fallbacks : {v.fallbacks}, done : BOOLEAN, cid : Cids \cup {Missing},
                page : {v.page}]
      /\ v.cache = c /\ v.failure = error /\ v.cid = t.cid
  BY <1>1 DEF IsTry
<1> HIDE DEF v
<1>3. IsTry(v, g)
  BY <1>2 DEF IsTry
<1> QED BY <1>2, <1>3 DEF Abandon, v

\* What follows a fetch: the page, the end of the request, or the next source.
LEMMA AfterFetchKeeps ==
  ASSUME Typed, NEW g, NEW t, IsTry(t, g), NEW s, Faithful(s.cache),
         s.cache.generation = g, NEW cid \in Cids, IsFetch(s.answer.error, cid),
         NEW key \in {"content"} \X {"ipns", "cid"} \X Values,
         \A c \in Cids : About(key, c) => c = cid
  PROVE  /\ IsTry(AfterFetch(t, s, cid, key, now), g)
         /\ cid \in pinned /\ cid \in port.corrupt =>
              /\ AfterFetch(t, s, cid, key, now).done
              /\ AfterFetch(t, s, cid, key, now).cid = t.cid
<1> DEFINE error == s.answer.error
<1>1. error \in {"ok", "CONTENT_UNAVAILABLE", "CONTENT_INTEGRITY", "PATH_NOT_FOUND",
                 "RESPONSE_TOO_LARGE"}
  BY DEF IsFetch
<1>2. ASSUME NEW e \in {"CONTENT_UNAVAILABLE", "CONTENT_INTEGRITY", "PATH_NOT_FOUND",
                         "RESPONSE_TOO_LARGE"}
      PROVE  e \in ResolveErrorName /\ e \notin NameErrors /\ TrueLately(e)
  BY DEF ResolveErrorName, NameErrors, TrueLately
<1>3. s.cache \in Caches
  BY DEF Faithful
<1>4. CASE error = "ok"
  <2> DEFINE v == [t EXCEPT !.cache = s.cache, !.done = TRUE, !.cid = cid, !.page = s.answer]
  <2>1. AfterFetch(t, s, cid, key, now) = v
    BY <1>4 DEF AfterFetch
  <2>2. /\ v \in [cache : Caches, type : {Missing, "ipns", "cid"}, failure : ResolveErrorName,
                  fallbacks : {v.fallbacks}, done : BOOLEAN, cid : Cids \cup {Missing},
                  page : {v.page}]
        /\ v.cache = s.cache /\ v.failure = t.failure
    BY <1>3 DEF IsTry
  <2> HIDE DEF v
  <2>3. IsTry(v, g)
    BY <2>2 DEF IsTry
  <2>4. ~(cid \in pinned /\ cid \in port.corrupt)
    BY <1>4 DEF IsFetch
  <2> QED BY <2>1, <2>3, <2>4
<1>5. CASE error = "CONTENT_INTEGRITY"
  <2> DEFINE v == [t EXCEPT !.cache = s.cache, !.done = TRUE, !.failure = error]
  <2>1. AfterFetch(t, s, cid, key, now) = v
    BY <1>5 DEF AfterFetch, EndsTheRequest
  <2> HIDE DEF error
  <2>2. error \in ResolveErrorName /\ TrueLately(error)
    BY <1>2, <1>5
  <2>3. /\ v \in [cache : Caches, type : {Missing, "ipns", "cid"}, failure : ResolveErrorName,
                  fallbacks : {v.fallbacks}, done : BOOLEAN, cid : Cids \cup {Missing},
                  page : {v.page}]
        /\ v.cache = s.cache /\ v.failure = error /\ v.cid = t.cid /\ v.done
    BY <1>3, <2>2 DEF IsTry
  <2> HIDE DEF v
  <2>4. IsTry(v, g)
    BY <2>2, <2>3 DEF IsTry
  <2> QED BY <2>1, <2>3, <2>4
<1>6. CASE error \in {"CONTENT_UNAVAILABLE", "PATH_NOT_FOUND", "RESPONSE_TOO_LARGE"}
  <2> DEFINE d == putNegative(s.cache, key, error, now)
  <2>1. AfterFetch(t, s, cid, key, now) = Abandon(t, error, d)
    BY <1>6 DEF AfterFetch, EndsTheRequest
  <2>2. ~(cid \in pinned /\ cid \in port.corrupt)
    BY <1>6 DEF IsFetch
  <2>3. \A c \in Cids : About(key, c) =>
          IF error = "CONTENT_UNAVAILABLE" THEN c \notin pinned ELSE c \notin port.corrupt
    BY <1>6 DEF IsFetch
  <2> HIDE DEF error
  <2>4. error \in ResolveErrorName /\ error \notin NameErrors /\ TrueLately(error)
    BY <1>2, <1>6
  <2>5. Faithful(d) /\ d.generation = g
    <3>1. key \in Names \cup ({"content"} \X {"ipns", "cid"} \X Values) /\ now \in Nat
      BY DEF Typed
    <3> QED BY <2>3, <2>4, <3>1, PutNegativeKeeps
  <2> HIDE DEF d
  <2>6. IsTry(Abandon(t, error, d), g)
    BY <2>4, <2>5, AbandonKeeps
  <2> QED BY <2>1, <2>2, <2>6
<1> QED BY <1>1, <1>4, <1>5, <1>6

\* Trying a source keeps the cache faithful and its failure true; one whose bytes are
\* served and fail their hash is the last.
LEMMA TrySourceKeeps ==
  ASSUME Typed, NEW g, NEW before, IsTry(before, g), NEW record \in Recorded,
         NEW type \in {"ipns", "cid"}, type \in DOMAIN record.entries, NEW path
  PROVE  /\ IsTry(TrySource(before, type, record, path, Content, now), g)
         /\ /\ record.entries[type] # Malformed
            /\ Addressed(Content, record, type) \in port.corrupt \cap pinned
            => /\ TrySource(before, type, record, path, Content, now).done
               /\ TrySource(before, type, record, path, Content, now).cid = before.cid
<1> DEFINE try == [before EXCEPT !.type = type]
           value == record.entries[type]
           key == contentCacheKey(type, value)
           known == negative(try.cache, key, now)
           cid == Addressed(Content, record, type)
           unresolved == putNegative(known.cache, key, "IPNS_UNRESOLVED", now)
           served == serveStep13(Content, cid, path, known.cache)
           result == TrySource(before, type, record, path, Content, now)
<1>0. now \in Nat /\ pinned \subseteq Cids /\ Missing \notin Cids
  BY ResolverAssumption DEF Typed
<1>1. result = IF value = Malformed THEN Abandon(try, "NO_USABLE_RECORD", try.cache)
               ELSE IF known.error # Missing THEN Abandon(try, known.error, known.cache)
               ELSE IF cid = Missing THEN Abandon(try, "IPNS_UNRESOLVED", unresolved)
               ELSE AfterFetch(try, served, cid, key, now)
  BY DEF TrySource, sourceValueOf
<1>2. IsTry(try, g) /\ try.cid = before.cid
  <2>1. /\ try \in [cache : Caches, type : {Missing, "ipns", "cid"},
                    failure : ResolveErrorName, fallbacks : {try.fallbacks},
                    done : BOOLEAN, cid : Cids \cup {Missing}, page : {try.page}]
        /\ try.cache = before.cache /\ try.failure = before.failure /\ try.cid = before.cid
    BY DEF IsTry
  <2> HIDE DEF try
  <2> QED BY <2>1 DEF IsTry
<1> HIDE DEF try, result
<1>3. key \in {"content"} \X {"ipns", "cid"} \X Values
  BY DEF contentCacheKey, Values
<1>4. \A c \in Cids : About(key, c) <=> c = cid
  BY AboutTheAddressed
<1>5. value # Malformed => cid \in Cids \cup {Missing}
  BY AddressedIs
<1> HIDE DEF key, cid
<1>6. Faithful(try.cache) /\ try.cache.generation = g
  BY <1>2 DEF IsTry
<1>7. /\ Faithful(known.cache) /\ known.cache.generation = g
      /\ \/ known.error = Missing
         \/ \E i \in DOMAIN try.cache.negatives :
              /\ try.cache.negatives[i].key = key
              /\ try.cache.negatives[i].error = known.error
              /\ try.cache.negatives[i].expires > now
  BY <1>0, <1>6, NegativeKeeps
<1> HIDE DEF known
<1>8. /\ {"NO_USABLE_RECORD", "IPNS_UNRESOLVED"} \subseteq ResolveErrorName \ NameErrors
      /\ TrueLately("NO_USABLE_RECORD") /\ TrueLately("IPNS_UNRESOLVED")
  BY DEF ResolveErrorName, NameErrors, TrueLately
<1>9. SUFFICES /\ IsTry(result, g)
               /\ value # Malformed /\ cid \in port.corrupt \cap pinned =>
                    result.done /\ result.cid = before.cid
  BY DEF result, cid
<1>10. CASE value = Malformed
  <2>1. IsTry(Abandon(try, "NO_USABLE_RECORD", try.cache), g)
    BY <1>2, <1>6, <1>8, AbandonKeeps
  <2> QED BY <1>1, <1>10, <2>1
<1>11. CASE value # Malformed /\ known.error # Missing
  <2>1. PICK i \in DOMAIN try.cache.negatives :
              /\ try.cache.negatives[i].key = key
              /\ try.cache.negatives[i].error = known.error
              /\ try.cache.negatives[i].expires > now
    BY <1>7, <1>11
  <2> DEFINE e == try.cache.negatives[i]
  <2>2. e \in NegativeEntry
    <3>1. try.cache.negatives \in Seq(NegativeEntry)
      BY <1>6, CacheParts DEF Faithful
    <3> QED BY <3>1
  <2>3. StillFails(e) /\ (g = registry.length => TrueWhenKept(e))
    BY <1>6 DEF Faithful
  <2>4. e.key = key /\ e.error = known.error /\ e.expires > now
    BY <2>1
  <2> HIDE DEF e
  <2>5. known.error \in ResolveErrorName
    BY <2>2, <2>4 DEF NegativeEntry
  <2>6. g = registry.length => TrueLately(known.error)
    <3>1. g = registry.length => TrueLately(e.error)
      BY <1>0, <2>2, <2>3, <2>4, KeptIsTrueLately
    <3> QED BY <2>4, <3>1
  <2>7. IsTry(Abandon(try, known.error, known.cache), g)
    BY <1>2, <1>7, <2>5, <2>6, AbandonKeeps
  <2>8. cid \notin port.corrupt \cap pinned
    <3> SUFFICES ASSUME cid \in pinned PROVE cid \notin port.corrupt
      OBVIOUS
    <3>1. cid \in Cids /\ About(e.key, cid)
      BY <1>0, <1>4, <2>4
    <3> QED BY <2>3, <3>1 DEF StillFails
  <2> QED BY <1>1, <1>11, <2>7, <2>8
<1>12. CASE value # Malformed /\ known.error = Missing /\ cid = Missing
  <2>1. \A c \in Cids : About(key, c) =>
          IF "IPNS_UNRESOLVED" = "CONTENT_UNAVAILABLE" THEN c \notin pinned
          ELSE c \notin port.corrupt
    BY <1>0, <1>4, <1>12
  <2>2. Faithful(unresolved) /\ unresolved.generation = g
    <3>1. key \in Names \cup ({"content"} \X {"ipns", "cid"} \X Values)
      BY <1>3
    <3> QED BY <1>0, <1>7, <1>8, <2>1, <3>1, PutNegativeKeeps
  <2> HIDE DEF unresolved
  <2>3. IsTry(Abandon(try, "IPNS_UNRESOLVED", unresolved), g)
    BY <1>2, <1>8, <2>2, AbandonKeeps
  <2>4. cid \notin port.corrupt \cap pinned
    BY <1>0, <1>12
  <2> QED BY <1>1, <1>12, <2>3, <2>4
<1>13. CASE value # Malformed /\ known.error = Missing /\ cid # Missing
  <2>1. cid \in Cids
    BY <1>5, <1>13
  <2>2. Faithful(served.cache) /\ served.cache.generation = g
        /\ IsFetch(served.answer.error, cid)
    BY <1>7, <2>1, ServeStep13Keeps
  <2> HIDE DEF served
  <2>3. /\ IsTry(AfterFetch(try, served, cid, key, now), g)
        /\ cid \in pinned /\ cid \in port.corrupt =>
             /\ AfterFetch(try, served, cid, key, now).done
             /\ AfterFetch(try, served, cid, key, now).cid = try.cid
    BY <1>2, <1>3, <1>4, <2>1, <2>2, AfterFetchKeeps
  <2>4. result = AfterFetch(try, served, cid, key, now)
    BY <1>1, <1>13
  <2> QED BY <1>2, <2>3, <2>4
<1> QED BY <1>10, <1>11, <1>12, <1>13

\* g is what is known after each number of sources up to n.
IsTrying(g, start, sources, record, path, n) ==
  g = [i \in 0..n |->
         IF i = 0 THEN start
         ELSE IF g[i - 1].done THEN g[i - 1]
         ELSE TrySource(g[i - 1], sources[i], record, path, Content, now)]

\* The recursion of ServeRecord is well founded.
LEMMA TryingExists ==
  ASSUME NEW start, NEW sources, NEW record, NEW path, NEW n \in Nat
  PROVE  \E g : IsTrying(g, start, sources, record, path, n)
<1> DEFINE T == {k \in Nat : \E g : IsTrying(g, start, sources, record, path, k)}
<1>1. 0 \in T
  <2>1. IsTrying([i \in 0..0 |-> start], start, sources, record, path, 0)
    BY DEF IsTrying
  <2> QED BY <2>1
<1>2. ASSUME NEW k \in T PROVE k + 1 \in T
  <2>1. PICK g : IsTrying(g, start, sources, record, path, k)
    OBVIOUS
  <2> DEFINE Step(i, x) == IF x.done THEN x
                           ELSE TrySource(x, sources[i], record, path, Content, now)
             h == [i \in 0..(k + 1) |-> IF i = k + 1 THEN Step(k + 1, g[k]) ELSE g[i]]
  <2>2. \A i \in 0..k : g[i] = IF i = 0 THEN start ELSE Step(i, g[i - 1])
    BY <2>1 DEF IsTrying
  <2> HIDE DEF Step
  <2>3. h[k + 1] = Step(k + 1, g[k]) /\ \A i \in 0..k : h[i] = g[i]
    OBVIOUS
  <2>4. h = [i \in 0..(k + 1) |-> h[i]]
    OBVIOUS
  <2> HIDE DEF h
  <2>5. ASSUME NEW i \in 0..(k + 1)
        PROVE  h[i] = IF i = 0 THEN start ELSE Step(i, h[i - 1])
    <3>1. CASE i = k + 1
      BY <2>3, <3>1
    <3>2. CASE i # k + 1
      <4>1. i \in 0..k /\ (i # 0 => i - 1 \in 0..k)
        BY <3>2
      <4> QED BY <2>2, <2>3, <4>1
    <3> QED BY <3>1, <3>2
  <2>6. h = [i \in 0..(k + 1) |-> IF i = 0 THEN start ELSE Step(i, h[i - 1])]
    BY <2>4, <2>5
  <2>7. IsTrying(h, start, sources, record, path, k + 1)
    BY <2>6 DEF IsTrying, Step
  <2> QED BY <2>7
<1>3. T = Nat
  <2>1. T \in SUBSET Nat
    OBVIOUS
  <2> HIDE DEF T
  <2> QED BY <1>1, <1>2, <2>1, SetInduction
<1> QED BY <1>3

\* What a browser may be answered.
IsReply(a) ==
  /\ a.error \in NameErrors => TrueLately(a.error)
  /\ a.error = "ok" =>
       LET preferred == sourceCandidates(a.record)[1]
       IN  /\ InForce(a.name, a.record)
           /\ a.record.entries[preferred] # Malformed =>
                Addressed(Content, a.record, preferred) \notin port.corrupt \cap pinned

\* The last try decides the reply, and if the preferred source failed its hash it has no
\* page.
LEMMA ReplyIs ==
  ASSUME NEW t, IsTry(t, registry.length), NEW outcome,
         InForce(outcome.name, outcome.record),
         LET preferred == sourceCandidates(outcome.record)[1]
         IN  /\ outcome.record.entries[preferred] # Malformed
             /\ Addressed(Content, outcome.record, preferred) \in port.corrupt \cap pinned
             => t.cid = Missing
  PROVE  Reply(t, outcome).cache = t.cache /\ IsReply(Reply(t, outcome).answer)
<1> DEFINE a == Reply(t, outcome).answer
<1>1. Reply(t, outcome).cache = t.cache
  BY DEF Reply
<1>2. t.failure \in ResolveErrorName /\ TrueLately(t.failure)
  BY DEF IsTry
<1>3. "ok" \notin ResolveErrorName /\ "ok" \notin NameErrors
      /\ "BLOCKED_BY_POLICY" \notin NameErrors
  BY DEF ResolveErrorName, NameErrors
<1>4. \/ a.error = t.failure
      \/ a.error = "BLOCKED_BY_POLICY"
      \/ /\ t.cid # Missing /\ a.error = "ok"
         /\ a.name = outcome.name /\ a.record = outcome.record
  BY DEF Reply, Refusal
<1> SUFFICES IsReply(a)
  BY <1>1
<1> HIDE DEF a
<1>5. CASE a.error = t.failure
  BY <1>2, <1>3, <1>5 DEF IsReply
<1>6. CASE a.error = "BLOCKED_BY_POLICY"
  BY <1>3, <1>6 DEF IsReply
<1>7. CASE /\ t.cid # Missing /\ a.error = "ok"
           /\ a.name = outcome.name /\ a.record = outcome.record
  BY <1>3, <1>7 DEF IsReply
<1> QED BY <1>4, <1>5, <1>6, <1>7

\* Serving a record that is in force keeps the cache faithful, and the reply is true.
LEMMA ServeRecordKeeps ==
  ASSUME Typed, NEW c, Faithful(c), c.generation = registry.length, NEW outcome,
         outcome.record \in Recorded, Fetchable(outcome.record),
         InForce(outcome.name, outcome.record), NEW path
  PROVE  LET r == ServeRecord(outcome, path, Content, now, c)
         IN  /\ Faithful(r.cache)
             /\ r.cache.generation = registry.length
             /\ IsReply(r.answer)
<1> DEFINE record == outcome.record
           sources == sourceCandidates(record)
           n == Len(sources)
           start == [cache |-> c, type |-> Missing, failure |-> "NO_USABLE_RECORD",
                     fallbacks |-> <<>>, done |-> FALSE, cid |-> Missing, page |-> Missing]
           g == CHOOSE h : IsTrying(h, start, sources, record, path, n)
           Step(i, x) == TrySource(x, sources[i], record, path, Content, now)
           Hopeless == /\ record.entries[sources[1]] # Malformed
                       /\ Addressed(Content, record, sources[1]) \in port.corrupt \cap pinned
<1>1. ServeRecord(outcome, path, Content, now, c) = Reply(g[n], outcome)
  BY DEF ServeRecord, IsTrying
<1>2. IsTry(start, registry.length) /\ start.cid = Missing /\ ~start.done
  <2>1. "NO_USABLE_RECORD" \in ResolveErrorName /\ "NO_USABLE_RECORD" \notin NameErrors
    BY DEF ResolveErrorName, NameErrors
  <2>2. /\ start \in [cache : Caches, type : {Missing, "ipns", "cid"},
                      failure : ResolveErrorName, fallbacks : {start.fallbacks},
                      done : BOOLEAN, cid : Cids \cup {Missing}, page : {start.page}]
        /\ start.cache = c /\ start.failure = "NO_USABLE_RECORD"
        /\ start.cid = Missing /\ ~start.done
    BY <2>1 DEF Faithful
  <2> HIDE DEF start
  <2>3. TrueLately("NO_USABLE_RECORD")
    BY <2>1 DEF TrueLately
  <2> QED BY <2>2, <2>3 DEF IsTry
<1>3. /\ n \in {1, 2}
      /\ \A i \in 1..n : sources[i] \in {"ipns", "cid"} /\ sources[i] \in DOMAIN record.entries
  <2>1. DOMAIN record.entries \subseteq {"ipns", "cid", "alias"}
    BY RecordedHas
  <2> HIDE DEF record
  <2>2. sources # <<>> /\ sources[1] # "alias"
    BY DEF Fetchable, record
  <2>3. \/ sources = <<>>
        \/ n = 1 /\ sources[1] \in {"ipns", "cid", "alias"} \cap DOMAIN record.entries
        \/ /\ n = 2 /\ sources[1] = "ipns" /\ sources[2] = "cid"
           /\ {"ipns", "cid"} \subseteq DOMAIN record.entries
    BY <2>1, SourcesOfRecord
  <2> HIDE DEF sources
  <2> QED BY <2>2, <2>3
<1> HIDE DEF start
<1>4. IsTrying(g, start, sources, record, path, n)
  <2>1. n \in Nat
    BY <1>3
  <2> HIDE DEF n, sources, record
  <2>2. \E h : IsTrying(h, start, sources, record, path, n)
    BY <2>1, TryingExists
  <2> QED BY <2>2
<1> HIDE DEF g, sources, n, record
<1>5. /\ g[0] = start
      /\ \A i \in 1..n : g[i] = IF g[i - 1].done THEN g[i - 1] ELSE Step(i, g[i - 1])
  BY <1>3, <1>4 DEF IsTrying
<1>6. ASSUME NEW i \in 1..n, NEW x, IsTry(x, registry.length)
      PROVE  /\ IsTry(Step(i, x), registry.length)
             /\ i = 1 /\ Hopeless => Step(i, x).done /\ Step(i, x).cid = x.cid
  <2>1. record \in Recorded
    BY DEF record
  <2>2. sources[i] \in {"ipns", "cid"} /\ sources[i] \in DOMAIN record.entries
    BY <1>3
  <2> DEFINE type == sources[i]
  <2> HIDE DEF type
  <2>3. /\ IsTry(TrySource(x, type, record, path, Content, now), registry.length)
        /\ /\ record.entries[type] # Malformed
           /\ Addressed(Content, record, type) \in port.corrupt \cap pinned
           => /\ TrySource(x, type, record, path, Content, now).done
              /\ TrySource(x, type, record, path, Content, now).cid = x.cid
    BY <1>6, <2>1, <2>2, TrySourceKeeps DEF type
  <2> QED BY <2>3 DEF type
<1> HIDE DEF Step, Hopeless
<1>7. /\ g[1] = Step(1, start) /\ IsTry(g[1], registry.length)
      /\ Hopeless => g[1].done /\ g[1].cid = Missing
  <2>1. 1 \in 1..n /\ 1 - 1 = 0
    BY <1>3
  <2>2. g[1] = Step(1, start)
    BY <1>2, <1>5, <2>1
  <2> QED BY <1>2, <1>6, <2>1, <2>2
<1>8. IsTry(g[n], registry.length) /\ (Hopeless => g[n].cid = Missing)
  <2>1. CASE n = 1
    BY <1>7, <2>1
  <2>2. CASE n = 2
    <3>1. 2 \in 1..n /\ 2 - 1 = 1 /\ 2 # 1
      BY <2>2
    <3>2. g[2] = IF g[1].done THEN g[1] ELSE Step(2, g[1])
      BY <1>5, <3>1
    <3>3. IsTry(Step(2, g[1]), registry.length)
      BY <1>6, <1>7, <3>1
    <3> QED BY <1>7, <2>2, <3>2, <3>3
  <2> QED BY <1>3, <2>1, <2>2
<1>9. Reply(g[n], outcome).cache = g[n].cache /\ IsReply(Reply(g[n], outcome).answer)
  <2> DEFINE t == g[n]
  <2>1. IsTry(t, registry.length)
    BY <1>8
  <2>2. LET preferred == sourceCandidates(outcome.record)[1]
         IN  /\ outcome.record.entries[preferred] # Malformed
             /\ Addressed(Content, outcome.record, preferred) \in port.corrupt \cap pinned
             => t.cid = Missing
    BY <1>8 DEF Hopeless, sources, record
  <2> HIDE DEF t
  <2>3. Reply(t, outcome).cache = t.cache /\ IsReply(Reply(t, outcome).answer)
    BY <2>1, <2>2, ReplyIs
  <2> QED BY <2>3 DEF t
<1> QED BY <1>1, <1>8, <1>9 DEF IsTry

\* A refusal that is true is a reply.
LEMMA RefusalIs ==
  ASSUME NEW error, error # "ok", TrueLately(error)
  PROVE  IsReply(Refusal(error))
<1> DEFINE a == Refusal(error)
<1>1. a.error = error
  BY DEF Refusal
<1> HIDE DEF a
<1>2. IsReply(a)
  BY <1>1 DEF IsReply
<1> QED BY <1>2 DEF a

\* A request is answered truthfully, from a cache that was told of the registry as it is.
LEMMA HandleRequestKeeps ==
  ASSUME Typed, NEW c, Faithful(c), c.generation = registry.length,
         NEW request \in Requests
  PROVE  LET r == handleRequest(request, registry, Content, now, c)
         IN  /\ Faithful(r.cache)
             /\ r.cache.generation = registry.length
             /\ IsReply(r.answer)
<1> DEFINE host == requestHost(request)
           w == resolveName(host, registry, now, c)
           o == w.outcome
           blocked == [cache |-> c, answer |-> Refusal("BLOCKED_BY_POLICY")]
           invalid == [cache |-> c, answer |-> Refusal("LABEL_INVALID")]
           refused == [cache |-> w.cache, answer |-> Refusal(o.error)]
           served == ServeRecord(o, request.path, Content, now, w.cache)
           r == handleRequest(request, registry, Content, now, c)
<1>1. \/ r = blocked
      \/ r = invalid
      \/ host \notin {Missing, Malformed} /\ o.error # "ok" /\ r = refused
      \/ host \notin {Missing, Malformed} /\ o.error = "ok" /\ r = served
  BY DEF handleRequest, ServeResolved
<1>2. host \in Names \cup {Missing, Malformed}
  BY SurfaceAssumption
<1> HIDE DEF r, host
<1> SUFFICES Faithful(r.cache) /\ r.cache.generation = registry.length /\ IsReply(r.answer)
  BY DEF r
<1>3. \A e \in {"BLOCKED_BY_POLICY", "LABEL_INVALID", "none"} :
        e # "ok" /\ e \notin NameErrors /\ TrueLately(e)
  BY DEF NameErrors, TrueLately
<1>4. CASE r = blocked
  <2>1. IsReply(Refusal("BLOCKED_BY_POLICY"))
    BY <1>3, RefusalIs
  <2> QED BY <1>4, <2>1
<1>5. CASE r = invalid
  <2>1. IsReply(Refusal("LABEL_INVALID"))
    BY <1>3, RefusalIs
  <2> QED BY <1>5, <2>1
<1>6. ASSUME host \notin {Missing, Malformed}
      PROVE  /\ Faithful(w.cache) /\ w.cache.generation = registry.length
             /\ Truthful(o, registry.length)
  <2>1. host \in Names
    BY <1>2, <1>6
  <2>2. IsWalk(w, registry.length)
    BY <2>1, ResolveKeeps
  <2> HIDE DEF w
  <2> QED BY <2>2 DEF IsWalk
<1> HIDE DEF w
<1>7. None.error = "none"
  BY DEF None
<1>8. CASE host \notin {Missing, Malformed} /\ o.error # "ok" /\ r = refused
  <2>1. TrueLately(o.error)
    BY <1>3, <1>6, <1>7, <1>8 DEF Truthful
  <2>2. IsReply(Refusal(o.error))
    BY <1>8, <2>1, RefusalIs
  <2> QED BY <1>6, <1>8, <2>2
<1>9. CASE host \notin {Missing, Malformed} /\ o.error = "ok" /\ r = served
  <2>1. "ok" \notin ResolveErrorName
    BY DEF ResolveErrorName, NameErrors
  <2>2. /\ o.record \in Recorded /\ Fetchable(o.record)
        /\ InForce(o.name, o.record)
    BY <1>6, <1>7, <1>9, <2>1 DEF Truthful
  <2> DEFINE d == w.cache
             path == request.path
  <2>3. Faithful(d) /\ d.generation = registry.length
    BY <1>6, <1>9
  <2>4. r = ServeRecord(o, path, Content, now, d)
    BY <1>9
  <2> HIDE DEF o, d, path
  <2>5. LET s == ServeRecord(o, path, Content, now, d)
        IN  Faithful(s.cache) /\ s.cache.generation = registry.length /\ IsReply(s.answer)
    BY <2>2, <2>3, ServeRecordKeeps
  <2> QED BY <2>4, <2>5
<1> QED BY <1>1, <1>4, <1>5, <1>8, <1>9

-----------------------------------------------------------------------------
(***************************************************************************)
(* The steps of the process.                                               *)
(***************************************************************************)
\* A step that leaves pinned what a kept failure says is not, and the registry unchanged
\* or longer than the cache was told, keeps a faithful cache faithful.
LEMMA FaithfulNext ==
  ASSUME NEW d, Faithful(d), cache' = d, port' = port, now \in Nat,
         \A i \in DOMAIN d.negatives : \A cid \in Cids :
           /\ d.negatives[i].error = "CONTENT_UNAVAILABLE"
           /\ About(d.negatives[i].key, cid)
           => cid \notin pinned',
         \/ registry' = registry /\ now' \in {now, now + 1}
         \/ d.generation # registry'.length
  PROVE  Faithful(cache)'
<1>1. /\ d \in Caches
      /\ Bounded(d.negatives, d.limits.negativeEntries)
      /\ Bounded(d.positives, d.limits.positiveEntries)
      /\ Bounded(d.manifests, d.limits.manifestEntries)
  BY DEF Faithful
<1>2. \A i \in DOMAIN d.negatives : \A cid \in Cids : About(d.negatives[i].key, cid) =>
        IF d.negatives[i].error = "CONTENT_UNAVAILABLE" THEN cid \notin pinned'
        ELSE cid \notin port.corrupt
  BY DEF Faithful, StillFails
<1>3. \A i \in DOMAIN cache'.negatives : StillFails(cache.negatives[i])'
  BY <1>2 DEF StillFails
<1>4. ASSUME cache'.generation = registry'.length
      PROVE  /\ \A i \in DOMAIN cache'.positives : Vouched(cache.positives[i])'
             /\ \A i \in DOMAIN cache'.negatives : TrueWhenKept(cache.negatives[i])'
  <2>1. registry' = registry /\ now' \in {now, now + 1} /\ d.generation = registry.length
    BY <1>4
  <2>2. ASSUME NEW i \in DOMAIN cache'.positives PROVE Vouched(cache.positives[i])'
    <3> DEFINE e == d.positives[i]
    <3>1. e \in PositiveEntry
      <4>1. d.positives \in Seq(PositiveEntry)
        BY <1>1, CacheParts
      <4> QED BY <2>2, <4>1
    <3>2. e.expires \in Nat
      BY <3>1 DEF PositiveEntry
    <3>3. Vouched(e)
      BY <2>1, <2>2 DEF Faithful
    <3> HIDE DEF e
    <3>4. \A at \in now'..(e.expires - 1) : at \in now..(e.expires - 1)
      BY <2>1, <3>2
    <3>5. /\ registry'.records[e.key] = e.record
          /\ \A at \in now'..(e.expires - 1) : stateAt(e.record, at) = "LIVE"
      BY <2>1, <3>3, <3>4 DEF Vouched
    <3> QED BY <3>5 DEF Vouched, e
  <2>3. ASSUME NEW i \in DOMAIN cache'.negatives PROVE TrueWhenKept(cache.negatives[i])'
    <3> DEFINE e == d.negatives[i]
    <3>1. TrueWhenKept(e)
      BY <2>1, <2>3 DEF Faithful
    <3> HIDE DEF e
    <3>2. \A at \in 0..now : at \in 0..now'
      BY <2>1
    <3>3. e.error \in NameErrors =>
            \E name \in Names, at \in 0..now' :
              /\ e.expires = at + NEGATIVE_TTL_SECONDS[e.error]
              /\ RegistryVerdict(registry', name, at) = e.error
      BY <2>1, <3>1, <3>2 DEF TrueWhenKept
    <3> QED BY <3>3 DEF TrueWhenKept, e
  <2> QED BY <2>2, <2>3
<1> QED BY <1>1, <1>3, <1>4 DEF Faithful

\* What the invariant says besides its types, of a step that answers no browser.
LEMMA NoAnswerKeeps ==
  ASSUME answer' = NoAnswer
  PROVE  (PagesAreCurrent /\ RefusalsWereTrue /\ NoDowngrade)'
<1>1. answer'.error \notin NameErrors /\ answer'.error # "ok"
  BY DEF NoAnswer, NameErrors
<1> QED BY <1>1 DEF PagesAreCurrent, RefusalsWereTrue, NoDowngrade

\* What the lemmas above ask of a state of the process.
LEMMA SurfaceIsTyped ==
  ASSUME SurfaceInv
  PROVE  /\ Typed
         /\ Faithful(cache) /\ cache \in Caches
         /\ cache.generation \in Int /\ cache.generation <= registry.length
<1>1. registry.length \in Nat /\ now \in Nat
  BY SurfaceAssumption DEF SurfaceInv, TypeOK
<1>2. cache \in Caches
  BY DEF SurfaceInv, TypeOK
<1>3. cache.generation \in Int
  BY <1>2, CacheParts
<1>4. port.tells \/ port.corrupt = {}
  <2>1. SitePort.corrupt = {}
    BY DEF SitePort
  <2>2. port = SitePort \/ port \in OtherPorts
    BY DEF SurfaceInv, TypeOK
  <2> QED BY <2>1, <2>2, SurfaceAssumption
<1> QED BY <1>1, <1>2, <1>3, <1>4 DEF SurfaceInv, TypeOK, Typed

\* A step of the control API that changes only the cache.
LEMMA CacheStep ==
  ASSUME SurfaceInv, NEW d, Faithful(d), d.generation <= registry.length, cache' = d,
         UNCHANGED <<registry, pinned, port, token, diagnostics, now>>,
         (PagesAreCurrent /\ RefusalsWereTrue /\ NoDowngrade)'
  PROVE  SurfaceInv'
<1>1. Typed
  BY SurfaceIsTyped
<1>2. \A i \in DOMAIN d.negatives : \A cid \in Cids :
           /\ d.negatives[i].error = "CONTENT_UNAVAILABLE"
           /\ About(d.negatives[i].key, cid)
           => cid \notin pinned'
  BY DEF Faithful, StillFails
<1>3. Faithful(cache)'
  BY <1>1, <1>2, FaithfulNext DEF Typed
<1>4. TypeOK'
  BY DEF SurfaceInv, TypeOK, Faithful
<1> QED BY <1>3, <1>4 DEF SurfaceInv

\* A browser is answered from a cache told of the registry first.
LEMMA ProxyRequestStep ==
  ASSUME SurfaceInv, NEW request \in Requests, ProxyRequest(request)
  PROVE  SurfaceInv'
<1> DEFINE told == setGeneration(cache, registry.length)
           served == handleRequest(request, registry, Content, now, told)
<1>1. Typed /\ Faithful(cache) /\ registry.length \in Nat
  BY SurfaceIsTyped DEF Typed
<1>2. Faithful(told) /\ told.generation = registry.length
  BY <1>1, SetGenerationKeeps
<1>3. /\ cache' = served.cache /\ answer' = served.answer
      /\ UNCHANGED <<registry, pinned, port, token, diagnostics, now>>
  BY DEF ProxyRequest
<1> HIDE DEF told
<1>4. /\ Faithful(served.cache) /\ served.cache.generation = registry.length
      /\ IsReply(served.answer)
  BY <1>1, <1>2, HandleRequestKeeps
<1> HIDE DEF served
<1>5. IsReply(answer')
  BY <1>3, <1>4
<1>6. (PagesAreCurrent /\ RefusalsWereTrue)'
  BY <1>3, <1>5 DEF IsReply, InForce, TrueLately, PagesAreCurrent, RefusalsWereTrue
<1>7. NoDowngrade'
  <2>1. Content' = Content
    BY <1>3 DEF Content
  <2> QED BY <1>3, <1>5, <2>1 DEF IsReply, NoDowngrade
<1>8. served.cache.generation <= registry.length
  BY <1>1, <1>4
<1> QED BY <1>3, <1>4, <1>6, <1>7, <1>8, CacheStep

\* Resolving through the control API may use a cache that is behind.
LEMMA ControlResolveStep ==
  ASSUME SurfaceInv, NEW presented, NEW name \in Names, ControlResolve(presented, name)
  PROVE  SurfaceInv'
<1> DEFINE w == resolveName(name, registry, now, cache)
<1>1. Typed /\ Faithful(cache) /\ cache.generation <= registry.length
  BY SurfaceIsTyped
<1>2. IsWalk(w, cache.generation)
  BY <1>1, ResolveKeeps
<1>3. /\ cache' = w.cache /\ answer' = NoAnswer
      /\ UNCHANGED <<registry, pinned, port, token, diagnostics, now>>
  BY DEF ControlResolve, Control
<1> HIDE DEF w
<1>4. Faithful(w.cache) /\ w.cache.generation <= registry.length
  BY <1>1, <1>2 DEF IsWalk
<1> QED BY <1>3, <1>4, NoAnswerKeeps, CacheStep

\* Flushing a name.
LEMMA FlushNameStep ==
  ASSUME SurfaceInv, NEW presented, NEW name \in Names, FlushName(presented, name)
  PROVE  SurfaceInv'
<1> DEFINE keys == {name} \cup sourcesOf(registry.records[name])
           d == forget(cache, keys)
<1>1. Faithful(cache) /\ cache.generation <= registry.length
  BY SurfaceIsTyped
<1>2. /\ cache' = d /\ answer' = NoAnswer
      /\ UNCHANGED <<registry, pinned, port, token, diagnostics, now>>
  BY DEF FlushName, Control
<1> HIDE DEF keys
<1>3. Faithful(d) /\ d.generation <= registry.length
  BY <1>1, ForgetKeeps
<1> HIDE DEF d
<1> QED BY <1>2, <1>3, NoAnswerKeeps, CacheStep

\* Flushing everything.
LEMMA FlushAllStep ==
  ASSUME SurfaceInv, NEW presented, FlushAll(presented)
  PROVE  SurfaceInv'
<1>1. Faithful(cache) /\ cache.generation <= registry.length
  BY SurfaceIsTyped
<1>2. /\ cache' = clear(cache) /\ answer' = NoAnswer
      /\ UNCHANGED <<registry, pinned, port, token, diagnostics, now>>
  BY DEF FlushAll, Control
<1>3. Faithful(clear(cache)) /\ clear(cache).generation <= registry.length
  BY <1>1, ClearKeeps
<1> QED BY <1>2, <1>3, NoAnswerKeeps, CacheStep

\* Resizing trims at once.
LEMMA PatchSizesStep ==
  ASSUME SurfaceInv, NEW presented, NEW sizes, PatchSizes(presented, sizes)
  PROVE  SurfaceInv'
<1>1. Faithful(cache) /\ cache.generation <= registry.length
  BY SurfaceIsTyped
<1>2. /\ cache' = setLimits(cache, sizes) /\ answer' = NoAnswer
      /\ DOMAIN sizes \subseteq Fields
      /\ \A field \in DOMAIN sizes : sizes[field] \in 1..CACHE_CEILINGS[field]
      /\ UNCHANGED <<registry, pinned, port, token, diagnostics, now>>
  BY DEF PatchSizes, Control
<1>3. Faithful(setLimits(cache, sizes)) /\ setLimits(cache, sizes).generation <= registry.length
  BY <1>1, <1>2, SetLimitsKeeps
<1> QED BY <1>2, <1>3, NoAnswerKeeps, CacheStep

\* Failures about the pinned CID are forgotten with the step that pins it.
LEMMA PinStep ==
  ASSUME SurfaceInv, NEW presented, NEW cid \in Cids, Pin(presented, cid)
  PROVE  SurfaceInv'
<1> DEFINE keys == relatedSourcesFor(cid)
           d == forget(cache, keys)
<1>1. Typed /\ Faithful(cache) /\ cache \in Caches /\ cache.generation <= registry.length
  BY SurfaceIsTyped
<1>2. /\ cache' = d /\ answer' = NoAnswer /\ pinned' = pinned \cup {cid}
      /\ PinOutcome(cid) = "pinned"
      /\ UNCHANGED <<registry, port, token, diagnostics, now>>
  BY DEF Pin, Control
<1>3. cid \notin pinned /\ cid \in port.holds /\ ~(Cardinality(pinned) >= PIN_LIMIT)
  BY <1>2 DEF PinOutcome
<1>4. \A key : About(key, cid) => key \in keys
  BY DEF About, relatedSourcesFor
<1> HIDE DEF keys
<1>5. Faithful(d) /\ d.generation = cache.generation
      /\ d.negatives = Without(cache.negatives, keys)
  BY <1>1, ForgetKeeps
<1> HIDE DEF d
<1>6. \A i \in DOMAIN d.negatives : d.negatives[i].key \notin keys
  <2>1. cache.negatives \in Seq(NegativeEntry) /\ Distinct(cache.negatives)
    BY <1>1, CacheParts DEF Faithful, Bounded, Distinct
  <2> QED BY <1>5, <2>1, WithoutMap
<1>7. \A i \in DOMAIN d.negatives : \A c \in Cids :
           /\ d.negatives[i].error = "CONTENT_UNAVAILABLE"
           /\ About(d.negatives[i].key, c)
           => c \notin pinned'
  <2> SUFFICES ASSUME NEW i \in DOMAIN d.negatives, NEW c \in Cids,
                      d.negatives[i].error = "CONTENT_UNAVAILABLE",
                      About(d.negatives[i].key, c)
               PROVE  c \notin pinned'
    OBVIOUS
  <2>1. c \notin pinned
    BY <1>5 DEF Faithful, StillFails
  <2>2. c # cid
    BY <1>4, <1>6
  <2> QED BY <1>2, <2>1, <2>2
<1>8. Faithful(cache)'
  BY <1>1, <1>2, <1>5, <1>7, FaithfulNext DEF Typed
<1>9. TypeOK'
  <2>1. IsFiniteSet(pinned) /\ Cardinality(pinned) \in Nat /\ pinned \subseteq port.holds \cap Cids
    BY FS_CardinalityType DEF SurfaceInv, TypeOK
  <2>2. IsFiniteSet(pinned') /\ Cardinality(pinned') = Cardinality(pinned) + 1
    BY <1>2, <1>3, <2>1, FS_AddElement
  <2>3. Cardinality(pinned') <= PIN_LIMIT
    BY <1>3, <2>1, <2>2, SurfaceAssumption
  <2>4. pinned' \subseteq port.holds \cap Cids
    BY <1>2, <1>3, <2>1
  <2> QED BY <1>2, <1>5, <2>2, <2>3, <2>4 DEF SurfaceInv, TypeOK, Faithful
<1> QED BY <1>1, <1>2, <1>5, <1>8, <1>9, NoAnswerKeeps DEF SurfaceInv

\* A CID that is no longer pinned contradicts no failure.
LEMMA UnpinStep ==
  ASSUME SurfaceInv, NEW presented, NEW cid \in Cids, Unpin(presented, cid)
  PROVE  SurfaceInv'
<1> DEFINE keys == relatedSourcesFor(cid)
           d == forget(cache, keys)
<1>1. Typed /\ Faithful(cache) /\ cache.generation <= registry.length
  BY SurfaceIsTyped
<1>2. /\ cache' = d /\ answer' = NoAnswer /\ pinned' = pinned \ {cid} /\ cid \in pinned
      /\ UNCHANGED <<registry, port, token, diagnostics, now>>
  BY DEF Unpin, Control
<1> HIDE DEF keys
<1>3. Faithful(d) /\ d.generation = cache.generation
  BY <1>1, ForgetKeeps
<1> HIDE DEF d
<1>4. \A i \in DOMAIN d.negatives : \A c \in Cids :
           /\ d.negatives[i].error = "CONTENT_UNAVAILABLE"
           /\ About(d.negatives[i].key, c)
           => c \notin pinned'
  BY <1>2, <1>3 DEF Faithful, StillFails
<1>5. Faithful(cache)'
  BY <1>1, <1>2, <1>3, <1>4, FaithfulNext DEF Typed
<1>6. TypeOK'
  <2>1. IsFiniteSet(pinned) /\ Cardinality(pinned) \in Nat /\ pinned \subseteq port.holds \cap Cids
        /\ Cardinality(pinned) <= PIN_LIMIT
    BY FS_CardinalityType DEF SurfaceInv, TypeOK
  <2>2. IsFiniteSet(pinned') /\ Cardinality(pinned') = Cardinality(pinned) - 1
    BY <1>2, <2>1, FS_RemoveElement
  <2>3. Cardinality(pinned') <= PIN_LIMIT
    BY <2>1, <2>2, SurfaceAssumption
  <2>4. pinned' \subseteq port.holds \cap Cids
    BY <1>2, <2>1
  <2> QED BY <1>2, <1>3, <2>2, <2>3, <2>4 DEF SurfaceInv, TypeOK, Faithful
<1> QED BY <1>1, <1>2, <1>3, <1>5, <1>6, NoAnswerKeeps DEF SurfaceInv

\* A step that leaves the cache, and what the cache is about, as they are.
LEMMA SideStep ==
  ASSUME SurfaceInv, UNCHANGED <<registry, cache, pinned, port, now>>,
         token' \in 1..MaxTokens, diagnostics' \in BOOLEAN, answer' = NoAnswer
  PROVE  SurfaceInv'
<1>1. Typed /\ Faithful(cache)
  BY SurfaceIsTyped
<1>2. \A i \in DOMAIN cache.negatives : \A cid \in Cids :
           /\ cache.negatives[i].error = "CONTENT_UNAVAILABLE"
           /\ About(cache.negatives[i].key, cid)
           => cid \notin pinned'
  BY <1>1 DEF Faithful, StillFails
<1>3. Faithful(cache)'
  BY <1>1, <1>2, FaithfulNext DEF Typed
<1>4. TypeOK'
  BY DEF SurfaceInv, TypeOK
<1> QED BY <1>3, <1>4, NoAnswerKeeps DEF SurfaceInv

\* A new token.
LEMMA RotateTokenStep ==
  ASSUME SurfaceInv, NEW presented, RotateToken(presented)
  PROVE  SurfaceInv'
<1>1. /\ UNCHANGED <<registry, cache, pinned, port, diagnostics, now>>
      /\ answer' = NoAnswer /\ token' = token + 1 /\ token < MaxTokens
  BY DEF RotateToken, Control
<1>2. token \in 1..MaxTokens /\ diagnostics \in BOOLEAN
  BY DEF SurfaceInv, TypeOK
<1>3. token' \in 1..MaxTokens
  BY <1>1, <1>2, SurfaceAssumption
<1> QED BY <1>1, <1>2, <1>3, SideStep

\* Diagnostic headers on or off.
LEMMA SetDiagnosticsStep ==
  ASSUME SurfaceInv, NEW presented, NEW on \in BOOLEAN, SetDiagnostics(presented, on)
  PROVE  SurfaceInv'
<1>1. /\ UNCHANGED <<registry, cache, pinned, port, token, now>>
      /\ answer' = NoAnswer /\ diagnostics' \in BOOLEAN
  BY DEF SetDiagnostics, Control
<1>2. token' \in 1..MaxTokens
  BY <1>1 DEF SurfaceInv, TypeOK
<1> QED BY <1>1, <1>2, SideStep

\* A registry that grew is one the cache was not told of.
LEMMA RegistryAppendStep ==
  ASSUME SurfaceInv, NEW append \in Appends, RegistryAppend(append)
  PROVE  SurfaceInv'
<1>1. Typed /\ Faithful(cache) /\ cache.generation \in Int
      /\ cache.generation <= registry.length
  BY SurfaceIsTyped
<1>2. /\ registry' = [records |-> [registry.records EXCEPT ![append.name] = append.record],
                      length |-> registry.length + 1]
      /\ registry.length < MaxAppends /\ answer' = NoAnswer
      /\ UNCHANGED <<cache, pinned, port, token, diagnostics, now>>
  BY DEF RegistryAppend
<1>3. registry'.length = registry.length + 1 /\ registry.length \in Nat
  BY <1>1, <1>2 DEF Typed
<1>4. registry'.records \in [Names -> Recorded \cup {Missing}]
  <2>1. append.name \in Names /\ append.record \in Recorded
    BY AppendsAssumption DEF Recorded
  <2> QED BY <1>1, <1>2, <2>1 DEF Typed
<1>5. cache.generation # registry'.length /\ cache.generation <= registry'.length
  BY <1>1, <1>3
<1>6. \A i \in DOMAIN cache.negatives : \A cid \in Cids :
           /\ cache.negatives[i].error = "CONTENT_UNAVAILABLE"
           /\ About(cache.negatives[i].key, cid)
           => cid \notin pinned'
  BY <1>1, <1>2 DEF Faithful, StillFails
<1>7. Faithful(cache)'
  BY <1>1, <1>2, <1>5, <1>6, FaithfulNext DEF Typed
<1>8. TypeOK'
  <2>1. registry'.length \in 0..MaxAppends
    BY <1>2, <1>3, SurfaceAssumption
  <2> QED BY <1>2, <1>4, <2>1 DEF SurfaceInv, TypeOK
<1> QED BY <1>2, <1>5, <1>7, <1>8, NoAnswerKeeps DEF SurfaceInv

\* Time passes: what was vouched for until a moment is so until that moment.
LEMMA TickStep ==
  ASSUME SurfaceInv, Tick
  PROVE  SurfaceInv'
<1>1. Typed /\ Faithful(cache)
  BY SurfaceIsTyped
<1>2. /\ now' = now + 1 /\ now < MaxTime /\ answer' = NoAnswer
      /\ UNCHANGED <<registry, cache, pinned, port, token, diagnostics>>
  BY DEF Tick
<1>3. \A i \in DOMAIN cache.negatives : \A cid \in Cids :
           /\ cache.negatives[i].error = "CONTENT_UNAVAILABLE"
           /\ About(cache.negatives[i].key, cid)
           => cid \notin pinned'
  BY <1>1, <1>2 DEF Faithful, StillFails
<1>4. Faithful(cache)'
  BY <1>1, <1>2, <1>3, FaithfulNext DEF Typed
<1>5. TypeOK'
  <2>1. now' \in 0..MaxTime
    BY <1>1, <1>2, SurfaceAssumption DEF Typed
  <2> QED BY <1>2, <2>1 DEF SurfaceInv, TypeOK
<1> QED BY <1>2, <1>4, <1>5, NoAnswerKeeps DEF SurfaceInv

\* Every operation of the control API.
LEMMA ControlRequestStep ==
  ASSUME SurfaceInv, NEW presented, ControlRequest(presented)
  PROVE  SurfaceInv'
<1>1. CASE \E name \in Names : ControlResolve(presented, name)
  BY <1>1, ControlResolveStep
<1>2. CASE \E name \in Names : FlushName(presented, name)
  BY <1>2, FlushNameStep
<1>3. CASE \E cid \in Cids : Pin(presented, cid)
  BY <1>3, PinStep
<1>4. CASE \E cid \in Cids : Unpin(presented, cid)
  BY <1>4, UnpinStep
<1>5. CASE FlushAll(presented)
  BY <1>5, FlushAllStep
<1>6. CASE \E sizes \in Sizes : PatchSizes(presented, sizes)
  BY <1>6, PatchSizesStep
<1>7. CASE RotateToken(presented)
  BY <1>7, RotateTokenStep
<1>8. CASE \E on \in BOOLEAN : SetDiagnostics(presented, on)
  BY <1>8, SetDiagnosticsStep
<1> QED BY <1>1, <1>2, <1>3, <1>4, <1>5, <1>6, <1>7, <1>8 DEF ControlRequest

\* The empty cache of a process that starts.
LEMMA InitSurface ==
  ASSUME Init
  PROVE  SurfaceInv
<1> DEFINE c == EmptyCache(InitialLimits)
<1>1. /\ c.negatives = <<>> /\ c.positives = <<>> /\ c.manifests = <<>>
      /\ c.limits = InitialLimits /\ c.generation = -1
      /\ c = [negatives |-> <<>>, positives |-> <<>>, manifests |-> <<>>,
              limits |-> InitialLimits, generation |-> -1]
  BY DEF EmptyCache, NoGeneration
<1>2. /\ <<>> \in Seq(NegativeEntry) /\ <<>> \in Seq(PositiveEntry)
      /\ <<>> \in Seq(ManifestEntry) /\ InitialLimits \in [Fields -> Nat \ {0}]
  BY SurfaceAssumption
<1>3. c \in Caches
  BY <1>1, <1>2 DEF Caches, NoGeneration
<1>4. /\ cache = c /\ answer = NoAnswer /\ registry.length = 0 /\ now = 0 /\ token = 1
      /\ registry.records = [n \in Names |-> Missing] /\ pinned = {PointsTo}
      /\ port \in {SitePort} \cup OtherPorts /\ diagnostics = FALSE
  BY DEF Init
<1> HIDE DEF c
<1>5. Faithful(cache)
  <2>1. /\ Bounded(c.negatives, c.limits.negativeEntries)
        /\ Bounded(c.positives, c.limits.positiveEntries)
        /\ Bounded(c.manifests, c.limits.manifestEntries)
        /\ DOMAIN c.negatives = {} /\ DOMAIN c.positives = {}
    <3>1. /\ c.limits.negativeEntries \in Nat /\ c.limits.positiveEntries \in Nat
          /\ c.limits.manifestEntries \in Nat
      BY <1>3, CacheParts
    <3> QED BY <1>1, <3>1, EmptyMap
  <2> QED BY <1>3, <1>4, <2>1 DEF Faithful
<1>6. TypeOK
  <2>1. IsFiniteSet(pinned) /\ Cardinality(pinned) = 1 /\ pinned \subseteq port.holds \cap Cids
    BY <1>4, SurfaceAssumption, FS_Singleton
  <2>2. Cardinality(pinned) <= PIN_LIMIT
    BY <2>1, SurfaceAssumption
  <2>3. registry.length \in 0..MaxAppends /\ now \in 0..MaxTime /\ token \in 1..MaxTokens
    BY <1>4, SurfaceAssumption
  <2> QED BY <1>3, <1>4, <2>1, <2>2, <2>3 DEF TypeOK
<1>7. cache.generation <= registry.length
  BY <1>1, <1>4
<1>8. answer.error \notin NameErrors /\ answer.error # "ok"
  BY <1>4 DEF NoAnswer, NameErrors
<1>9. PagesAreCurrent /\ RefusalsWereTrue /\ NoDowngrade
  BY <1>8 DEF PagesAreCurrent, RefusalsWereTrue, NoDowngrade
<1> QED BY <1>5, <1>6, <1>7, <1>9 DEF SurfaceInv

\* A step that changes nothing.
LEMMA StutterStep ==
  ASSUME SurfaceInv, UNCHANGED vars
  PROVE  SurfaceInv'
<1>1. UNCHANGED <<registry, cache, pinned, port, token, diagnostics, now, answer>>
  BY DEF vars
<1>2. Content' = Content
  BY <1>1 DEF Content
<1>3. (PagesAreCurrent /\ RefusalsWereTrue /\ NoDowngrade)'
  BY <1>1, <1>2 DEF SurfaceInv, PagesAreCurrent, RefusalsWereTrue, NoDowngrade
<1>4. Faithful(cache) /\ cache.generation <= registry.length
  BY SurfaceIsTyped
<1> QED BY <1>1, <1>3, <1>4, CacheStep

\* Every step.
LEMMA NextSurface ==
  SurfaceInv /\ [Next]_vars => SurfaceInv'
<1> SUFFICES ASSUME SurfaceInv, [Next]_vars PROVE SurfaceInv'
  OBVIOUS
<1>1. CASE \E request \in Requests : ProxyRequest(request)
  BY <1>1, ProxyRequestStep
<1>2. CASE \E presented \in 1..MaxTokens : ControlRequest(presented)
  BY <1>2, ControlRequestStep
<1>3. CASE \E append \in Appends : RegistryAppend(append)
  BY <1>3, RegistryAppendStep
<1>4. CASE Tick
  BY <1>4, TickStep
<1>5. CASE UNCHANGED vars
  BY <1>5, StutterStep
<1> QED BY <1>1, <1>2, <1>3, <1>4, <1>5 DEF Next

-----------------------------------------------------------------------------
(***************************************************************************)
(* What holds in every state.                                              *)
(***************************************************************************)

\* The inductive invariant: whatever browsers ask, the control API is told and the
\* registry comes to hold, the cache keeps no more than its bounds, every record it keeps
\* is in force and every refusal was true of the registry it was last told of
\* (setGeneration in cache.ts), and every failure of a source it keeps still stands
\* (pinPorts in cli.ts).
THEOREM SurfaceInvariant == Spec => []SurfaceInv
<1>1. Init => SurfaceInv
  BY InitSurface
<1> QED BY <1>1, NextSurface, PTL DEF Spec

\* The types of the process, the bound on its pins among them: a pin is taken only for
\* content the node holds, and never past PIN_LIMITS.entries (PinSet.add in pins.ts).
THEOREM SurfaceTypeCorrect == Spec => []TypeOK
<1>1. SurfaceInv => TypeOK
  BY DEF SurfaceInv
<1> QED BY <1>1, SurfaceInvariant, PTL

\* A page is served only from the record that holds its name at this moment and is live
\* (resolveName in resolve.ts over the cache of cache.ts), however the registry grew, the
\* clock moved and the cache was resized or flushed before.
THEOREM PagesAreCurrentHolds == Spec => []PagesAreCurrent
<1>1. SurfaceInv => PagesAreCurrent
  BY DEF SurfaceInv
<1> QED BY <1>1, SurfaceInvariant, PTL

\* A refusal of a name was true of the registry as it is within the time to live of its
\* error (putNegative and setGeneration in cache.ts).
THEOREM RefusalsWereTrueHolds == Spec => []RefusalsWereTrue
<1>1. SurfaceInv => RefusalsWereTrue
  BY DEF SurfaceInv
<1> QED BY <1>1, SurfaceInvariant, PTL

\* Content that fails its hash is never a reason to serve another source of the record
\* (the fallback loop of handleRequest in proxy.ts).
THEOREM NoDowngradeHolds == Spec => []NoDowngrade
<1>1. SurfaceInv => NoDowngrade
  BY DEF SurfaceInv
<1> QED BY <1>1, SurfaceInvariant, PTL

\* Pinning takes effect at once: no failure kept in the cache says that pinned content is
\* unavailable (pinPorts and relatedSourcesFor in cli.ts).
THEOREM NoStaleOutageHolds == Spec => []NoStaleOutage
<1>1. SurfaceInv => NoStaleOutage
  <2> SUFFICES ASSUME SurfaceInv, NEW i \in DOMAIN cache.negatives,
                      cache.negatives[i].error = "CONTENT_UNAVAILABLE", NEW cid \in pinned
               PROVE  ~About(cache.negatives[i].key, cid)
    BY DEF NoStaleOutage
  <2>1. cid \in Cids /\ Faithful(cache)
    BY SurfaceIsTyped DEF Typed
  <2> QED BY <2>1 DEF Faithful, StillFails
<1> QED BY <1>1, SurfaceInvariant, PTL

\* No half of the cache exceeds the bound in force, also right after the bound was
\* lowered, and no key is in it twice (evictFor and setLimits in cache.ts).
THEOREM CacheIsBoundedHolds == Spec => []CacheIsBounded
<1>1. SurfaceInv => CacheIsBounded
  BY DEF SurfaceInv, Faithful, CacheIsBounded
<1> QED BY <1>1, SurfaceInvariant, PTL

-----------------------------------------------------------------------------
(***************************************************************************)
(* The listener: one connection.                                           *)
(***************************************************************************)

\* A connection is not the slot before a connection came.
LEMMA ConnectionIsNotIdle == ASSUME NEW s \in Connection PROVE s # Idle
BY DEF Connection, Idle

\* The limits and the plans, as numbers.
LEMMA PlanType ==
  ASSUME NEW s \in Connection
  PROVE  /\ s.plan.head \in Nat /\ s.plan.length \in Nat /\ s.plan.sent \in Nat
         /\ s.plan.parse \in {"ok"} \cup Rejections
         /\ headBytes \in Nat /\ bodyBytes \in Nat /\ MaxChunk \in Nat
         /\ s.buffer \in Nat /\ s.runs \in Nat
BY ListenerAssumption DEF Connection

\* writeHttp leaves the slot, the plan, the buffer and the run count alone, and ends
\* the socket at most; a second one destroys it.
LEMMA WriteHttp ==
  ASSUME NEW s \in Connection, NEW reply \in Rejections \cup {"served", "INTERNAL"}
  PROVE  /\ writeHttp(s, reply) \in Connection
         /\ writeHttp(s, reply).state \in {s.state, "closing"}
         /\ writeHttp(s, reply).admitted = s.admitted
         /\ writeHttp(s, reply).plan = s.plan
         /\ writeHttp(s, reply).buffer = s.buffer
         /\ writeHttp(s, reply).runs = s.runs
         /\ s.done => writeHttp(s, reply).done
         /\ ~s.done /\ ~s.ended => ~writeHttp(s, reply).done
<1>1. CASE s.ended
  BY <1>1 DEF writeHttp, Connection
<1>2. CASE ~s.ended
  BY <1>2 DEF writeHttp, Connection
<1> QED BY <1>1, <1>2

\* finish decides a connection; what was read and how often it was handled stay.
LEMMA Finish ==
  ASSUME NEW s \in Connection, NEW reply \in Rejections \cup {"served", "INTERNAL"}
  PROVE  /\ finish(s, reply) \in Connection
         /\ finish(s, reply).state \in {s.state, "closing"}
         /\ finish(s, reply).admitted = s.admitted
         /\ finish(s, reply).plan = s.plan
         /\ finish(s, reply).buffer = s.buffer
         /\ finish(s, reply).runs = s.runs
         /\ finish(s, reply).done
<1> DEFINE t == [s EXCEPT !.done = TRUE]
<1>1. /\ t \in Connection /\ t.done
      /\ t.state = s.state /\ t.admitted = s.admitted /\ t.plan = s.plan
      /\ t.buffer = s.buffer /\ t.runs = s.runs
  BY DEF Connection
<1>2. finish(s, reply) = writeHttp(t, reply)
  BY DEF finish
<1> HIDE DEF t
<1> QED BY <1>1, <1>2, WriteHttp

\* The verdicts of the reader.
LEMMA ReadType ==
  ASSUME NEW s \in Connection, NEW n \in Nat
  PROVE  read(s, n) \in Rejections \cup {"wait", "respond"}
BY PlanType DEF read, framing, Rejections

\* read waits only while the head is within its bound, and then the body too.
LEMMA ReadWaits ==
  ASSUME NEW s \in Connection, Reading(s), ~s.done, NEW n \in Nat, n >= s.buffer,
         read(s, n) = "wait"
  PROVE  /\ n >= s.plan.head => s.plan.head <= headBytes
         /\ n <= headBytes + bodyBytes
<1>0. /\ s.plan.head \in Nat /\ s.plan.length \in Nat
      /\ headBytes \in Nat /\ bodyBytes \in Nat /\ s.buffer \in Nat
      /\ s.plan.parse \in {"ok"} \cup Rejections
  BY PlanType
<1>1. s.buffer >= s.plan.head => s.plan.head <= headBytes
  BY DEF Reading
<1>2. s.buffer < s.plan.head => n <= headBytes
  BY <1>0 DEF read
<1>3. CASE n < s.plan.head
  BY <1>0, <1>2, <1>3
<1>4. CASE n >= s.plan.head
  <2>1. s.plan.head <= headBytes
    BY <1>0, <1>1, <1>2, <1>4
  <2>2. framing(s.plan) = "framed"
    <3>1. framing(s.plan) # "wait"
      BY <1>0 DEF framing, Rejections
    <3> QED BY <1>0, <1>4, <3>1 DEF read
  <2>3. s.plan.length <= bodyBytes
    BY <1>0, <2>2 DEF framing, Rejections
  <2>4. n - s.plan.head < s.plan.length
    BY <1>0, <1>4, <2>2 DEF read
  <2> QED BY <1>0, <1>4, <2>1, <2>3, <2>4
<1> QED BY <1>0, <1>3, <1>4

\* read hands over a request exactly when the declared body is there and no more.
LEMMA ReadResponds ==
  ASSUME NEW s \in Connection, NEW n \in Nat, read(s, n) = "respond"
  PROVE  n = s.plan.head + s.plan.length
<1>0. s.plan.head \in Nat /\ s.plan.length \in Nat /\ s.plan.parse \in {"ok"} \cup Rejections
  BY PlanType
<1>1. framing(s.plan) # "respond"
  BY <1>0 DEF framing, Rejections
<1>2. ~(n - s.plan.head > s.plan.length) /\ ~(n - s.plan.head < s.plan.length)
  BY <1>1 DEF read
<1> QED BY <1>0, <1>2

-----------------------------------------------------------------------------
(***************************************************************************)
(* Steps that neither take nor give back a slot.                           *)
(***************************************************************************)

\* A connection that keeps its slot, and reads by the rules, keeps the invariant.
LEMMA SlotIsKept ==
  ASSUME ListenerInv, NEW c \in Conns, conn[c] \in Connection, conn[c].state # "closed",
         NEW t \in Connection, t.state # "closed", t.admitted = conn[c].admitted,
         Reading(t), conn' = [conn EXCEPT ![c] = t],
         UNCHANGED <<server, acceptsBody, open>>
  PROVE  ListenerInv'
<1>1. conn \in [Conns -> {Idle} \cup Connection]
  BY DEF ListenerInv, ListenerTypeOK
<1>2. t # Idle /\ conn[c] # Idle
  BY ConnectionIsNotIdle
<1>3. Holding' = Holding
  BY <1>1, <1>2 DEF Holding
<1>4. conn' \in [Conns -> {Idle} \cup Connection]
  BY <1>1
<1>5. ListenerTypeOK'
  BY <1>4 DEF ListenerTypeOK, ListenerInv
<1>6. \A d \in Conns : conn'[d] # Idle => Reading(conn'[d])
  BY <1>1 DEF ListenerInv
<1>7. IsFiniteSet(Holding') /\ SlotsAreHeld'
  BY <1>3 DEF ListenerInv, SlotsAreHeld
<1> QED BY <1>5, <1>6, <1>7 DEF ListenerInv, Reading

\* A connection in some state came, so it is one.
LEMMA CameIn ==
  ASSUME ListenerTypeOK, NEW c \in Conns, conn[c].state # "idle"
  PROVE  conn[c] \in Connection
BY DEF ListenerTypeOK, Idle

\* A data event (serveConnection's reader) keeps the invariant.
LEMMA DataKeeps ==
  ASSUME ListenerInv, NEW c \in Conns, NEW chunk \in 1..MaxChunk, Data(c, chunk)
  PROVE  ListenerInv'
<1> DEFINE s == conn[c]
           n == s.buffer + chunk
           grown == [s EXCEPT !.buffer = n]
<1>1. s.state = "open" /\ ~s.done
  BY DEF Data
<1>2. s \in Connection
  BY <1>1, CameIn DEF ListenerInv
<1>3. Reading(s)
  BY <1>2, ConnectionIsNotIdle DEF ListenerInv
<1>4. s.buffer \in Nat /\ MaxChunk \in Nat /\ headBytes \in Nat /\ bodyBytes \in Nat
  BY <1>2, PlanType
<1>5. /\ n \in Nat /\ n >= s.buffer /\ n <= s.buffer + MaxChunk
      /\ n <= headBytes + bodyBytes + MaxChunk
  BY <1>1, <1>3, <1>4 DEF Reading
<1>6. /\ grown \in Connection /\ grown.buffer = n /\ grown.state = "open" /\ ~grown.done
      /\ grown.plan = s.plan /\ grown.admitted = s.admitted /\ grown.runs = s.runs
  BY <1>1, <1>2, <1>5 DEF Connection
<1>7. UNCHANGED <<server, acceptsBody, open>>
  BY DEF Data
<1>8. \/ read(s, n) = "wait" /\ conn' = [conn EXCEPT ![c] = grown]
      \/ read(s, n) \in Rejections /\ conn' = [conn EXCEPT ![c] = finish(grown, read(s, n))]
      \/ /\ read(s, n) = "respond"
         /\ \E reply \in {"served", "INTERNAL"} :
              conn' = [conn EXCEPT ![c] = finish([grown EXCEPT !.runs = @ + 1], reply)]
  BY DEF Data
<1> HIDE DEF n, grown
<1>9. CASE read(s, n) = "wait" /\ conn' = [conn EXCEPT ![c] = grown]
  <2>1. Reading(grown)
    BY <1>1, <1>2, <1>3, <1>5, <1>6, <1>9, ReadWaits DEF Reading
  <2> QED BY <1>1, <1>2, <1>6, <1>7, <1>9, <2>1, SlotIsKept
<1>10. CASE /\ read(s, n) \in Rejections
            /\ conn' = [conn EXCEPT ![c] = finish(grown, read(s, n))]
  <2> DEFINE t == finish(grown, read(s, n))
  <2>1. /\ t \in Connection /\ t.state \in {"open", "closing"} /\ t.admitted = s.admitted
        /\ t.plan = s.plan /\ t.buffer = n /\ t.runs = s.runs /\ t.done
    BY <1>6, <1>10, Finish
  <2>2. conn' = [conn EXCEPT ![c] = t]
    BY <1>10
  <2> HIDE DEF t
  <2>3. Reading(t)
    BY <1>1, <1>3, <1>5, <2>1 DEF Reading
  <2> QED BY <1>1, <1>2, <1>7, <2>1, <2>2, <2>3, SlotIsKept
<1>11. CASE /\ read(s, n) = "respond"
            /\ \E reply \in {"served", "INTERNAL"} :
                 conn' = [conn EXCEPT ![c] = finish([grown EXCEPT !.runs = @ + 1], reply)]
  <2>1. PICK reply \in {"served", "INTERNAL"} :
          conn' = [conn EXCEPT ![c] = finish([grown EXCEPT !.runs = @ + 1], reply)]
    BY <1>11
  <2> DEFINE g == [grown EXCEPT !.runs = @ + 1]
             t == finish(g, reply)
  <2>2. s.runs = 0
    BY <1>1, <1>3 DEF Reading
  <2>3. /\ g \in Connection /\ g.state = "open" /\ g.admitted = s.admitted
        /\ g.plan = s.plan /\ g.buffer = n /\ g.runs = 1
    BY <1>6, <2>2 DEF Connection
  <2> HIDE DEF g
  <2>4. /\ t \in Connection /\ t.state \in {"open", "closing"} /\ t.admitted = s.admitted
        /\ t.plan = s.plan /\ t.buffer = n /\ t.runs = 1 /\ t.done
    BY <2>3, Finish
  <2>5. conn' = [conn EXCEPT ![c] = t]
    BY <2>1 DEF g
  <2> HIDE DEF t
  <2>6. n = s.plan.head + s.plan.length
    BY <1>2, <1>5, <1>11, ReadResponds
  <2>7. Reading(t)
    BY <1>5, <2>4, <2>6 DEF Reading
  <2> QED BY <1>1, <1>2, <1>7, <2>4, <2>5, <2>7, SlotIsKept
<1> QED BY <1>8, <1>9, <1>10, <1>11

\* The deadline, the peer's end and a reset keep the invariant.
LEMMA EndingsKeep ==
  ASSUME ListenerInv, NEW c \in Conns, Timeout(c) \/ PeerEnd(c) \/ SocketError(c)
  PROVE  ListenerInv'
<1> DEFINE s == conn[c]
<1>1. s.state = "open" /\ UNCHANGED <<server, acceptsBody, open>>
  BY DEF Timeout, PeerEnd, SocketError
<1>2. s \in Connection
  BY <1>1, CameIn DEF ListenerInv
<1>3. Reading(s)
  BY <1>2, ConnectionIsNotIdle DEF ListenerInv
<1>4. /\ s.buffer \in Nat /\ s.runs \in Nat /\ MaxChunk \in Nat /\ headBytes \in Nat
      /\ bodyBytes \in Nat
  BY <1>2, PlanType
<1>5. CASE Timeout(c)
  <2> DEFINE t == finish(s, "HEAD_TIMEOUT")
  <2>1. ~s.done /\ conn' = [conn EXCEPT ![c] = t]
    BY <1>5 DEF Timeout
  <2>2. /\ t \in Connection /\ t.state \in {"open", "closing"} /\ t.admitted = s.admitted
        /\ t.plan = s.plan /\ t.buffer = s.buffer /\ t.runs = s.runs /\ t.done
    BY <1>1, <1>2, Finish DEF Rejections
  <2> HIDE DEF t
  <2>3. Reading(t)
    BY <1>3, <1>4, <2>1, <2>2 DEF Reading
  <2> QED BY <1>1, <1>2, <2>1, <2>2, <2>3, SlotIsKept
<1>6. CASE PeerEnd(c)
  <2> DEFINE t == [s EXCEPT !.state = "closing"]
  <2>1. conn' = [conn EXCEPT ![c] = t]
    BY <1>6 DEF PeerEnd
  <2>2. /\ t \in Connection /\ t.state = "closing" /\ t.admitted = s.admitted
        /\ t.plan = s.plan /\ t.buffer = s.buffer /\ t.runs = s.runs /\ t.done = s.done
    BY <1>2 DEF Connection
  <2> HIDE DEF t
  <2>3. Reading(t)
    BY <1>3, <2>2 DEF Reading
  <2> QED BY <1>1, <1>2, <2>1, <2>2, <2>3, SlotIsKept
<1>7. CASE SocketError(c)
  <2> DEFINE t == [s EXCEPT !.state = "closing", !.done = TRUE]
  <2>1. conn' = [conn EXCEPT ![c] = t]
    BY <1>2, <1>7 DEF SocketError, ListenerInv, ListenerTypeOK
  <2>2. /\ t \in Connection /\ t.state = "closing" /\ t.admitted = s.admitted
        /\ t.plan = s.plan /\ t.buffer = s.buffer /\ t.runs = s.runs /\ t.done
    BY <1>2 DEF Connection
  <2> HIDE DEF t
  <2>3. Reading(t)
    BY <1>3, <1>4, <2>2 DEF Reading
  <2> QED BY <1>1, <1>2, <2>1, <2>2, <2>3, SlotIsKept
<1> QED BY <1>5, <1>6, <1>7

-----------------------------------------------------------------------------
(***************************************************************************)
(* Steps that take a slot or give one back.                                *)
(***************************************************************************)

\* A connection that arrives takes a slot below the cap, and none at it.
LEMMA AdmitKeeps ==
  ASSUME ListenerInv, NEW c \in Conns, NEW plan \in Plans, Admit(c, plan)
  PROVE  ListenerInv'
<1> DEFINE fits == open < connections
           s == [state |-> "open", plan |-> plan, admitted |-> fits, done |-> FALSE,
                 ended |-> FALSE, buffer |-> 0, answer |-> "none", runs |-> 0]
           t == IF fits THEN s ELSE writeHttp(s, "TOO_MANY_CONNECTIONS")
<1>1. /\ conn[c] = Idle
      /\ open' = IF fits THEN open + 1 ELSE open
      /\ conn' = [conn EXCEPT ![c] = t]
      /\ UNCHANGED <<server, acceptsBody>>
  BY DEF Admit
<1>2. /\ conn \in [Conns -> {Idle} \cup Connection]
      /\ open \in 0..connections
      /\ server \in {"listening", "closing", "closed"}
      /\ connections \in Nat
      /\ IsFiniteSet(Holding) /\ open = Cardinality(Holding)
  BY ListenerAssumption DEF ListenerInv, ListenerTypeOK, SlotsAreHeld
<1>3. /\ s \in Connection /\ s.state = "open" /\ s.admitted = fits /\ s.plan = plan
      /\ s.buffer = 0 /\ s.runs = 0 /\ ~s.done /\ ~s.ended
  BY DEF Connection
<1>a. fits \in BOOLEAN
  OBVIOUS
<1> HIDE DEF s
<1>4. /\ t \in Connection /\ t.state # "closed" /\ t.admitted = fits /\ t.plan = plan
      /\ t.buffer = 0 /\ t.runs = 0 /\ ~t.done
  <2>1. CASE fits
    BY <1>3, <2>1
  <2>2. CASE ~fits
    <3>1. "TOO_MANY_CONNECTIONS" \in Rejections \cup {"served", "INTERNAL"}
      BY DEF Rejections
    <3> QED BY <1>3, <2>2, <3>1, WriteHttp
  <2> QED BY <2>1, <2>2
<1>5. Reading(t)
  <2>1. plan.head \in Nat /\ headBytes \in Nat /\ bodyBytes \in Nat
    BY ListenerAssumption
  <2> HIDE DEF t
  <2> QED BY <1>4, <2>1 DEF Reading
<1>6. t # Idle
  BY <1>4, ConnectionIsNotIdle
<1> HIDE DEF t
<1>7. c \notin Holding
  BY <1>1 DEF Holding
<1>8. conn' \in [Conns -> {Idle} \cup Connection]
  BY <1>1, <1>2, <1>4
<1>9. open' \in 0..connections /\ IsFiniteSet(Holding') /\ open' = Cardinality(Holding')
  <2>1. CASE fits
    <3>1. Holding' = Holding \cup {c}
      BY <1>1, <1>2, <1>4, <1>6, <2>1 DEF Holding
    <3>2. IsFiniteSet(Holding') /\ Cardinality(Holding') = Cardinality(Holding) + 1
      BY <1>2, <1>7, <3>1, FS_AddElement
    <3> QED BY <1>1, <1>2, <2>1, <3>2
  <2>2. CASE ~fits
    <3>1. Holding' = Holding
      BY <1>1, <1>2, <1>4, <1>7, <2>2 DEF Holding
    <3> QED BY <1>1, <1>2, <2>2, <3>1
  <2> QED BY <2>1, <2>2
<1>10. \A d \in Conns : conn'[d] # Idle => Reading(conn'[d])
  BY <1>1, <1>2, <1>5 DEF ListenerInv
<1>11. acceptsBody' \in BOOLEAN
  BY <1>1, Zenon DEF ListenerInv, ListenerTypeOK
<1>12. ListenerTypeOK'
  BY <1>1, <1>2, <1>8, <1>9, <1>11 DEF ListenerTypeOK
<1> QED BY <1>9, <1>10, <1>12 DEF ListenerInv, SlotsAreHeld, Reading

\* The close event gives back the slot of an admitted connection, once.
LEMMA CloseKeeps ==
  ASSUME ListenerInv, NEW c \in Conns, Close(c)
  PROVE  ListenerInv'
<1> DEFINE s == conn[c]
           t == [s EXCEPT !.state = "closed"]
<1>1. /\ s.state = "closing"
      /\ conn' = [conn EXCEPT ![c] = t]
      /\ open' = IF s.admitted /\ open > 0 THEN open - 1 ELSE open
      /\ UNCHANGED <<server, acceptsBody>>
  BY DEF Close
<1>2. /\ conn \in [Conns -> {Idle} \cup Connection]
      /\ open \in 0..connections
      /\ server \in {"listening", "closing", "closed"}
      /\ connections \in Nat
      /\ IsFiniteSet(Holding) /\ open = Cardinality(Holding)
  BY ListenerAssumption DEF ListenerInv, ListenerTypeOK, SlotsAreHeld
<1>3. s \in Connection /\ s # Idle
  BY <1>1, CameIn, ConnectionIsNotIdle DEF ListenerInv
<1>4. Reading(s)
  BY <1>3 DEF ListenerInv
<1>5. /\ t \in Connection /\ t.state = "closed" /\ t.admitted = s.admitted
      /\ t.plan = s.plan /\ t.buffer = s.buffer /\ t.runs = s.runs /\ t.done = s.done
  BY <1>3 DEF Connection
<1> HIDE DEF t
<1>6. Reading(t)
  BY <1>4, <1>5 DEF Reading
<1>7. Holding' = Holding \ {c}
  BY <1>1, <1>2, <1>5 DEF Holding
<1>8. conn' \in [Conns -> {Idle} \cup Connection]
  BY <1>1, <1>2, <1>5
<1>9. open' \in 0..connections /\ IsFiniteSet(Holding') /\ open' = Cardinality(Holding')
  <2>0. IsFiniteSet(Holding \ {c})
    BY <1>2, FS_RemoveElement
  <2>1. CASE s.admitted
    <3>1. c \in Holding
      BY <1>1, <1>3, <2>1 DEF Holding
    <3>2. Cardinality(Holding \ {c}) = Cardinality(Holding) - 1
      BY <1>2, <3>1, FS_RemoveElement
    <3>3. Cardinality(Holding \ {c}) \in Nat
      BY <2>0, FS_CardinalityType
    <3> QED BY <1>1, <1>2, <1>7, <2>0, <2>1, <3>2, <3>3
  <2>2. CASE ~s.admitted
    <3>1. c \notin Holding
      BY <2>2 DEF Holding
    <3>2. Holding \ {c} = Holding
      BY <3>1
    <3> QED BY <1>1, <1>2, <1>7, <2>2, <3>2
  <2> QED BY <2>1, <2>2
<1>10. \A d \in Conns : conn'[d] # Idle => Reading(conn'[d])
  BY <1>1, <1>2, <1>6 DEF ListenerInv
<1>11. acceptsBody' \in BOOLEAN
  BY <1>1, Zenon DEF ListenerInv, ListenerTypeOK
<1>12. ListenerTypeOK'
  BY <1>1, <1>2, <1>8, <1>9, <1>11 DEF ListenerTypeOK
<1> QED BY <1>9, <1>10, <1>12 DEF ListenerInv, SlotsAreHeld, Reading

-----------------------------------------------------------------------------
(***************************************************************************)
(* The theorems.                                                           *)
(***************************************************************************)

\* The initial state satisfies the invariant.
LEMMA InitListener == ListenerInit => ListenerInv
<1> SUFFICES ASSUME ListenerInit PROVE ListenerInv
  OBVIOUS
<1>1. /\ server = "listening" /\ open = 0
      /\ conn = [c \in Conns |-> Idle]
  BY DEF ListenerInit
<1>2. acceptsBody \in BOOLEAN
  BY Zenon DEF ListenerInit
<1>3. Holding = {}
  BY <1>1 DEF Holding
<1>4. IsFiniteSet(Holding) /\ Cardinality(Holding) = 0
  BY <1>3, FS_EmptySet
<1>5. ListenerTypeOK
  BY <1>1, <1>2, ListenerAssumption DEF ListenerTypeOK
<1> QED BY <1>1, <1>4, <1>5 DEF ListenerInv, SlotsAreHeld

\* Every step of the listener keeps the invariant.
LEMMA NextListener == ListenerInv /\ [ListenerNext]_listenerVars => ListenerInv'
<1> SUFFICES ASSUME ListenerInv, [ListenerNext]_listenerVars PROVE ListenerInv'
  OBVIOUS
<1>1. ASSUME NEW c \in Conns, NEW plan \in Plans, Admit(c, plan) PROVE ListenerInv'
  BY <1>1, AdmitKeeps
<1>2. ASSUME NEW c \in Conns, NEW chunk \in 1..MaxChunk, Data(c, chunk) PROVE ListenerInv'
  BY <1>2, DataKeeps
<1>3. ASSUME NEW c \in Conns, Timeout(c) \/ PeerEnd(c) \/ SocketError(c) PROVE ListenerInv'
  BY <1>3, EndingsKeep
<1>4. ASSUME NEW c \in Conns, Close(c) PROVE ListenerInv'
  BY <1>4, CloseKeeps
<1>5. ASSUME /\ server' \in {"listening", "closing", "closed"}
             /\ UNCHANGED <<acceptsBody, open, conn>>
      PROVE  ListenerInv'
  <2>1. Holding' = Holding
    BY <1>5 DEF Holding
  <2>2. ListenerTypeOK'
    BY <1>5 DEF ListenerTypeOK, ListenerInv
  <2> QED BY <1>5, <2>1, <2>2 DEF ListenerInv, SlotsAreHeld, Reading
<1>6. CASE StopListening \/ ServerClosed
  BY <1>5, <1>6 DEF StopListening, ServerClosed
<1>7. CASE UNCHANGED listenerVars
  BY <1>5, <1>7 DEF listenerVars, ListenerInv, ListenerTypeOK
<1> QED BY <1>1, <1>2, <1>3, <1>4, <1>6, <1>7 DEF ListenerNext

\* ListenerInv is an invariant of the listener.
THEOREM ListenerInvariant == ListenerSpec => []ListenerInv
BY InitListener, NextListener, PTL DEF ListenerSpec

\* Every reachable state of the listener is well typed; the counter never exceeds
\* the cap.
THEOREM ListenerTypeCorrect == ListenerSpec => []ListenerTypeOK
<1>1. ListenerInv => ListenerTypeOK
  BY DEF ListenerInv
<1> QED BY <1>1, ListenerInvariant, PTL

\* ConnectionCounter counts the admitted connections that are not closed yet.
THEOREM SlotsAreHeldHolds == ListenerSpec => []SlotsAreHeld
<1>1. ListenerInv => SlotsAreHeld
  BY DEF ListenerInv
<1> QED BY <1>1, ListenerInvariant, PTL

\* The handler sees a request once and whole, however it was cut.
THEOREM WholeRequestOnceHolds == ListenerSpec => []WholeRequestOnce
<1>1. ListenerInv => WholeRequestOnce
  BY DEF ListenerInv, Reading, WholeRequestOnce
<1> QED BY <1>1, ListenerInvariant, PTL

\* What a connection buffers is bounded by the limits and one chunk.
THEOREM BufferIsBoundedHolds == ListenerSpec => []BufferIsBounded
<1>1. ListenerInv => BufferIsBounded
  <2> SUFFICES ASSUME ListenerInv, NEW c \in Conns, conn[c] # Idle
               PROVE  conn[c].buffer <= headBytes + bodyBytes + MaxChunk
    BY DEF BufferIsBounded
  <2>1. conn[c] \in Connection /\ Reading(conn[c])
    BY DEF ListenerInv, ListenerTypeOK
  <2>2. /\ conn[c].buffer \in Nat /\ MaxChunk \in Nat /\ headBytes \in Nat
        /\ bodyBytes \in Nat
    BY <2>1, PlanType
  <2> QED BY <2>1, <2>2 DEF Reading
<1> QED BY <1>1, ListenerInvariant, PTL
=============================================================================
