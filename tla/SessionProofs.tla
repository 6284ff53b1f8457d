--------------------------- MODULE SessionProofs ---------------------------
(***************************************************************************)
(* Proofs about Session, for any records, limits, clocks and messages: the *)
(* cursor passes nothing that was not delivered, the deferral queue stays  *)
(* distinct and bounded, whatever the other end sends; and between two     *)
(* ends that run this code every slot in use is a request in flight.       *)
(***************************************************************************)
EXTENDS Session, RulesProofs, Induction, FiniteSetTheorems

-----------------------------------------------------------------------------
(***************************************************************************)
(* Small facts.                                                            *)
(***************************************************************************)

\* A stream has two ends.
LEMMA TwoEnds ==
  ASSUME NEW p \in Peers
  PROVE  /\ Other(p) \in Peers
         /\ Other(p) # p
         /\ Other(Other(p)) = p
         /\ \A q \in Peers : q = p \/ q = Other(p)
<1>1. PICK x, y \in Peers : x # y /\ Peers = {x, y}
  BY EndsAssumption
<1>2. \E q \in Peers : q # p
  BY <1>1
<1>3. Other(p) \in Peers /\ Other(p) # p
  BY <1>2 DEF Other
<1>4. \A q \in Peers : q = p \/ q = Other(p)
  BY <1>1, <1>3
<1>5. \E q \in Peers : q # Other(p)
  BY <1>3
<1>6. Other(Other(p)) \in Peers /\ Other(Other(p)) # Other(p)
  BY <1>5 DEF Other
<1> QED BY <1>3, <1>4, <1>6

\* The element of a singleton is that element.
LEMMA TheElement == ASSUME NEW x PROVE The({x}) = x
BY DEF The

\* The greater of two positions.
LEMMA MaxOfTwo ==
  ASSUME NEW a \in Nat, NEW b \in Nat
  PROVE  Max({a, b}) = IF a >= b THEN a ELSE b
<1>1. \E x \in {a, b} : \A y \in {a, b} : x >= y
  OBVIOUS
<1>2. /\ Max({a, b}) \in {a, b}
      /\ \A y \in {a, b} : Max({a, b}) >= y
  BY <1>1 DEF Max
<1> QED BY <1>2

\* There are n positions up to n.
LEMMA CountTo ==
  ASSUME NEW n \in Nat
  PROVE  IsFiniteSet(1..n) /\ Cardinality(1..n) = n
<1>1. 1 \in Int /\ n \in Int
  OBVIOUS
<1>2. \A x, y \in Int : /\ IsFiniteSet(x..y)
                        /\ Cardinality(x..y) = IF x > y THEN 0 ELSE y - x + 1
  BY FS_Interval
<1>3. IsFiniteSet(1..n) /\ Cardinality(1..n) = IF 1 > n THEN 0 ELSE n - 1 + 1
  BY <1>1, <1>2, Zenon
<1> DEFINE c == Cardinality(1..n)
<1>4. c = IF 1 > n THEN 0 ELSE n - 1 + 1
  BY <1>3
<1> HIDE DEF c
<1>5. c = n
  BY <1>4
<1> QED BY <1>3, <1>5 DEF c

\* The clock of an end shows a time.
LEMMA ClockType == ASSUME now \in Nat, NEW p \in Peers PROVE Clock(p) \in Nat /\ Clock(p) >= Offset[p]
BY EndsAssumption DEF Clock

-----------------------------------------------------------------------------
(***************************************************************************)
(* What a batch of records does to an end.                                 *)
(***************************************************************************)
IsQueue(queue) ==
  /\ queue \in Seq(Record)
  /\ Len(queue) <= DeferredLimit
  /\ \A i, j \in DOMAIN queue : queue[i].hash = queue[j].hash => i = j

IsEnd(end) ==
  /\ DOMAIN end = {"store", "deferred"}
  /\ IsStore(end.store)
  /\ IsQueue(end.deferred)

\* holdDeferred keeps the queue distinct and within its limit.
LEMMA HoldDeferredKeeps ==
  ASSUME NEW queue, IsQueue(queue), NEW r \in Record
  PROVE  IsQueue(holdDeferred(queue, r))
<1>1. CASE \E i \in DOMAIN queue : queue[i].hash = r.hash
  BY <1>1 DEF holdDeferred
<1>2. CASE ~\E i \in DOMAIN queue : queue[i].hash = r.hash
  <2> DEFINE room == IF Len(queue) >= DeferredLimit THEN Tail(queue) ELSE queue
  <2>1. holdDeferred(queue, r) = Append(room, r)
    BY <1>2 DEF holdDeferred
  <2>2. /\ room \in Seq(Record)
        /\ Len(room) < DeferredLimit
        /\ \A i, j \in DOMAIN room : room[i].hash = room[j].hash => i = j
        /\ \A i \in DOMAIN room : room[i].hash # r.hash
    <3>1. CASE Len(queue) >= DeferredLimit
      <4>1. queue # << >> /\ room = Tail(queue) /\ Len(queue) = DeferredLimit
        BY <3>1, LimitsAssumption DEF IsQueue
      <4>2. /\ room \in Seq(Record)
            /\ Len(room) = Len(queue) - 1
            /\ \A i \in DOMAIN room : i + 1 \in DOMAIN queue /\ room[i] = queue[i + 1]
        BY <4>1 DEF IsQueue
      <4> HIDE DEF room
      <4>3. Len(room) < DeferredLimit
        BY <4>1, <4>2, LimitsAssumption
      <4>4. ASSUME NEW i \in DOMAIN room, NEW j \in DOMAIN room, room[i].hash = room[j].hash
            PROVE  i = j
        <5>1. i + 1 = j + 1
          BY <4>2, <4>4 DEF IsQueue
        <5>2. i \in Nat /\ j \in Nat
          BY <4>2
        <5> QED BY <5>1, <5>2
      <4>5. \A i \in DOMAIN room : room[i].hash # r.hash
        BY <1>2, <4>2
      <4> QED BY <4>2, <4>3, <4>4, <4>5
    <3>2. CASE Len(queue) < DeferredLimit
      BY <1>2, <3>2, LimitsAssumption DEF IsQueue
    <3>3. Len(queue) \in Nat /\ DeferredLimit \in Nat
      BY LimitsAssumption DEF IsQueue
    <3> HIDE DEF room
    <3> QED BY <3>1, <3>2, <3>3
  <2> HIDE DEF room
  <2> DEFINE new == Append(room, r)
  <2>3. /\ new \in Seq(Record)
        /\ Len(new) <= DeferredLimit
        /\ DOMAIN new = DOMAIN room \cup {Len(room) + 1}
        /\ \A i \in DOMAIN room : new[i] = room[i]
        /\ new[Len(room) + 1] = r
        /\ Len(room) + 1 \notin DOMAIN room
    BY <2>2, LimitsAssumption
  <2> HIDE DEF new
  <2>4. \A i, j \in DOMAIN new : new[i].hash = new[j].hash => i = j
    BY <2>2, <2>3
  <2> QED BY <2>1, <2>3, <2>4 DEF IsQueue, new
<1> QED BY <1>1, <1>2

\* noteEquivocation (store.ts) leaves a ledger behind.
LEMMA NoteType ==
  ASSUME NEW held \in Seq(Evidence), NEW log \in Seq(Record), NEW names, NEW r \in Record
  PROVE  noteEquivocation(held, log, names, r) \in Seq(Evidence)
<1> DEFINE first == CHOOSE i \in Rivals(log, r) : \A j \in Rivals(log, r) : i <= j
<1>1. CASE Rivals(log, r) = {}
  BY <1>1 DEF noteEquivocation
<1>2. CASE Rivals(log, r) # {}
  <2>1. Rivals(log, r) \in SUBSET Nat
    BY DEF Rivals
  <2>2. \E i \in Rivals(log, r) : \A j \in Rivals(log, r) : i <= j
    BY <1>2, <2>1, NatMin
  <2>3. first \in Rivals(log, r)
    BY <2>2
  <2> HIDE DEF first
  <2>4. log[first] \in Record
    BY <2>3 DEF Rivals
  <2>5. recordEvidence(held, log[first], r, "detected") \in Seq(Evidence)
    <3>1. [origin |-> "detected", a |-> log[first], b |-> r] \in Evidence
      BY <2>4 DEF Evidence, Origins
    <3> QED BY <3>1 DEF recordEvidence
  <2>6. \/ noteEquivocation(held, log, names, r) = held
        \/ noteEquivocation(held, log, names, r)
             = recordEvidence(held, log[first], r, "detected")
    BY DEF noteEquivocation, first
  <2> QED BY <2>5, <2>6
<1> QED BY <1>1, <1>2

\* An end that takes a verdict stays an end, and its log only grows.
LEMMA OutcomeKeeps ==
  ASSUME NEW end, IsEnd(end), NEW r \in Record, NEW verdict
  PROVE  /\ IsEnd(Outcome(end, r, verdict))
         /\ Len(Outcome(end, r, verdict).store.log) >= Len(end.store.log)
<1> DEFINE note == noteEquivocation(end.store.ledger, end.store.log, end.store.names, r)
           new == Outcome(end, r, verdict)
<1>0. /\ DOMAIN end = {"store", "deferred"}
      /\ DOMAIN end.store = {"log", "names", "ledger"}
      /\ end.store.log \in Seq(Record)
      /\ IndexOK(end.store.names)
      /\ end.store.ledger \in Seq(Evidence)
      /\ IsQueue(end.deferred)
  BY DEF IsEnd, IsStore
<1>1. note \in Seq(Evidence)
  BY <1>0, NoteType
<1>2. new = CASE verdict = "duplicate" -> end
        [] Accepted(verdict) ->
             [end EXCEPT !.store.log = Append(@, r), !.store.names = apply(@, r)]
        [] verdict = "CLOCK_SKEW" ->
             [end EXCEPT !.store.ledger = note, !.deferred = holdDeferred(@, r)]
        [] OTHER -> [end EXCEPT !.store.ledger = note]
  BY DEF Outcome
<1> HIDE DEF note, new
<1>3. \/ new = end
      \/ new = [end EXCEPT !.store.log = Append(@, r), !.store.names = apply(@, r)]
      \/ new = [end EXCEPT !.store.ledger = note, !.deferred = holdDeferred(@, r)]
      \/ new = [end EXCEPT !.store.ledger = note]
  BY <1>2 DEF Accepted
<1>4. CASE new = end
  BY <1>0, <1>4 DEF new
<1>5. CASE new = [end EXCEPT !.store.log = Append(@, r), !.store.names = apply(@, r)]
  <2>1. IndexOK(apply(end.store.names, r))
    BY <1>0, ApplyType
  <2>2. /\ DOMAIN new = {"store", "deferred"}
        /\ DOMAIN new.store = {"log", "names", "ledger"}
        /\ new.store.log = Append(end.store.log, r)
        /\ new.store.names = apply(end.store.names, r)
        /\ new.store.ledger = end.store.ledger
        /\ new.deferred = end.deferred
    BY <1>0, <1>5
  <2>3. Append(end.store.log, r) \in Seq(Record) /\ Len(Append(end.store.log, r)) >= Len(end.store.log)
    BY <1>0
  <2> QED BY <1>0, <2>1, <2>2, <2>3 DEF IsEnd, IsStore, new
<1>6. CASE new = [end EXCEPT !.store.ledger = note, !.deferred = holdDeferred(@, r)]
  <2>1. IsQueue(holdDeferred(end.deferred, r))
    BY <1>0, HoldDeferredKeeps
  <2>2. /\ DOMAIN new = {"store", "deferred"}
        /\ DOMAIN new.store = {"log", "names", "ledger"}
        /\ new.store.log = end.store.log
        /\ new.store.names = end.store.names
        /\ new.store.ledger = note
        /\ new.deferred = holdDeferred(end.deferred, r)
    BY <1>0, <1>6
  <2> QED BY <1>0, <1>1, <2>1, <2>2 DEF IsEnd, IsStore, new
<1>7. CASE new = [end EXCEPT !.store.ledger = note]
  <2>2. /\ DOMAIN new = {"store", "deferred"}
        /\ DOMAIN new.store = {"log", "names", "ledger"}
        /\ new.store.log = end.store.log
        /\ new.store.names = end.store.names
        /\ new.store.ledger = note
        /\ new.deferred = end.deferred
    BY <1>0, <1>7
  <2> QED BY <1>0, <1>1, <2>2 DEF IsEnd, IsStore, new
<1> QED BY <1>3, <1>4, <1>5, <1>6, <1>7

\* Store.append as the session calls it.
LEMMA OfferKeeps ==
  ASSUME NEW end, IsEnd(end), NEW r \in Record, NEW at
  PROVE  /\ IsEnd(Offer(end, r, at))
         /\ Len(Offer(end, r, at).store.log) >= Len(end.store.log)
<1> DEFINE verdict == appendVerdict(end.store.log, end.store.names, r, at)
<1>1. Offer(end, r, at) = The({Outcome(end, r, v) : v \in {verdict}})
  BY DEF Offer
<1> HIDE DEF verdict
<1>2. {Outcome(end, r, v) : v \in {verdict}} = {Outcome(end, r, verdict)}
  OBVIOUS
<1>3. Offer(end, r, at) = Outcome(end, r, verdict)
  BY <1>1, <1>2, TheElement
<1> QED BY <1>3, OutcomeKeeps

\* g is what the first n records of a batch leave behind, one after the other.
IsBatch(g, end, recs, broken, at, n) ==
  g = [i \in 0..n |->
         IF i = 0 THEN end
         ELSE IF i \in broken THEN g[i - 1]
         ELSE The({Offer(before, recs[i], at) : before \in {g[i - 1]}})]

\* A batch can be taken record by record.
LEMMA BatchExists ==
  ASSUME NEW end, NEW recs, NEW broken, NEW at, NEW n \in Nat
  PROVE  \E g : IsBatch(g, end, recs, broken, at, n)
<1> DEFINE T == {k \in Nat : \E g : IsBatch(g, end, recs, broken, at, k)}
<1>1. 0 \in T
  <2>1. IsBatch([i \in 0..0 |-> end], end, recs, broken, at, 0)
    BY DEF IsBatch
  <2> QED BY <2>1
<1>2. ASSUME NEW k \in T PROVE k + 1 \in T
  <2>1. PICK g : IsBatch(g, end, recs, broken, at, k)
    OBVIOUS
  <2> DEFINE Step(i, x) == IF i \in broken THEN x
                           ELSE The({Offer(before, recs[i], at) : before \in {x}})
             h == [i \in 0..(k + 1) |-> IF i = k + 1 THEN Step(k + 1, g[k]) ELSE g[i]]
  <2>2. \A i \in 0..k : g[i] = IF i = 0 THEN end ELSE Step(i, g[i - 1])
    BY <2>1 DEF IsBatch
  <2> HIDE DEF Step
  <2>3. h[k + 1] = Step(k + 1, g[k]) /\ \A i \in 0..k : h[i] = g[i]
    OBVIOUS
  <2>4. DOMAIN h = 0..(k + 1) /\ h = [i \in 0..(k + 1) |-> h[i]]
    OBVIOUS
  <2> HIDE DEF h
  <2>5. ASSUME NEW i \in 0..(k + 1)
        PROVE  h[i] = IF i = 0 THEN end ELSE Step(i, h[i - 1])
    <3>1. CASE i = k + 1
      BY <2>3, <3>1
    <3>2. CASE i # k + 1
      <4>1. i \in 0..k /\ (i # 0 => i - 1 \in 0..k)
        BY <3>2
      <4> QED BY <2>2, <2>3, <4>1
    <3> QED BY <3>1, <3>2
  <2>6. h = [i \in 0..(k + 1) |-> IF i = 0 THEN end ELSE Step(i, h[i - 1])]
    BY <2>4, <2>5
  <2>7. IsBatch(h, end, recs, broken, at, k + 1)
    BY <2>6 DEF IsBatch, Step
  <2> QED BY <2>7
<1>3. T = Nat
  <2>1. T \in SUBSET Nat
    OBVIOUS
  <2> HIDE DEF T
  <2> QED BY <1>1, <1>2, <2>1, SetInduction
<1> QED BY <1>3

\* An end that takes a batch, some appends of which throw, stays an end, and its log
\* only grows.
LEMMA OfferAllKeeps ==
  ASSUME NEW end, IsEnd(end), NEW recs \in Seq(Record), NEW broken, NEW at
  PROVE  /\ IsEnd(OfferAll(end, recs, broken, at))
         /\ Len(OfferAll(end, recs, broken, at).store.log) >= Len(end.store.log)
<1> DEFINE n == Len(recs)
           g == CHOOSE h : IsBatch(h, end, recs, broken, at, n)
<1>1. n \in Nat
  OBVIOUS
<1>2. OfferAll(end, recs, broken, at) = g[n]
  BY DEF OfferAll, IsBatch
<1>3. IsBatch(g, end, recs, broken, at, n)
  <2> HIDE DEF n
  <2>1. \E h : IsBatch(h, end, recs, broken, at, n)
    BY <1>1, BatchExists
  <2> QED BY <2>1
<1> HIDE DEF g
<1>4. g[0] = end
  BY <1>1, <1>3 DEF IsBatch
<1> DEFINE T == {i \in 0..n : IsEnd(g[i]) /\ Len(g[i].store.log) >= Len(end.store.log)}
<1>5. 0 \in T
  <2>1. Len(end.store.log) \in Nat
    BY DEF IsEnd, IsStore
  <2> QED BY <1>1, <1>4, <2>1
<1>6. ASSUME NEW i \in 0..(n - 1), i \in T PROVE i + 1 \in T
  <2>1. i + 1 \in 1..n /\ recs[i + 1] \in Record /\ (i + 1) - 1 = i
    OBVIOUS
  <2>2. g[i + 1] = IF i + 1 \in broken THEN g[i]
                   ELSE The({Offer(before, recs[i + 1], at) : before \in {g[i]}})
    BY <1>1, <1>3, <2>1 DEF IsBatch
  <2>3. {Offer(before, recs[i + 1], at) : before \in {g[i]}} = {Offer(g[i], recs[i + 1], at)}
    OBVIOUS
  <2>4. \/ g[i + 1] = g[i]
        \/ g[i + 1] = Offer(g[i], recs[i + 1], at)
    BY <2>2, <2>3, TheElement
  <2>5. /\ IsEnd(Offer(g[i], recs[i + 1], at))
        /\ Len(Offer(g[i], recs[i + 1], at).store.log) >= Len(g[i].store.log)
    BY <1>6, <2>1, OfferKeeps
  <2>6. Len(g[i].store.log) \in Nat /\ Len(end.store.log) \in Nat
        /\ Len(Offer(g[i], recs[i + 1], at).store.log) \in Nat
    BY <1>6, <2>5 DEF IsEnd, IsStore
  <2>7. IsEnd(g[i]) /\ Len(g[i].store.log) >= Len(end.store.log)
    BY <1>6
  <2>8. Len(Offer(g[i], recs[i + 1], at).store.log) >= Len(end.store.log)
    <3>1. \A x, y, z \in Nat : x >= y /\ y >= z => x >= z
      OBVIOUS
    <3> QED BY <2>5, <2>6, <2>7, <3>1, Zenon
  <2>9. IsEnd(g[i + 1]) /\ Len(g[i + 1].store.log) >= Len(end.store.log)
    BY <2>4, <2>5, <2>7, <2>8
  <2>10. i + 1 \in 0..n
    OBVIOUS
  <2> QED BY <2>9, <2>10
<1>7. n \in T
  <2> HIDE DEF T, n
  <2>1. \A i \in 0..n : i \in T
    BY <1>1, <1>5, <1>6, IntervalInduction
  <2> QED BY <1>1, <2>1
<1> QED BY <1>2, <1>7

-----------------------------------------------------------------------------
(***************************************************************************)
(* What pump does to a session.                                            *)
(***************************************************************************)

\* A number of whole requests that covers what is lacking asks for nothing past it.
LEMMA WholeRequests ==
  ASSUME NEW lacking \in Nat \ {0}, NEW size \in Nat \ {0},
         NEW i \in 1..((lacking + size - 1) \div size)
  PROVE  (i - 1) * size < lacking
<1> DEFINE q == (lacking + size - 1) \div size
<1>1. q \in Int /\ size * q <= lacking + size - 1
  OBVIOUS
<1>2. i \in Int /\ 1 <= i /\ i <= q
  OBVIOUS
<1> HIDE DEF q
<1>3. size * i <= size * q
  BY <1>1, <1>2
<1>4. (i - 1) * size = size * i - size /\ size * i \in Int
  BY <1>2
<1> QED BY <1>1, <1>3, <1>4

\* The slots of a session: within the budget, and taken no earlier than `since`.
HasSlots(s, since) ==
  /\ Len(s.outstanding) <= OutstandingWants
  /\ \A i \in DOMAIN s.outstanding : s.outstanding[i] >= since

\* expireWants frees some of the oldest slots, none when none is due, and the only
\* cursor it moves is the one of requests.
LEMMA ExpireKeeps ==
  ASSUME NEW s \in SessionState, NEW at \in Nat, NEW since \in Nat, HasSlots(s, since)
  PROVE  LET e == expireWants(s, at) IN
         /\ e \in SessionState
         /\ HasSlots(e, since)
         /\ e.helloReceived = s.helloReceived
         /\ e.remoteLength = s.remoteLength
         /\ e.fetchedThrough = s.fetchedThrough
         /\ e.deferred = s.deferred
         /\ (\A i \in DOMAIN s.outstanding : at - s.outstanding[i] < WantDeadlineSeconds)
              => e = s
<1> DEFINE out == s.outstanding
           n == Cardinality(Expired(s, at))
           e == expireWants(s, at)
<1>0. out \in Seq(Nat) /\ WantDeadlineSeconds \in Nat /\ OutstandingWants \in Nat
  BY LimitsAssumption DEF SessionState
<1>1. n \in Nat /\ n <= Len(out)
  <2>1. Expired(s, at) \subseteq 1..Len(out)
    BY <1>0 DEF Expired
  <2>2. IsFiniteSet(1..Len(out)) /\ Cardinality(1..Len(out)) = Len(out)
    <3>1. Len(out) \in Nat
      BY <1>0
    <3> QED BY <3>1, CountTo
  <2>3. IsFiniteSet(Expired(s, at)) /\ n <= Cardinality(1..Len(out))
    BY <2>1, <2>2, FS_Subset
  <2> QED BY <2>2, <2>3, FS_CardinalityType
<1>2. (\A i \in DOMAIN out : at - out[i] < WantDeadlineSeconds) => n = 0
  <2> SUFFICES ASSUME \A i \in DOMAIN out : at - out[i] < WantDeadlineSeconds
               PROVE  Expired(s, at) = {}
    BY FS_EmptySet
  <2> SUFFICES ASSUME NEW i \in Expired(s, at) PROVE FALSE
    OBVIOUS
  <2>1. i \in DOMAIN out /\ i \in 1..i /\ at - out[i] >= WantDeadlineSeconds
    BY <1>0 DEF Expired
  <2> QED BY <1>0, <2>1
<1>3. e = IF n = 0 THEN s
          ELSE [s EXCEPT !.outstanding = SubSeq(out, n + 1, Len(out)),
                         !.requestedThrough = s.fetchedThrough]
  BY DEF expireWants
<1> HIDE DEF n, e
<1>4. CASE n = 0
  BY <1>2, <1>3, <1>4 DEF e
<1>5. CASE n # 0
  <2> DEFINE left == SubSeq(out, n + 1, Len(out))
  <2>1. /\ left \in Seq(Nat)
        /\ Len(left) <= Len(out)
        /\ \A i \in DOMAIN left : i + n \in DOMAIN out /\ left[i] = out[i + n]
    BY <1>0, <1>1
  <2> HIDE DEF left
  <2>2. Len(left) <= OutstandingWants /\ \A i \in DOMAIN left : left[i] >= since
    BY <1>0, <2>1 DEF HasSlots
  <2>3. e = [s EXCEPT !.outstanding = left, !.requestedThrough = s.fetchedThrough]
    BY <1>3, <1>5 DEF left
  <2>4. e \in SessionState /\ e.outstanding = left
    BY <2>1, <2>3 DEF SessionState
  <2>5. /\ e.helloReceived = s.helloReceived
        /\ e.remoteLength = s.remoteLength
        /\ e.fetchedThrough = s.fetchedThrough
        /\ e.deferred = s.deferred
    BY <2>3 DEF SessionState
  <2> QED BY <1>2, <1>5, <2>2, <2>4, <2>5 DEF HasSlots, e
<1> QED BY <1>4, <1>5

\* nextWant asks for as many ranges as there are free slots and ranges lacking.
LEMMA WantsDueType ==
  ASSUME NEW s \in SessionState, NEW since, HasSlots(s, since)
  PROVE  /\ WantsDue(s) \in Nat
         /\ Len(s.outstanding) + WantsDue(s) <= OutstandingWants
         /\ WantsDue(s) > 0 => s.helloReceived /\ s.requestedThrough < s.remoteLength
         /\ \A i \in 1..WantsDue(s) :
              s.requestedThrough + (i - 1) * WantCount < s.remoteLength
<1> DEFINE free == OutstandingWants - Len(s.outstanding)
           lacking == s.remoteLength - s.requestedThrough
           whole == (lacking + WantCount - 1) \div WantCount
<1>0. /\ s.remoteLength \in Nat /\ s.requestedThrough \in Nat /\ Len(s.outstanding) \in Nat
      /\ WantCount \in Nat \ {0} /\ OutstandingWants \in Nat
      /\ Len(s.outstanding) <= OutstandingWants
  BY LimitsAssumption DEF SessionState, HasSlots
<1>1. free \in Nat /\ lacking \in Int
  BY <1>0
<1>2. WantsDue(s) = IF ~s.helloReceived \/ lacking <= 0 THEN 0 ELSE Least(free, whole)
  BY DEF WantsDue
<1>3. CASE ~s.helloReceived \/ lacking <= 0
  <2>1. WantsDue(s) = 0
    BY <1>2, <1>3
  <2> QED BY <1>0, <2>1
<1>4. CASE s.helloReceived /\ lacking > 0
  <2>1. lacking \in Nat \ {0}
    BY <1>1, <1>4
  <2> HIDE DEF lacking
  <2>2. whole \in Nat
    BY <1>0, <2>1
  <2>3. WantsDue(s) = Least(free, whole)
    BY <1>2, <1>4, <2>1
  <2>4. WantsDue(s) \in Nat /\ WantsDue(s) <= free /\ WantsDue(s) <= whole
    <3> HIDE DEF free, whole
    <3> QED BY <1>1, <2>2, <2>3 DEF Least
  <2>5. ASSUME NEW i \in 1..WantsDue(s)
        PROVE  s.requestedThrough + (i - 1) * WantCount < s.remoteLength
    <3>1. i \in 1..whole
      <4> HIDE DEF whole
      <4> QED BY <2>2, <2>4
    <3>2. (i - 1) * WantCount < lacking
      BY <1>0, <2>1, <3>1, WholeRequests
    <3>3. (i - 1) * WantCount \in Int
      BY <1>0, <2>4
    <3> QED BY <1>0, <3>2, <3>3 DEF lacking
  <2>6. s.requestedThrough < s.remoteLength
    BY <1>0, <2>1 DEF lacking
  <2> HIDE DEF whole
  <2> QED BY <1>0, <1>4, <2>4, <2>5, <2>6
<1> QED BY <1>1, <1>3, <1>4

\* A session that asked has taken a slot for each request.
LEMMA AskedKeeps ==
  ASSUME NEW s \in SessionState, NEW since \in Nat, HasSlots(s, since),
         NEW at \in Nat, at >= since
  PROVE  LET a == asked(s, at) IN
         /\ a \in SessionState
         /\ HasSlots(a, since)
         /\ Len(a.outstanding) = Len(s.outstanding) + WantsDue(s)
         /\ a.helloReceived = s.helloReceived
         /\ a.remoteLength = s.remoteLength
         /\ a.fetchedThrough = s.fetchedThrough
         /\ a.deferred = s.deferred
<1> DEFINE a == asked(s, at)
           due == WantsDue(s)
           out == s.outstanding
           new == out \o [i \in 1..due |-> at]
           through == IF due = 0 THEN s.requestedThrough
                      ELSE Least(s.requestedThrough + due * WantCount, s.remoteLength)
<1>1. due \in Nat /\ Len(out) + due <= OutstandingWants
  BY WantsDueType
<1>2. a = [s EXCEPT !.outstanding = new, !.requestedThrough = through]
  BY DEF asked
<1>3. out \in Seq(Nat) /\ \A i \in DOMAIN out : out[i] >= since
  BY DEF SessionState, HasSlots
<1> HIDE DEF a, due
<1>4. /\ new \in Seq(Nat)
      /\ Len(new) = Len(out) + due
      /\ \A i \in DOMAIN new : new[i] >= since
  <2> DEFINE sent == [i \in 1..due |-> at]
  <2>1. sent \in Seq(Nat) /\ Len(sent) = due /\ \A i \in 1..due : sent[i] = at
    BY <1>1
  <2> HIDE DEF sent, out
  <2>2. out \o sent \in Seq(Nat) /\ Len(out \o sent) = Len(out) + due
    BY <1>1, <1>3, <2>1
  <2>3. ASSUME NEW i \in DOMAIN (out \o sent) PROVE (out \o sent)[i] >= since
    <3>1. CASE i <= Len(out)
      <4>1. (out \o sent)[i] = out[i] /\ i \in DOMAIN out
        BY <1>3, <2>1, <2>2, <3>1
      <4> QED BY <1>3, <4>1
    <3>2. CASE i > Len(out)
      <4>1. i - Len(out) \in 1..due /\ (out \o sent)[i] = sent[i - Len(out)]
        BY <1>1, <1>3, <2>1, <2>2, <3>2
      <4> QED BY <2>1, <4>1
    <3>3. i \in Nat /\ Len(out) \in Nat
      BY <1>3, <2>2
    <3> QED BY <3>1, <3>2, <3>3
  <2> QED BY <2>2, <2>3 DEF sent
<1>5. through \in Nat
  <2>1. s.requestedThrough \in Nat /\ s.remoteLength \in Nat /\ WantCount \in Nat
    BY LimitsAssumption DEF SessionState
  <2>2. due * WantCount \in Nat
    BY <1>1, <2>1
  <2> QED BY <2>1, <2>2 DEF Least
<1> HIDE DEF new, through
<1>6. a \in SessionState /\ a.outstanding = new
  BY <1>2, <1>4, <1>5 DEF SessionState
<1>7. /\ a.helloReceived = s.helloReceived
      /\ a.remoteLength = s.remoteLength
      /\ a.fetchedThrough = s.fetchedThrough
      /\ a.deferred = s.deferred
  BY <1>2 DEF SessionState
<1> QED BY <1>1, <1>4, <1>6, <1>7 DEF HasSlots, a, due

\* A request for something that the other end has said it holds.
IsWant(m, length) ==
  m \in Message /\ m.t = "WANT" /\ m.count \in 1..WantCount /\ m.from < length

\* What pump sends are requests for what the remote has.
LEMMA NextWantsType ==
  ASSUME NEW s \in SessionState, NEW since, HasSlots(s, since)
  PROVE  /\ nextWants(s) \in Seq(Message)
         /\ Len(nextWants(s)) = WantsDue(s)
         /\ \A i \in DOMAIN nextWants(s) : IsWant(nextWants(s)[i], s.remoteLength)
<1> DEFINE due == WantsDue(s)
           From(i) == s.requestedThrough + (i - 1) * WantCount
           Want(i) == [t |-> "WANT", from |-> From(i),
                       count |-> Least(WantCount, s.remoteLength - From(i))]
<1>1. due \in Nat /\ \A i \in 1..due : From(i) < s.remoteLength
  BY WantsDueType
<1>2. s.requestedThrough \in Nat /\ s.remoteLength \in Nat /\ WantCount \in Nat \ {0}
  BY LimitsAssumption DEF SessionState
<1>3. nextWants(s) = [i \in 1..due |-> Want(i)]
  BY DEF nextWants
<1> HIDE DEF due
<1>4. ASSUME NEW i \in 1..due PROVE IsWant(Want(i), s.remoteLength)
  <2>1. From(i) \in Nat /\ From(i) < s.remoteLength
    <3>1. (i - 1) * WantCount \in Nat
      BY <1>1, <1>2
    <3> QED BY <1>1, <1>2, <3>1
  <2> HIDE DEF From
  <2>2. Least(WantCount, s.remoteLength - From(i)) \in 1..WantCount
    BY <1>2, <2>1 DEF Least
  <2> QED BY <1>2, <2>1, <2>2 DEF IsWant, Message
<1> HIDE DEF Want
<1>5. \A i \in 1..due : Want(i) \in Message
  BY <1>4 DEF IsWant
<1>6. [i \in 1..due |-> Want(i)] \in Seq(Message) /\ Len([i \in 1..due |-> Want(i)]) = due
  BY <1>1, <1>5
<1> QED BY <1>1, <1>3, <1>4, <1>6 DEF due

\* offerEvidence sends reports and nothing else.
LEMMA EvidenceOfferType ==
  ASSUME NEW s, NEW ledger \in Seq(Evidence)
  PROVE  /\ evidenceOffer(s, ledger) \in Seq(Message)
         /\ \A i \in DOMAIN evidenceOffer(s, ledger) :
              evidenceOffer(s, ledger)[i].t = "EQUIVOCATION"
<1> DEFINE n == Least(Len(ledger), PerConnection)
           offer == [i \in 1..n |->
                       [t |-> "EQUIVOCATION", a |-> ledger[i].a, b |-> ledger[i].b]]
<1>1. n \in Nat /\ n <= Len(ledger)
  BY LimitsAssumption DEF Least
<1>2. evidenceOffer(s, ledger) = << >> \/ evidenceOffer(s, ledger) = offer
  BY DEF evidenceOffer
<1> HIDE DEF n
<1>3. \A i \in 1..n : [t |-> "EQUIVOCATION", a |-> ledger[i].a, b |-> ledger[i].b] \in Message
  <2> SUFFICES ASSUME NEW i \in 1..n
               PROVE  [t |-> "EQUIVOCATION", a |-> ledger[i].a, b |-> ledger[i].b] \in Message
    OBVIOUS
  <2>1. ledger[i] \in Evidence
    BY <1>1
  <2> QED BY <2>1 DEF Evidence, Message
<1>4. offer \in Seq(Message) /\ \A i \in DOMAIN offer : offer[i].t = "EQUIVOCATION"
  BY <1>1, <1>3
<1> HIDE DEF offer
<1>5. << >> \in Seq(Message) /\ \A i \in DOMAIN << >> : << >>[i].t = "EQUIVOCATION"
  OBVIOUS
<1> QED BY <1>2, <1>4, <1>5

-----------------------------------------------------------------------------
(***************************************************************************)
(* What ends every handler: the end is stored, the session asks, and       *)
(* replies, reports and requests are sent.                                 *)
(***************************************************************************)
Sends(p, s, replies, offer, wants) ==
  /\ channel'[Other(p)] = ((channel[Other(p)] \o replies) \o offer) \o wants
  /\ offer \in Seq(Message) /\ \A i \in DOMAIN offer : offer[i].t = "EQUIVOCATION"
  /\ wants \in Seq(Message) /\ \A i \in DOMAIN wants : IsWant(wants[i], s.remoteLength)
  /\ now < WantDeadlineSeconds
       => Len(session'[p].outstanding) = Len(s.outstanding) + Len(wants)

Took(p, s, after, replies, inbox) ==
  /\ DOMAIN store' = Peers /\ store'[p] = after.store /\ store'[Other(p)] = store[Other(p)]
  /\ session' \in [Peers -> SessionState] /\ session'[Other(p)] = session[Other(p)]
  /\ session'[p].helloReceived = s.helloReceived
  /\ session'[p].remoteLength = s.remoteLength
  /\ session'[p].fetchedThrough = s.fetchedThrough
  /\ session'[p].deferred = after.deferred
  /\ HasSlots(session'[p], Offset[p])
  /\ channel' \in [Peers -> Seq(Message)] /\ channel'[p] = inbox
  /\ \E offer, wants : Sends(p, s, replies, offer, wants)

\* No slot expires before the first deadline can have passed.
LEMMA NothingExpiresEarly ==
  ASSUME now \in Nat, NEW p \in Peers, NEW s \in SessionState, HasSlots(s, Offset[p]),
         now < WantDeadlineSeconds
  PROVE  expireWants(s, Clock(p)) = s
<1>1. Clock(p) \in Nat /\ Offset[p] \in Nat /\ Clock(p) = now + Offset[p]
  BY ClockType, EndsAssumption DEF Clock
<1>2. \A i \in DOMAIN s.outstanding : Clock(p) - s.outstanding[i] < WantDeadlineSeconds
  <2> SUFFICES ASSUME NEW i \in DOMAIN s.outstanding
               PROVE  Clock(p) - s.outstanding[i] < WantDeadlineSeconds
    OBVIOUS
  <2>1. s.outstanding[i] \in Nat /\ s.outstanding[i] >= Offset[p]
    BY DEF HasSlots, SessionState
  <2> QED BY <1>1, <2>1, LimitsAssumption
<1> QED BY <1>1, <1>2, ExpireKeeps

\* pump, on a session whose expired slots have been freed.
LEMMA PumpDoes ==
  ASSUME TypeOK, NEW p \in Peers, NEW s \in SessionState, HasSlots(s, Offset[p])
  PROVE  LET ready == expireWants(s, Clock(p))
             a == asked(ready, Clock(p))
         IN  /\ ready \in SessionState
             /\ a \in SessionState
             /\ HasSlots(a, Offset[p])
             /\ a.helloReceived = s.helloReceived
             /\ a.remoteLength = s.remoteLength
             /\ a.fetchedThrough = s.fetchedThrough
             /\ ready.helloReceived \in BOOLEAN
             /\ nextWants(ready) \in Seq(Message)
             /\ \A i \in DOMAIN nextWants(ready) : IsWant(nextWants(ready)[i], s.remoteLength)
             /\ now < WantDeadlineSeconds
                  => Len(a.outstanding) = Len(s.outstanding) + Len(nextWants(ready))
<1> DEFINE ready == expireWants(s, Clock(p))
           a == asked(ready, Clock(p))
<1>1. now \in Nat /\ Clock(p) \in Nat /\ Clock(p) >= Offset[p] /\ Offset[p] \in Nat
  BY ClockType, EndsAssumption DEF TypeOK
<1>2. /\ ready \in SessionState
      /\ HasSlots(ready, Offset[p])
      /\ ready.helloReceived = s.helloReceived
      /\ ready.remoteLength = s.remoteLength
      /\ ready.fetchedThrough = s.fetchedThrough
  BY <1>1, ExpireKeeps
<1>3. now < WantDeadlineSeconds => ready = s
  BY <1>1, NothingExpiresEarly
<1> HIDE DEF ready
<1>4. /\ a \in SessionState
      /\ HasSlots(a, Offset[p])
      /\ Len(a.outstanding) = Len(ready.outstanding) + WantsDue(ready)
      /\ a.helloReceived = ready.helloReceived
      /\ a.remoteLength = ready.remoteLength
      /\ a.fetchedThrough = ready.fetchedThrough
  BY <1>1, <1>2, AskedKeeps
<1>5. /\ nextWants(ready) \in Seq(Message)
      /\ Len(nextWants(ready)) = WantsDue(ready)
      /\ \A i \in DOMAIN nextWants(ready) : IsWant(nextWants(ready)[i], ready.remoteLength)
  BY <1>2, NextWantsType
<1>6. ready.helloReceived \in BOOLEAN
  BY <1>2, Zenon DEF SessionState
<1> HIDE DEF a
<1> QED BY <1>2, <1>3, <1>4, <1>5, <1>6 DEF ready, a

\* Answer does what it says.
LEMMA AnswerDoes ==
  ASSUME TypeOK, NEW p \in Peers, NEW s \in SessionState, HasSlots(s, Offset[p]),
         NEW after, IsEnd(after), NEW replies \in Seq(Message), NEW inbox \in Seq(Message),
         Answer(p, s, after, replies, inbox)
  PROVE  Took(p, s, after, replies, inbox)
<1> DEFINE ready == expireWants(s, Clock(p))
           a == asked(ready, Clock(p))
           new == [a EXCEPT !.deferred = after.deferred, !.offered = ready.helloReceived]
           offer == evidenceOffer(ready, after.store.ledger)
           wants == nextWants(ready)
<1>1. /\ ready \in SessionState
      /\ a \in SessionState
      /\ HasSlots(a, Offset[p])
      /\ a.helloReceived = s.helloReceived
      /\ a.remoteLength = s.remoteLength
      /\ a.fetchedThrough = s.fetchedThrough
      /\ ready.helloReceived \in BOOLEAN
      /\ wants \in Seq(Message)
      /\ \A i \in DOMAIN wants : IsWant(wants[i], s.remoteLength)
      /\ now < WantDeadlineSeconds => Len(a.outstanding) = Len(s.outstanding) + Len(wants)
  BY PumpDoes
<1>2. /\ store' = [store EXCEPT ![p] = after.store]
      /\ session' = [session EXCEPT ![p] = new]
      /\ channel' = [channel EXCEPT ![p] = inbox,
                                    ![Other(p)] = ((@ \o replies) \o offer) \o wants]
  BY DEF Answer
<1>3. /\ after.store.ledger \in Seq(Evidence)
      /\ after.deferred \in Seq(Record)
  BY DEF IsEnd, IsStore, IsQueue
<1>4. offer \in Seq(Message) /\ \A i \in DOMAIN offer : offer[i].t = "EQUIVOCATION"
  BY <1>3, EvidenceOfferType
<1>5. Other(p) \in Peers /\ Other(p) # p /\ \A q \in Peers : q = p \/ q = Other(p)
  BY TwoEnds
<1>6. /\ DOMAIN store = Peers
      /\ session \in [Peers -> SessionState]
      /\ channel \in [Peers -> Seq(Message)]
  BY DEF TypeOK
<1> HIDE DEF ready, a, offer, wants
<1>7. /\ new \in SessionState
      /\ new.helloReceived = s.helloReceived
      /\ new.remoteLength = s.remoteLength
      /\ new.fetchedThrough = s.fetchedThrough
      /\ new.deferred = after.deferred
      /\ new.outstanding = a.outstanding
  <2>1. DOMAIN a = DOMAIN new
    OBVIOUS
  <2> QED BY <1>1, <1>3 DEF SessionState
<1> HIDE DEF new
<1>8. /\ session' \in [Peers -> SessionState]
      /\ session'[p] = new
      /\ session'[Other(p)] = session[Other(p)]
  BY <1>2, <1>5, <1>6, <1>7
<1>9. DOMAIN store' = Peers /\ store'[p] = after.store /\ store'[Other(p)] = store[Other(p)]
  BY <1>2, <1>5, <1>6
<1>10. ((channel[Other(p)] \o replies) \o offer) \o wants \in Seq(Message)
  <2>1. channel[Other(p)] \o replies \in Seq(Message)
    BY <1>5, <1>6
  <2>2. (channel[Other(p)] \o replies) \o offer \in Seq(Message)
    BY <1>4, <2>1
  <2> QED BY <1>1, <2>2
<1>11. /\ channel' \in [Peers -> Seq(Message)]
       /\ channel'[p] = inbox
       /\ channel'[Other(p)] = ((channel[Other(p)] \o replies) \o offer) \o wants
  <2> DEFINE sent == ((channel[Other(p)] \o replies) \o offer) \o wants
  <2>1. channel' = [channel EXCEPT ![p] = inbox, ![Other(p)] = sent]
    BY <1>2, <1>5, <1>6
  <2> HIDE DEF sent
  <2> QED BY <1>5, <1>6, <1>10, <2>1 DEF sent
<1>12. Sends(p, s, replies, offer, wants)
  BY <1>1, <1>4, <1>7, <1>8, <1>11 DEF Sends
<1>13. HasSlots(session'[p], Offset[p])
  BY <1>1, <1>7, <1>8 DEF HasSlots
<1> QED BY <1>7, <1>8, <1>9, <1>11, <1>12, <1>13 DEF Took

-----------------------------------------------------------------------------
(***************************************************************************)
(* The invariant of the session, whatever the other end sends.             *)
(***************************************************************************)

\* Between handlers an end is an end.
LEMMA EndIsEnd ==
  ASSUME SessionInv, NEW p \in Peers
  PROVE  /\ IsEnd(End(p))
         /\ End(p).store = store[p]
         /\ session[p] \in SessionState
         /\ HasSlots(session[p], Offset[p])
         /\ channel[p] \in Seq(Message)
<1>1. session[p] \in SessionState /\ channel[p] \in Seq(Message) /\ IsStore(store[p])
  BY DEF SessionInv, TypeOK
<1>2. HasSlots(session[p], Offset[p])
  BY DEF SessionInv, SlotsAreBounded, HasSlots
<1>3. IsQueue(session[p].deferred)
  BY <1>1 DEF SessionInv, DeferredDistinct, IsQueue, SessionState
<1>4. /\ DOMAIN End(p) = {"store", "deferred"}
      /\ End(p).store = store[p]
      /\ End(p).deferred = session[p].deferred
  BY DEF End
<1> QED BY <1>1, <1>2, <1>3, <1>4 DEF IsEnd

\* A turn of an end keeps the invariant, if the cursor it leaves is covered.
LEMMA TurnKeeps ==
  ASSUME SessionInv, NEW p \in Peers, NEW s, NEW after, IsEnd(after), NEW replies,
         NEW inbox, Took(p, s, after, replies, inbox), UNCHANGED <<now, connected>>,
         covered' \in [Peers -> SUBSET Nat],
         covered'[Other(p)] = covered[Other(p)],
         0..(s.fetchedThrough - 1) \subseteq covered'[p]
  PROVE  SessionInv'
<1> DEFINE o == Other(p)
<1>0. o \in Peers /\ \A q \in Peers : q = p \/ q = o
  BY TwoEnds
<1>t. /\ DOMAIN store' = Peers /\ store'[p] = after.store /\ store'[o] = store[o]
      /\ session' \in [Peers -> SessionState] /\ session'[o] = session[o]
      /\ session'[p].fetchedThrough = s.fetchedThrough
      /\ session'[p].deferred = after.deferred
      /\ HasSlots(session'[p], Offset[p])
      /\ channel' \in [Peers -> Seq(Message)]
  BY DEF Took
<1> HIDE DEF o
<1>1. TypeOK'
  <2>1. IsStore(store'[p]) /\ IsStore(store'[o])
    BY <1>0, <1>t DEF IsEnd, SessionInv, TypeOK
  <2>2. now' \in Nat /\ connected' \in BOOLEAN
    BY Zenon DEF SessionInv, TypeOK
  <2>3. (\A q \in Peers : IsStore(store[q]))'
    BY <1>0, <2>1
  <2> QED BY <1>t, <2>2, <2>3 DEF TypeOK
<1>2. NothingSkipped'
  <2>1. 0..(session'[p].fetchedThrough - 1) \subseteq covered'[p]
    BY <1>t
  <2>2. 0..(session'[o].fetchedThrough - 1) \subseteq covered'[o]
    BY <1>0, <1>t DEF SessionInv, NothingSkipped, o
  <2> QED BY <1>0, <2>1, <2>2 DEF NothingSkipped
<1>3. DeferredDistinct'
  <2>1. IsQueue(session'[p].deferred)
    BY <1>t DEF IsEnd
  <2>2. IsQueue(session'[o].deferred)
    BY <1>0, <1>t, EndIsEnd DEF IsEnd, End
  <2>3. \A q \in Peers : IsQueue(session'[q].deferred)
    BY <1>0, <2>1, <2>2
  <2> QED BY <2>3 DEF DeferredDistinct, IsQueue
<1>4. SlotsAreBounded'
  <2>1. HasSlots(session'[o], Offset[o])
    BY <1>0, <1>t, EndIsEnd
  <2>2. \A q \in Peers : HasSlots(session'[q], Offset[q])
    BY <1>0, <1>t, <2>1
  <2> QED BY <2>2 DEF SlotsAreBounded, HasSlots
<1> QED BY <1>1, <1>2, <1>3, <1>4 DEF SessionInv

\* An end that keeps its cursor and what it was sent.
LEMMA QuietTurnKeeps ==
  ASSUME SessionInv, NEW p \in Peers, NEW s, s.fetchedThrough = session[p].fetchedThrough,
         NEW after, IsEnd(after), NEW replies, NEW inbox,
         Took(p, s, after, replies, inbox), UNCHANGED <<now, connected, covered>>
  PROVE  SessionInv'
<1>1. covered' \in [Peers -> SUBSET Nat] /\ covered'[Other(p)] = covered[Other(p)]
  BY DEF SessionInv, TypeOK
<1>2. 0..(s.fetchedThrough - 1) \subseteq covered'[p]
  BY DEF SessionInv, NothingSkipped
<1> QED BY <1>1, <1>2, TurnKeeps

\* onHello: the session after it, and the turn it takes.
LEMMA HelloDoes ==
  ASSUME SessionInv, NEW p \in Peers, NEW m \in Message, NEW inbox \in Seq(Message),
         OnHello(p, m, inbox)
  PROVE  LET s == AfterHello(session[p], m) IN
         /\ s.fetchedThrough = session[p].fetchedThrough
         /\ s.outstanding = session[p].outstanding
         /\ Took(p, s, End(p), << >>, inbox)
<1> DEFINE old == session[p]
           s == AfterHello(old, m)
<1>1. old \in SessionState /\ HasSlots(old, Offset[p]) /\ IsEnd(End(p)) /\ TypeOK
  BY EndIsEnd DEF SessionInv
<1>2. m.t = "HELLO" /\ m.len \in Nat
  BY DEF OnHello, Message
<1>3. /\ s \in SessionState
      /\ s.fetchedThrough = old.fetchedThrough
      /\ s.outstanding = old.outstanding
  <2>1. CASE s = old
    BY <1>1, <2>1
  <2>2. CASE s = [old EXCEPT !.helloReceived = TRUE, !.remoteLength = m.len]
    BY <1>1, <1>2, <2>2 DEF SessionState
  <2> QED BY <2>1, <2>2 DEF AfterHello
<1>4. Answer(p, s, End(p), << >>, inbox)
  BY DEF OnHello
<1> HIDE DEF s
<1>5. HasSlots(s, Offset[p])
  BY <1>1, <1>3 DEF HasSlots
<1>6. << >> \in Seq(Message)
  OBVIOUS
<1>7. Took(p, s, End(p), << >>, inbox)
  BY <1>1, <1>3, <1>4, <1>5, <1>6, AnswerDoes
<1> QED BY <1>3, <1>7 DEF s

\* onWant: no reply, or one RECORDS, and then what was asked for was not there.
LEMMA WantDoes ==
  ASSUME SessionInv, NEW p \in Peers, NEW m \in Message, NEW inbox \in Seq(Message),
         OnWant(p, m, inbox)
  PROVE  \E replies \in Seq(Message) :
           /\ Took(p, session[p], End(p), replies, inbox)
           /\ \/ /\ replies = << >>
                 /\ \/ ~session[p].helloReceived
                    \/ ~IsWant(m, Len(store[p].log))
              \/ \E r \in Message : r.t = "RECORDS" /\ replies = <<r>>
<1> DEFINE log == store[p].log
           last == Least(m.from + m.count, Len(log))
<1>1. /\ session[p] \in SessionState /\ HasSlots(session[p], Offset[p]) /\ IsEnd(End(p))
      /\ TypeOK /\ log \in Seq(Record)
  BY EndIsEnd DEF SessionInv, TypeOK, IsStore
<1>2. m.t = "WANT" /\ m.from \in Nat /\ m.count \in Nat
  BY DEF OnWant, Message
<1>3. \/ /\ ~session[p].helloReceived \/ m.count \notin 1..WantCount \/ m.from >= last
         /\ Answer(p, session[p], End(p), << >>, inbox)
      \/ \E upTo \in (m.from + 1)..last :
           Answer(p, session[p], End(p),
                  <<[t |-> "RECORDS", from |-> m.from,
                     recs |-> SubSeq(log, m.from + 1, upTo)]>>, inbox)
  BY DEF OnWant
<1>4. CASE /\ ~session[p].helloReceived \/ m.count \notin 1..WantCount \/ m.from >= last
           /\ Answer(p, session[p], End(p), << >>, inbox)
  <2>1. << >> \in Seq(Message)
    OBVIOUS
  <2>2. Took(p, session[p], End(p), << >>, inbox)
    BY <1>1, <1>4, <2>1, AnswerDoes
  <2>3. session[p].helloReceived => ~IsWant(m, Len(log))
    <3> SUFFICES ASSUME m.count \in 1..WantCount, m.from < Len(log) PROVE m.from < last
      BY <1>2, <1>4 DEF IsWant, Least
    <3> QED BY <1>1, <1>2 DEF Least
  <2> QED BY <2>1, <2>2, <2>3
<1>5. ASSUME NEW upTo \in (m.from + 1)..last,
             Answer(p, session[p], End(p),
                    <<[t |-> "RECORDS", from |-> m.from,
                       recs |-> SubSeq(log, m.from + 1, upTo)]>>, inbox)
      PROVE  \E r \in Message :
               r.t = "RECORDS" /\ Took(p, session[p], End(p), <<r>>, inbox)
  <2> DEFINE r == [t |-> "RECORDS", from |-> m.from, recs |-> SubSeq(log, m.from + 1, upTo)]
  <2>1. last \in Int /\ last <= Len(log)
    BY <1>1, <1>2 DEF Least
  <2>2. SubSeq(log, m.from + 1, upTo) \in Seq(Record)
    <3> HIDE DEF last
    <3>1. m.from + 1 \in 1..(Len(log) + 1) /\ upTo \in 0..Len(log)
      BY <1>1, <1>2, <2>1
    <3> QED BY <1>1, <3>1
  <2>3. r \in Message /\ r.t = "RECORDS"
    BY <1>2, <2>2 DEF Message
  <2> HIDE DEF r
  <2>4. <<r>> \in Seq(Message)
    BY <2>3
  <2>5. Answer(p, session[p], End(p), <<r>>, inbox)
    BY <1>5 DEF r
  <2>6. Took(p, session[p], End(p), <<r>>, inbox)
    BY <1>1, <2>4, <2>5, AnswerDoes
  <2> QED BY <2>3, <2>6
<1>6. CASE \E r \in Message :
               r.t = "RECORDS" /\ Took(p, session[p], End(p), <<r>>, inbox)
  <2>1. PICK r \in Message : r.t = "RECORDS" /\ Took(p, session[p], End(p), <<r>>, inbox)
    BY <1>6
  <2>2. <<r>> \in Seq(Message)
    OBVIOUS
  <2> QED BY <2>1, <2>2
<1> QED BY <1>3, <1>4, <1>5, <1>6

\* A reply moves the cursor to what it delivered, if it starts at or before it, and
\* frees a slot.
LEMMA AfterRecordsType ==
  ASSUME NEW s \in SessionState, NEW since, HasSlots(s, since), NEW m \in Message,
         m.t = "RECORDS"
  PROVE  LET a == AfterRecords(s, m) IN
         /\ a \in SessionState
         /\ HasSlots(a, since)
         /\ a.helloReceived = s.helloReceived
         /\ a.remoteLength = s.remoteLength
         /\ 0..(a.fetchedThrough - 1)
              \subseteq 0..(s.fetchedThrough - 1) \cup (m.from)..(m.from + Len(m.recs) - 1)
         /\ s.outstanding # << >> => Len(a.outstanding) = Len(s.outstanding) - 1
<1> DEFINE end == m.from + Len(m.recs)
           through == Max({s.fetchedThrough, end})
           out == IF s.outstanding = << >> THEN s.outstanding ELSE Tail(s.outstanding)
           a == AfterRecords(s, m)
<1>1. m.from \in Nat /\ m.recs \in Seq(Record) /\ end \in Nat
  BY DEF Message
<1>2. s.fetchedThrough \in Nat /\ s.outstanding \in Seq(Nat) /\ s.requestedThrough \in Nat
  BY DEF SessionState
<1>3. through = IF s.fetchedThrough >= end THEN s.fetchedThrough ELSE end
  <2> HIDE DEF end
  <2> QED BY <1>1, <1>2, MaxOfTwo
<1>4. a = [s EXCEPT
             !.fetchedThrough = IF m.from <= s.fetchedThrough THEN through ELSE @,
             !.requestedThrough = IF m.from <= s.fetchedThrough THEN through ELSE @,
             !.outstanding = out]
  BY DEF AfterRecords
<1>5. /\ out \in Seq(Nat)
      /\ Len(out) <= Len(s.outstanding)
      /\ s.outstanding # << >> => Len(out) = Len(s.outstanding) - 1
      /\ HasSlots([s EXCEPT !.outstanding = out], since)
  <2>1. CASE s.outstanding = << >>
    BY <1>2, <2>1 DEF HasSlots, SessionState
  <2>2. CASE s.outstanding # << >>
    <3>1. out = Tail(s.outstanding)
      BY <2>2
    <3>2. /\ out \in Seq(Nat) /\ Len(out) = Len(s.outstanding) - 1
          /\ \A i \in DOMAIN out : i + 1 \in DOMAIN s.outstanding
                                   /\ out[i] = s.outstanding[i + 1]
      BY <1>2, <2>2, <3>1
    <3> HIDE DEF out
    <3>3. Len(out) <= OutstandingWants /\ \A i \in DOMAIN out : out[i] >= since
      BY <1>2, <3>2, LimitsAssumption DEF HasSlots
    <3>4. [s EXCEPT !.outstanding = out].outstanding = out
      BY DEF SessionState
    <3> QED BY <1>2, <3>2, <3>3, <3>4 DEF HasSlots
  <2> QED BY <2>1, <2>2
<1> HIDE DEF end, through, out, a
<1>6. through \in Nat
  BY <1>1, <1>2, <1>3
<1>7. /\ a \in SessionState
      /\ a.outstanding = out
      /\ a.helloReceived = s.helloReceived
      /\ a.remoteLength = s.remoteLength
      /\ a.fetchedThrough = IF m.from <= s.fetchedThrough THEN through ELSE s.fetchedThrough
  BY <1>2, <1>4, <1>5, <1>6 DEF SessionState
<1>8. HasSlots(a, since)
  <2>1. [s EXCEPT !.outstanding = out].outstanding = out
    BY DEF SessionState
  <2> QED BY <1>5, <1>7, <2>1 DEF HasSlots
<1>9. 0..(a.fetchedThrough - 1) \subseteq 0..(s.fetchedThrough - 1) \cup (m.from)..(end - 1)
  BY <1>1, <1>2, <1>3, <1>7
<1>10. 0..(a.fetchedThrough - 1)
         \subseteq 0..(s.fetchedThrough - 1) \cup (m.from)..(m.from + Len(m.recs) - 1)
  <2>1. m.from + Len(m.recs) - 1 = end - 1
    BY <1>1 DEF end
  <2> QED BY <1>9, <2>1
<1>11. s.outstanding # << >> => Len(a.outstanding) = Len(s.outstanding) - 1
  BY <1>5, <1>7
<1> QED BY <1>7, <1>8, <1>10, <1>11, Zenon DEF a

\* onRecords: nothing before HELLO; after it, the batch is taken and a slot is freed.
LEMMA RecordsDoes ==
  ASSUME SessionInv, NEW p \in Peers, NEW m \in Message, NEW inbox \in Seq(Message),
         OnRecords(p, m, inbox)
  PROVE  \/ /\ ~session[p].helloReceived
            /\ Took(p, session[p], End(p), << >>, inbox)
            /\ covered' = covered
         \/ /\ session[p].helloReceived
            /\ \E after : /\ IsEnd(after)
                          /\ Len(after.store.log) >= Len(store[p].log)
                          /\ Took(p, AfterRecords(session[p], m), after, << >>, inbox)
            /\ covered' = [covered EXCEPT ![p] =
                             @ \cup (m.from)..(m.from + Len(m.recs) - 1)]
<1>1. /\ session[p] \in SessionState /\ HasSlots(session[p], Offset[p]) /\ IsEnd(End(p))
      /\ End(p).store = store[p] /\ TypeOK
  BY EndIsEnd DEF SessionInv
<1>2. m.t = "RECORDS" /\ m.recs \in Seq(Record)
  BY DEF OnRecords, Message
<1>3. << >> \in Seq(Message)
  OBVIOUS
<1>4. CASE ~session[p].helloReceived
  <2>1. Answer(p, session[p], End(p), << >>, inbox) /\ covered' = covered
    BY <1>4 DEF OnRecords
  <2>2. Took(p, session[p], End(p), << >>, inbox)
    BY <1>1, <1>3, <2>1, AnswerDoes
  <2> QED BY <1>4, <2>1, <2>2
<1>5. CASE session[p].helloReceived
  <2> DEFINE s == AfterRecords(session[p], m)
             After(broken) == OfferAll(End(p), m.recs, broken, Clock(p))
  <2>1. PICK broken : Answer(p, s, After(broken), << >>, inbox)
    BY <1>5 DEF OnRecords
  <2>2. covered' = [covered EXCEPT ![p] = @ \cup (m.from)..(m.from + Len(m.recs) - 1)]
    BY <1>5 DEF OnRecords
  <2>3. s \in SessionState /\ HasSlots(s, Offset[p])
    BY <1>1, <1>2, AfterRecordsType
  <2>4. IsEnd(After(broken)) /\ Len(After(broken).store.log) >= Len(End(p).store.log)
    BY <1>1, <1>2, OfferAllKeeps
  <2> HIDE DEF s, After
  <2>5. Took(p, s, After(broken), << >>, inbox)
    BY <1>1, <1>3, <2>1, <2>3, <2>4, AnswerDoes
  <2> QED BY <1>1, <1>5, <2>2, <2>4, <2>5 DEF s
<1> QED BY <1>4, <1>5

\* onEquivocation: the report may be recorded, and nothing else changes.
LEMMA EquivocationDoes ==
  ASSUME SessionInv, NEW p \in Peers, NEW m \in Message, NEW inbox \in Seq(Message),
         OnEquivocation(p, m, inbox)
  PROVE  \E after : /\ IsEnd(after)
                    /\ after.store.log = store[p].log
                    /\ Took(p, session[p], after, << >>, inbox)
<1> DEFINE new == [End(p) EXCEPT !.store.ledger = recordEvidence(@, m.a, m.b, "received")]
           after == IF session[p].helloReceived THEN new ELSE End(p)
<1>1. /\ session[p] \in SessionState /\ HasSlots(session[p], Offset[p]) /\ IsEnd(End(p))
      /\ End(p).store = store[p] /\ TypeOK
  BY EndIsEnd DEF SessionInv
<1>2. m.a \in Record /\ m.b \in Record
  BY DEF OnEquivocation, Message
<1>3. << >> \in Seq(Message)
  OBVIOUS
<1>4. IsEnd(new) /\ new.store.log = store[p].log
  <2> DEFINE end == End(p)
             ledger == recordEvidence(end.store.ledger, m.a, m.b, "received")
  <2>1. /\ DOMAIN end = {"store", "deferred"}
        /\ DOMAIN end.store = {"log", "names", "ledger"}
        /\ end.store.log \in Seq(Record)
        /\ IndexOK(end.store.names)
        /\ end.store.ledger \in Seq(Evidence)
        /\ IsQueue(end.deferred)
        /\ end.store = store[p]
    BY <1>1 DEF IsEnd, IsStore
  <2>2. ledger \in Seq(Evidence)
    <3>1. [origin |-> "received", a |-> m.a, b |-> m.b] \in Evidence
      BY <1>2 DEF Evidence, Origins
    <3> QED BY <2>1, <3>1 DEF recordEvidence
  <2>3. new = [end EXCEPT !.store.ledger = ledger]
    BY <2>1
  <2> HIDE DEF end, ledger, new
  <2>4. /\ DOMAIN new = {"store", "deferred"}
        /\ DOMAIN new.store = {"log", "names", "ledger"}
        /\ new.store.log = end.store.log
        /\ new.store.names = end.store.names
        /\ new.store.ledger = ledger
        /\ new.deferred = end.deferred
    BY <2>1, <2>3
  <2> QED BY <2>1, <2>2, <2>4 DEF IsEnd, IsStore
<1>5. Answer(p, session[p], after, << >>, inbox)
  BY DEF OnEquivocation
<1> HIDE DEF new
<1>6. IsEnd(after) /\ after.store.log = store[p].log
  BY <1>1, <1>4
<1> HIDE DEF after
<1>7. Took(p, session[p], after, << >>, inbox)
  BY <1>1, <1>3, <1>5, <1>6, AnswerDoes
<1> QED BY <1>6, <1>7

\* The timer: the deferred records are offered again, and the session asks.
LEMMA HeartbeatDoes ==
  ASSUME SessionInv, NEW p \in Peers, Heartbeat(p)
  PROVE  \E after : /\ IsEnd(after)
                    /\ Len(after.store.log) >= Len(store[p].log)
                    /\ Took(p, session[p], after, << >>, channel[p])
<1> DEFINE s == session[p]
           ready == expireWants(s, Clock(p))
           a == asked(ready, Clock(p))
           wants == nextWants(ready)
           start == [store |-> store[p], deferred |-> << >>]
           After(broken) == OfferAll(start, s.deferred, broken, Clock(p))
           o == Other(p)
<1>1. PICK broken :
        /\ store' = [store EXCEPT ![p] = After(broken).store]
        /\ session' = [session EXCEPT ![p] = [a EXCEPT !.deferred = After(broken).deferred]]
        /\ channel' = [channel EXCEPT ![o] = @ \o wants]
  BY DEF Heartbeat
<1>2. /\ s \in SessionState /\ HasSlots(s, Offset[p]) /\ TypeOK /\ s.deferred \in Seq(Record)
      /\ IsStore(store[p])
  BY EndIsEnd DEF SessionInv, SessionState, TypeOK
<1>3. IsEnd(start) /\ start.store = store[p]
  <2>1. IsQueue(<< >>)
    BY LimitsAssumption DEF IsQueue
  <2> QED BY <1>2, <2>1 DEF IsEnd
<1> DEFINE after == After(broken)
           new == [a EXCEPT !.deferred = after.deferred]
<1>4. IsEnd(after) /\ Len(after.store.log) >= Len(store[p].log)
  <2> HIDE DEF start
  <2> QED BY <1>2, <1>3, OfferAllKeeps
<1>5. /\ a \in SessionState
      /\ HasSlots(a, Offset[p])
      /\ a.helloReceived = s.helloReceived
      /\ a.remoteLength = s.remoteLength
      /\ a.fetchedThrough = s.fetchedThrough
      /\ wants \in Seq(Message)
      /\ \A i \in DOMAIN wants : IsWant(wants[i], s.remoteLength)
      /\ now < WantDeadlineSeconds => Len(a.outstanding) = Len(s.outstanding) + Len(wants)
  BY <1>2, PumpDoes
<1>6. o \in Peers /\ o # p /\ \A q \in Peers : q = p \/ q = o
  BY TwoEnds
<1>7. /\ DOMAIN store = Peers
      /\ session \in [Peers -> SessionState]
      /\ channel \in [Peers -> Seq(Message)]
  BY <1>2 DEF TypeOK
<1>8. after.deferred \in Seq(Record)
  BY <1>4 DEF IsEnd, IsQueue
<1> HIDE DEF ready, a, wants, after, o
<1>9. /\ new \in SessionState
      /\ new.helloReceived = s.helloReceived
      /\ new.remoteLength = s.remoteLength
      /\ new.fetchedThrough = s.fetchedThrough
      /\ new.deferred = after.deferred
      /\ new.outstanding = a.outstanding
  BY <1>5, <1>8 DEF SessionState
<1>10. /\ store' = [store EXCEPT ![p] = after.store]
       /\ session' = [session EXCEPT ![p] = new]
  BY <1>1 DEF after
<1> HIDE DEF new
<1>11. /\ session' \in [Peers -> SessionState]
       /\ session'[p] = new
       /\ session'[o] = session[o]
  BY <1>6, <1>7, <1>9, <1>10
<1>12. DOMAIN store' = Peers /\ store'[p] = after.store /\ store'[o] = store[o]
  BY <1>6, <1>7, <1>10
<1>13. /\ channel' \in [Peers -> Seq(Message)]
       /\ channel'[p] = channel[p]
       /\ channel'[o] = channel[o] \o wants
  BY <1>1, <1>5, <1>6, <1>7
<1>14. channel'[o] = ((channel[o] \o << >>) \o << >>) \o wants
  <2>1. channel[o] \in Seq(Message)
    BY <1>6, <1>7
  <2>2. channel[o] \o << >> = channel[o]
    BY <2>1
  <2> QED BY <1>13, <2>2
<1>15. << >> \in Seq(Message) /\ \A i \in DOMAIN << >> : << >>[i].t = "EQUIVOCATION"
  OBVIOUS
<1>16. Sends(p, s, << >>, << >>, wants)
  BY <1>5, <1>9, <1>11, <1>14, <1>15 DEF Sends, o
<1>17. HasSlots(session'[p], Offset[p])
  BY <1>5, <1>9, <1>11 DEF HasSlots
<1>18. Took(p, s, after, << >>, channel[p])
  BY <1>9, <1>11, <1>12, <1>13, <1>16, <1>17 DEF Took, o
<1> QED BY <1>4, <1>18

\* The message at the head of a queue, and the rest.
LEMMA HeadAndRest ==
  ASSUME SessionInv, NEW p \in Peers, channel[p] # << >>
  PROVE  Head(channel[p]) \in Message /\ Tail(channel[p]) \in Seq(Message)
<1>1. channel[p] \in Seq(Message)
  BY EndIsEnd
<1> QED BY <1>1

\* Handling a message keeps the invariant.
LEMMA OnDataKeeps ==
  ASSUME SessionInv, NEW p \in Peers, OnData(p)
  PROVE  SessionInv'
<1> DEFINE m == Head(channel[p])
           inbox == Tail(channel[p])
<1>1. m \in Message /\ inbox \in Seq(Message) /\ UNCHANGED <<now, connected>>
  BY HeadAndRest DEF OnData
<1>2. /\ OnHello(p, m, inbox) \/ OnWant(p, m, inbox) \/ OnRecords(p, m, inbox)
           \/ OnEquivocation(p, m, inbox)
  BY DEF OnData
<1>3. IsEnd(End(p)) /\ session[p] \in SessionState /\ HasSlots(session[p], Offset[p])
  BY EndIsEnd
<1> HIDE DEF m, inbox
<1>4. CASE OnHello(p, m, inbox)
  <2>1. covered' = covered
    BY <1>4 DEF OnHello
  <2> DEFINE s == AfterHello(session[p], m)
  <2>2. s.fetchedThrough = session[p].fetchedThrough /\ Took(p, s, End(p), << >>, inbox)
    BY <1>1, <1>4, HelloDoes
  <2> HIDE DEF s
  <2> QED BY <1>1, <1>3, <2>1, <2>2, QuietTurnKeeps
<1>5. CASE OnWant(p, m, inbox)
  <2>1. covered' = covered
    BY <1>5 DEF OnWant
  <2>2. PICK replies : Took(p, session[p], End(p), replies, inbox)
    BY <1>1, <1>5, WantDoes
  <2> QED BY <1>1, <1>3, <2>1, <2>2, QuietTurnKeeps
<1>6. CASE OnEquivocation(p, m, inbox)
  <2>1. covered' = covered
    BY <1>6 DEF OnEquivocation
  <2>2. PICK after : IsEnd(after) /\ Took(p, session[p], after, << >>, inbox)
    BY <1>1, <1>6, EquivocationDoes
  <2> QED BY <1>1, <2>1, <2>2, QuietTurnKeeps
<1>7. CASE OnRecords(p, m, inbox)
  <2>1. CASE ~session[p].helloReceived
    <3>1. Took(p, session[p], End(p), << >>, inbox) /\ covered' = covered
      BY <1>1, <1>7, <2>1, RecordsDoes
    <3> QED BY <1>1, <1>3, <3>1, QuietTurnKeeps
  <2>2. CASE session[p].helloReceived
    <3> DEFINE s == AfterRecords(session[p], m)
               got == (m.from)..(m.from + Len(m.recs) - 1)
    <3>1. PICK after : IsEnd(after) /\ Took(p, s, after, << >>, inbox)
      BY <1>1, <1>7, <2>2, RecordsDoes
    <3>2. covered' = [covered EXCEPT ![p] = @ \cup got]
      BY <1>1, <1>7, <2>2, RecordsDoes
    <3>3. m.t = "RECORDS" /\ m.from \in Nat /\ m.recs \in Seq(Record)
      BY <1>1, <1>7 DEF OnRecords, Message
    <3>4. got \subseteq Nat
      BY <3>3
    <3>5. 0..(s.fetchedThrough - 1) \subseteq 0..(session[p].fetchedThrough - 1) \cup got
      BY <1>1, <1>3, <3>3, AfterRecordsType
    <3> HIDE DEF s, got
    <3>6. covered \in [Peers -> SUBSET Nat]
          /\ 0..(session[p].fetchedThrough - 1) \subseteq covered[p]
      BY DEF SessionInv, TypeOK, NothingSkipped
    <3>7. Other(p) # p /\ Other(p) \in Peers
      BY TwoEnds
    <3>8. /\ covered' \in [Peers -> SUBSET Nat]
          /\ covered'[Other(p)] = covered[Other(p)]
          /\ covered'[p] = covered[p] \cup got
      BY <3>2, <3>4, <3>6, <3>7
    <3>9. 0..(s.fetchedThrough - 1) \subseteq covered'[p]
      BY <3>5, <3>6, <3>8
    <3> QED BY <1>1, <3>1, <3>8, <3>9, TurnKeeps
  <2> QED BY <2>1, <2>2
<1> QED BY <1>2, <1>4, <1>5, <1>6, <1>7

\* A new session has nothing in it.
LEMMA NewSessionType ==
  /\ NewSession \in SessionState
  /\ \A since : HasSlots(NewSession, since)
  /\ IsQueue(NewSession.deferred)
  /\ NewSession.fetchedThrough = 0
  /\ NewSession.outstanding = << >>
  /\ ~NewSession.helloReceived
  /\ NewSession.remoteLength = 0
<1>1. NewSession \in SessionState
  BY DEF NewSession, SessionState
<1>2. \A since : HasSlots(NewSession, since)
  BY LimitsAssumption DEF NewSession, HasSlots
<1>3. IsQueue(NewSession.deferred)
  BY LimitsAssumption DEF NewSession, IsQueue
<1>4. /\ NewSession.fetchedThrough = 0
      /\ NewSession.outstanding = << >>
      /\ ~NewSession.helloReceived
      /\ NewSession.remoteLength = 0
  BY DEF NewSession
<1> QED BY <1>1, <1>2, <1>3, <1>4

\* Both ends begin a session.
Fresh ==
  /\ DOMAIN store = Peers /\ \A p \in Peers : IsStore(store[p])
  /\ now \in Nat
  /\ connected \in BOOLEAN
  /\ channel \in [Peers -> Seq(Message)]
  /\ covered \in [Peers -> SUBSET Nat]
  /\ session = [p \in Peers |-> NewSession]

\* Sessions that have just begun satisfy the invariant.
LEMMA FreshKeeps == Fresh => SessionInv
<1> SUFFICES ASSUME Fresh PROVE SessionInv
  OBVIOUS
<1> USE DEF Fresh
<1>1. TypeOK
  BY NewSessionType DEF TypeOK
<1>2. NothingSkipped
  BY NewSessionType DEF NothingSkipped
<1>3. DeferredDistinct
  BY NewSessionType DEF DeferredDistinct, IsQueue
<1>4. SlotsAreBounded
  BY NewSessionType DEF SlotsAreBounded, HasSlots
<1> QED BY <1>1, <1>2, <1>3, <1>4 DEF SessionInv

\* Both ends begin with empty stores and fresh sessions.
LEMMA InitSession == Init => SessionInv
<1> SUFFICES ASSUME Init PROVE Fresh
  BY FreshKeeps
<1>1. DOMAIN store = Peers /\ \A p \in Peers : IsStore(store[p])
  <2> DEFINE empty == [log |-> << >>, names |-> EmptyIndex, ledger |-> << >>]
  <2>1. IsStore(empty)
    BY EmptyIndexOK DEF IsStore
  <2> HIDE DEF empty
  <2>2. store = [p \in Peers |-> empty]
    BY DEF Init, empty
  <2> QED BY <2>1, <2>2
<1>2. connected \in BOOLEAN
  BY Zenon DEF Init
<1>3. /\ now \in Nat
      /\ channel \in [Peers -> Seq(Message)]
      /\ covered \in [Peers -> SUBSET Nat]
      /\ session = [p \in Peers |-> NewSession]
  BY DEF Init
<1> QED BY <1>1, <1>2, <1>3 DEF Fresh

\* A HELLO on each stream, unless the other end is hostile.
LEMMA ConnectDoes ==
  ASSUME SessionInv, Connect
  PROVE  /\ channel' \in [Peers -> Seq(Message)]
         /\ Fresh'
<1>1. \A p \in Peers : Other(p) \in Peers /\ store[Other(p)].log \in Seq(Record)
  BY TwoEnds DEF SessionInv, TypeOK, IsStore
<1>2. \A p \in Peers :
        [t |-> "HELLO", v |-> PROTOCOL_VERSION, len |-> Len(store[Other(p)].log)] \in Message
  <2> SUFFICES ASSUME NEW p \in Peers
               PROVE  [t |-> "HELLO", v |-> PROTOCOL_VERSION,
                       len |-> Len(store[Other(p)].log)] \in Message
    OBVIOUS
  <2>1. Len(store[Other(p)].log) \in Nat /\ PROTOCOL_VERSION \in Nat
    BY <1>1 DEF PROTOCOL_VERSION
  <2> QED BY <2>1 DEF Message
<1>3. channel' \in [Peers -> Seq(Message)]
  <2> DEFINE Hello(p) == [t |-> "HELLO", v |-> PROTOCOL_VERSION,
                          len |-> Len(store[Other(p)].log)]
  <2>1. channel' = [p \in Peers |-> IF Other(p) \in Hostile THEN << >> ELSE <<Hello(p)>>]
    BY DEF Connect
  <2>2. \A p \in Peers : Hello(p) \in Message
    BY <1>2
  <2> HIDE DEF Hello
  <2> QED BY <2>1, <2>2
<1>4. connected' \in BOOLEAN
  BY Zenon DEF Connect
<1>5. /\ now' \in Nat
      /\ DOMAIN store' = Peers /\ (\A p \in Peers : IsStore(store[p]))'
      /\ covered' \in [Peers -> SUBSET Nat]
      /\ session' = [p \in Peers |-> NewSession]
  BY DEF Connect, SessionInv, TypeOK
<1> QED BY <1>3, <1>4, <1>5 DEF Fresh

\* A record that another connection brings.
LEMMA ArriveDoes ==
  ASSUME SessionInv, NEW p \in Peers, NEW r \in Record, Arrive(p, r)
  PROVE  /\ DOMAIN store' = Peers
         /\ \A q \in Peers : /\ IsStore(store'[q])
                             /\ Len(store'[q].log) >= Len(store[q].log)
<1> DEFINE start == [store |-> store[p], deferred |-> << >>]
           end == Offer(start, r, Clock(p))
<1>1. DOMAIN store = Peers /\ \A q \in Peers : IsStore(store[q])
  BY DEF SessionInv, TypeOK
<1>2. IsEnd(start) /\ start.store = store[p]
  <2>1. IsQueue(<< >>)
    BY LimitsAssumption DEF IsQueue
  <2> QED BY <1>1, <2>1 DEF IsEnd
<1>3. store' = [store EXCEPT ![p] = end.store]
  BY <1>1 DEF Arrive
<1>4. IsEnd(end) /\ Len(end.store.log) >= Len(store[p].log)
  <2> HIDE DEF start
  <2> QED BY <1>2, OfferKeeps
<1> HIDE DEF end
<1>5. IsStore(end.store)
  BY <1>4 DEF IsEnd
<1>6. \A q \in Peers : Len(store[q].log) >= Len(store[q].log)
  <2>1. \A q \in Peers : Len(store[q].log) \in Nat
    BY <1>1 DEF IsStore
  <2> QED BY <2>1
<1>7. store'[p] = end.store /\ \A q \in Peers : q # p => store'[q] = store[q]
  BY <1>1, <1>3
<1> QED BY <1>1, <1>3, <1>4, <1>5, <1>6, <1>7

\* What a hostile end sends is a message.
LEMMA InjectDoes ==
  ASSUME SessionInv, NEW p \in Peers, NEW m \in HostileMessages, Inject(p, m)
  PROVE  channel' \in [Peers -> Seq(Message)]
<1>1. m \in Message /\ channel \in [Peers -> Seq(Message)]
  BY EndsAssumption DEF SessionInv, TypeOK
<1>2. channel' = [channel EXCEPT ![p] = Append(@, m), ![Other(p)] = << >>]
  BY DEF Inject
<1>3. Append(channel[p], m) \in Seq(Message) /\ << >> \in Seq(Message)
  BY <1>1
<1> QED BY <1>1, <1>2, <1>3, TwoEnds

\* Every step keeps the invariant.
LEMMA NextSession == SessionInv /\ [Next]_vars => SessionInv'
<1> SUFFICES ASSUME SessionInv, [Next]_vars PROVE SessionInv'
  OBVIOUS
<1>0. /\ now \in Nat /\ DOMAIN store = Peers /\ session \in [Peers -> SessionState]
      /\ (\A q \in Peers : IsStore(store[q]))
      /\ channel \in [Peers -> Seq(Message)] /\ covered \in [Peers -> SUBSET Nat]
  BY DEF SessionInv, TypeOK
<1>b. connected \in BOOLEAN
  BY Zenon DEF SessionInv, TypeOK
<1>1. CASE Tick
  <2>1. UNCHANGED <<store, session, channel, connected, covered>> /\ now' \in Nat
    BY <1>0, <1>1 DEF Tick
  <2> QED BY <2>1 DEF SessionInv, TypeOK, NothingSkipped, DeferredDistinct, SlotsAreBounded
<1>2. CASE Connect
  <2>1. Fresh'
    BY <1>2, ConnectDoes
  <2> QED BY <2>1, FreshKeeps, PTL
<1>3. CASE Disconnect
  <2>1. connected' \in BOOLEAN
    BY <1>3, Zenon DEF Disconnect
  <2>2. /\ now' \in Nat
        /\ DOMAIN store' = Peers /\ (\A p \in Peers : IsStore(store[p]))'
        /\ channel' \in [Peers -> Seq(Message)]
        /\ covered' \in [Peers -> SUBSET Nat]
        /\ session' = [p \in Peers |-> NewSession]
    BY <1>0, <1>3 DEF Disconnect
  <2>3. Fresh'
    BY <2>1, <2>2 DEF Fresh
  <2> QED BY <2>3, FreshKeeps, PTL
<1>4. ASSUME NEW p \in Peers, OnData(p) PROVE SessionInv'
  BY <1>4, OnDataKeeps
<1>5. ASSUME NEW p \in Peers, Heartbeat(p) PROVE SessionInv'
  <2>1. UNCHANGED <<now, connected, covered>>
    BY <1>5 DEF Heartbeat
  <2>2. PICK after : IsEnd(after) /\ Took(p, session[p], after, << >>, channel[p])
    BY <1>5, HeartbeatDoes
  <2> QED BY <2>1, <2>2, QuietTurnKeeps
<1>6. ASSUME NEW p \in Peers, NEW r \in Elsewhere[p], Arrive(p, r) PROVE SessionInv'
  <2>1. r \in Record
    BY EndsAssumption
  <2>2. DOMAIN store' = Peers /\ (\A q \in Peers : IsStore(store[q]))'
    BY <1>6, <2>1, ArriveDoes
  <2>3. UNCHANGED <<now, session, channel, connected, covered>>
    BY <1>6 DEF Arrive
  <2> QED BY <2>2, <2>3
        DEF SessionInv, TypeOK, NothingSkipped, DeferredDistinct, SlotsAreBounded
<1>7. ASSUME NEW p \in Peers, NEW m \in HostileMessages, Inject(p, m) PROVE SessionInv'
  <2>1. channel' \in [Peers -> Seq(Message)]
    BY <1>7, InjectDoes
  <2>2. UNCHANGED <<now, store, session, connected, covered>>
    BY <1>7 DEF Inject
  <2> QED BY <2>1, <2>2
        DEF SessionInv, TypeOK, NothingSkipped, DeferredDistinct, SlotsAreBounded
<1>8. CASE UNCHANGED vars
  BY <1>8 DEF vars, SessionInv, TypeOK, NothingSkipped, DeferredDistinct, SlotsAreBounded
<1> QED BY <1>1, <1>2, <1>3, <1>4, <1>5, <1>6, <1>7, <1>8 DEF Next

\* The invariant of the session holds whatever the other end sends, in whatever order
\* records, timers, reconnections and other connections come.
THEOREM SessionInvariant == Spec => []SessionInv
BY InitSession, NextSession, PTL DEF Spec

\* Stores, cursors, queues and messages keep their types (replicate.ts, swarm.ts): in
\* particular no cursor goes below zero when an expired request is asked for again.
THEOREM SessionTypeCorrect == Spec => []TypeOK
<1>1. SessionInv => TypeOK
  BY DEF SessionInv
<1> QED BY <1>1, SessionInvariant, PTL

\* replicate.ts, onRecords: the cursor into the remote log never passes a position that
\* was not delivered, whatever the remote sends.
THEOREM NothingSkippedHolds == Spec => []NothingSkipped
<1>1. SessionInv => NothingSkipped
  BY DEF SessionInv
<1> QED BY <1>1, SessionInvariant, PTL

\* replicate.ts, holdDeferred and retryDeferred: the deferral queue holds distinct
\* records and at most its limit, whatever is resent, retried or evicted.
THEOREM DeferredDistinctHolds == Spec => []DeferredDistinct
<1>1. SessionInv => DeferredDistinct
  BY DEF SessionInv
<1> QED BY <1>1, SessionInvariant, PTL

-----------------------------------------------------------------------------
(***************************************************************************)
(* Counting messages in a queue.                                           *)
(***************************************************************************)
Count(queue, t) == Cardinality(Carrying(queue, t))

\* The messages of one kind in a queue can be counted.
LEMMA CarryingFinite ==
  ASSUME NEW q \in Seq(Message), NEW t
  PROVE  /\ IsFiniteSet(Carrying(q, t)) /\ Count(q, t) \in Nat
         /\ Carrying(q, t) \subseteq 1..Len(q)
<1>1. Carrying(q, t) \subseteq 1..Len(q) /\ Len(q) \in Nat
  BY DEF Carrying
<1>2. IsFiniteSet(1..Len(q))
  BY <1>1, CountTo
<1>3. IsFiniteSet(Carrying(q, t))
  BY <1>1, <1>2, FS_Subset
<1> QED BY <1>1, <1>3, FS_CardinalityType DEF Count

\* A queue with none of a kind, and one with nothing else.
LEMMA CountUniform ==
  ASSUME NEW q \in Seq(Message), NEW t
  PROVE  /\ (\A i \in DOMAIN q : q[i].t # t) => Count(q, t) = 0
         /\ (\A i \in DOMAIN q : q[i].t = t) => Count(q, t) = Len(q)
<1>1. ASSUME \A i \in DOMAIN q : q[i].t # t PROVE Count(q, t) = 0
  <2>1. Carrying(q, t) = {}
    BY <1>1 DEF Carrying
  <2> QED BY <2>1, FS_EmptySet DEF Count
<1>2. ASSUME \A i \in DOMAIN q : q[i].t = t PROVE Count(q, t) = Len(q)
  <2>1. Carrying(q, t) = 1..Len(q) /\ Len(q) \in Nat
    BY <1>2 DEF Carrying
  <2> QED BY <2>1, CountTo DEF Count
<1> QED BY <1>1, <1>2

\* What is in two queues, one after the other.
LEMMA CountConcat ==
  ASSUME NEW q \in Seq(Message), NEW r \in Seq(Message), NEW t
  PROVE  Count(q \o r, t) = Count(q, t) + Count(r, t)
<1> DEFINE n == Len(q)
           Q == Carrying(q, t)
           R == Carrying(r, t)
           S == {i \in (n + 1)..(n + Len(r)) : r[i - n].t = t}
           f == [i \in R |-> i + n]
<1>0. n \in Nat /\ Len(r) \in Nat /\ DOMAIN q = 1..n /\ DOMAIN r = 1..Len(r)
  OBVIOUS
<1>1. /\ IsFiniteSet(Q) /\ IsFiniteSet(R) /\ Q \subseteq 1..n /\ R \subseteq 1..Len(r)
      /\ Cardinality(Q) \in Nat /\ Cardinality(R) \in Nat
  BY CarryingFinite DEF Count
<1>2. R = {i \in 1..Len(r) : r[i].t = t} /\ Q = {i \in 1..n : q[i].t = t}
  BY <1>0 DEF Carrying
<1>3. f \in Bijection(R, S)
  <2> HIDE DEF R, n
  <2>1. f \in [R -> S]
    <3>1. ASSUME NEW i \in R PROVE i + n \in S
      <4>1. i \in 1..Len(r) /\ r[i].t = t
        BY <1>2
      <4>2. i + n \in (n + 1)..(n + Len(r)) /\ (i + n) - n = i
        BY <1>0, <4>1
      <4> QED BY <4>1, <4>2
    <3> QED BY <3>1
  <2>2. \A i, j \in R : f[i] = f[j] => i = j
    BY <1>0, <1>2
  <2>3. ASSUME NEW k \in S PROVE \E i \in R : f[i] = k
    <3>1. k - n \in 1..Len(r) /\ r[k - n].t = t /\ (k - n) + n = k
      BY <1>0
    <3>2. k - n \in R
      BY <1>2, <3>1
    <3> QED BY <3>1, <3>2
  <2> HIDE DEF S, f
  <2>4. DOMAIN f = R
    BY <2>1
  <2> QED BY <2>1, <2>2, <2>3, <2>4 DEF Bijection, Injection, Surjection, IsInjective
<1>4. IsFiniteSet(S) /\ Cardinality(S) = Cardinality(R)
  <2> HIDE DEF R, S, f
  <2>1. ExistsBijection(R, S)
    BY <1>3 DEF ExistsBijection
  <2> QED BY <1>1, <2>1, FS_Bijection
<1>5. Carrying(q \o r, t) = Q \cup S
  <2>1. DOMAIN (q \o r) = 1..(n + Len(r))
    BY <1>0
  <2>2. \A i \in 1..n : (q \o r)[i] = q[i]
    BY <1>0
  <2>3. \A i \in (n + 1)..(n + Len(r)) : (q \o r)[i] = r[i - n]
    BY <1>0
  <2>4. 1..(n + Len(r)) = 1..n \cup (n + 1)..(n + Len(r))
    BY <1>0
  <2> DEFINE c == q \o r
  <2>5. Carrying(c, t) = {i \in 1..(n + Len(r)) : c[i].t = t}
    BY <2>1 DEF Carrying
  <2> HIDE DEF c, n, Q
  <2>6. /\ \A i \in 1..n : c[i] = q[i]
        /\ \A i \in (n + 1)..(n + Len(r)) : c[i] = r[i - n]
    BY <2>2, <2>3 DEF c
  <2>7. Carrying(c, t) = Q \cup S
    BY <1>2, <2>4, <2>5, <2>6
  <2> QED BY <2>7 DEF c
<1>6. Q \cap S = {}
  <2> HIDE DEF Q, n
  <2> QED BY <1>0, <1>1
<1> HIDE DEF Q, R, S, n
<1>7. /\ IsFiniteSet(Q \cap S)
      /\ Cardinality(Q \cup S) = Cardinality(Q) + Cardinality(S) - Cardinality(Q \cap S)
  BY <1>1, <1>4, <1>6, FS_Union, FS_EmptySet
<1>8. Cardinality(Q \cap S) = 0
  BY <1>6, FS_EmptySet
<1>9. Cardinality(Q \cup S) = Cardinality(Q) + Cardinality(R)
  BY <1>1, <1>4, <1>7, <1>8
<1> QED BY <1>5, <1>9 DEF Count, Q, R

\* Taking a message off a queue.
LEMMA CountHead ==
  ASSUME NEW q \in Seq(Message), q # << >>, NEW t
  PROVE  /\ Head(q).t = t => Count(q, t) = Count(Tail(q), t) + 1
         /\ Head(q).t # t => Count(q, t) = Count(Tail(q), t)
<1> DEFINE h == Head(q)
           r == Tail(q)
<1>1. h \in Message /\ r \in Seq(Message) /\ q = <<h>> \o r
  OBVIOUS
<1> HIDE DEF h, r
<1>2. <<h>> \in Seq(Message) /\ Len(<<h>>) = 1 /\ \A i \in DOMAIN <<h>> : <<h>>[i] = h
  BY <1>1
<1>3. Count(q, t) = Count(<<h>>, t) + Count(r, t)
  BY <1>1, <1>2, CountConcat
<1>4. Count(r, t) \in Nat
  BY <1>1, CarryingFinite
<1>5. h.t = t => Count(<<h>>, t) = 1
  BY <1>2, CountUniform
<1>6. h.t # t => Count(<<h>>, t) = 0
  BY <1>2, CountUniform
<1> QED BY <1>3, <1>4, <1>5, <1>6 DEF h, r

-----------------------------------------------------------------------------
(***************************************************************************)
(* Two ends that both run this code.                                       *)
(***************************************************************************)

\* What the invariant says of one end.
AsksWell(p) ==
  /\ \/ session[p].helloReceived
     \/ /\ channel[p] # << >>
        /\ channel[p][1].t = "HELLO"
        /\ channel[p][1].v = PROTOCOL_VERSION
        /\ channel[p][1].len <= Len(store[Other(p)].log)
  /\ session[p].remoteLength <= Len(store[Other(p)].log)
  /\ \A i \in DOMAIN channel[p] : channel[p][i].t = "WANT" =>
       channel[p][i].count \in 1..WantCount /\ channel[p][i].from < Len(store[p].log)

\* A request that is on its way is for something that is there.
LEMMA WantOnItsWay ==
  ASSUME SessionInv, AsksForWhatIsThere, connected, NEW p \in Peers,
         NEW i \in DOMAIN channel[p], channel[p][i].t = "WANT"
  PROVE  IsWant(channel[p][i], Len(store[p].log))
<1>1. channel[p] \in Seq(Message)
  BY EndIsEnd
<1>2. channel[p][i] \in Message
  BY <1>1
<1> QED BY <1>2 DEF AsksForWhatIsThere, IsWant

\* Two queues, one after the other: where an element comes from, and which is first.
LEMMA ConcatElements ==
  ASSUME NEW q \in Seq(Message), NEW r \in Seq(Message)
  PROVE  /\ q \o r \in Seq(Message)
         /\ q # << >> => q \o r # << >> /\ (q \o r)[1] = q[1]
         /\ \A i \in DOMAIN (q \o r) :
              \/ \E j \in DOMAIN q : (q \o r)[i] = q[j]
              \/ \E j \in DOMAIN r : (q \o r)[i] = r[j]
<1>1. q \o r \in Seq(Message) /\ (q # << >> => q \o r # << >> /\ (q \o r)[1] = q[1])
  OBVIOUS
<1>2. ASSUME NEW i \in DOMAIN (q \o r)
      PROVE  \/ \E j \in DOMAIN q : (q \o r)[i] = q[j]
             \/ \E j \in DOMAIN r : (q \o r)[i] = r[j]
  <2>1. i \in 1..(Len(q) + Len(r)) /\ Len(q) \in Nat /\ Len(r) \in Nat
    OBVIOUS
  <2>2. CASE i <= Len(q)
    <3>1. i \in DOMAIN q /\ (q \o r)[i] = q[i]
      BY <2>1, <2>2
    <3> QED BY <3>1
  <2>3. CASE i > Len(q)
    <3>1. i - Len(q) \in DOMAIN r /\ (q \o r)[i] = r[i - Len(q)]
      BY <2>1, <2>3
    <3> QED BY <3>1
  <2> QED BY <2>1, <2>2, <2>3
<1> QED BY <1>1, <1>2

\* A turn of p that takes from p's queue what it answers: the rest of the queue, the
\* replies and the slots still balance.
Balanced(p, s, after, replies, inbox) ==
  /\ Len(after.store.log) >= Len(store[p].log)
  /\ s.remoteLength <= Len(store[Other(p)].log)
  /\ s.helloReceived \/ (inbox = channel[p] /\ ~session[p].helloReceived)
  /\ \A i \in DOMAIN inbox : \E j \in DOMAIN channel[p] : inbox[i] = channel[p][j]
  /\ \A i \in DOMAIN replies : replies[i].t = "RECORDS"
  /\ now < WantDeadlineSeconds =>
       /\ Len(s.outstanding) = Count(channel[Other(p)], "WANT") + Count(inbox, "RECORDS")
       /\ Count(inbox, "WANT") + Len(replies) = Count(channel[p], "WANT")

\* Such a turn keeps both parts of the invariant.
LEMMA HonestTurnKeeps ==
  ASSUME HonestInv, Hostile = {}, connected, NEW p \in Peers,
         NEW s \in SessionState, NEW after, IsEnd(after),
         NEW replies \in Seq(Message), NEW inbox \in Seq(Message),
         Took(p, s, after, replies, inbox), UNCHANGED <<now, connected>>,
         Balanced(p, s, after, replies, inbox)
  PROVE  AsksForWhatIsThere' /\ SlotsAreRequests'
<1> DEFINE o == Other(p)
<1> USE DEF Balanced
<1>0. o \in Peers /\ o # p /\ Other(o) = p /\ \A q \in Peers : q = p \/ q = o
  BY TwoEnds
<1>t. /\ store'[p] = after.store /\ store'[o] = store[o]
      /\ session' \in [Peers -> SessionState] /\ session'[o] = session[o]
      /\ session'[p].helloReceived = s.helloReceived
      /\ session'[p].remoteLength = s.remoteLength
      /\ channel'[p] = inbox
      /\ channel' \in [Peers -> Seq(Message)]
  BY DEF Took
<1>s. PICK offer, wants : Sends(p, s, replies, offer, wants)
  BY DEF Took
<1>w. /\ channel'[o] = ((channel[o] \o replies) \o offer) \o wants
      /\ offer \in Seq(Message) /\ \A i \in DOMAIN offer : offer[i].t = "EQUIVOCATION"
      /\ wants \in Seq(Message) /\ \A i \in DOMAIN wants : IsWant(wants[i], s.remoteLength)
      /\ now < WantDeadlineSeconds
           => Len(session'[p].outstanding) = Len(s.outstanding) + Len(wants)
  BY <1>s DEF Sends
<1>c. channel[o] \in Seq(Message) /\ channel[p] \in Seq(Message)
  BY <1>0, EndIsEnd DEF HonestInv
<1>l. /\ Len(store[p].log) \in Nat /\ Len(store[o].log) \in Nat
      /\ Len(after.store.log) \in Nat
  <2>1. IsStore(store[p]) /\ IsStore(store[o]) /\ IsStore(after.store)
    BY <1>0 DEF HonestInv, SessionInv, TypeOK, IsEnd
  <2> QED BY <2>1 DEF IsStore
<1>a. AsksWell(p) /\ AsksWell(o)
  BY <1>0 DEF HonestInv, AsksForWhatIsThere, AsksWell
<1> DEFINE ab == channel[o] \o replies
           abc == ab \o offer
<1>d. ab \in Seq(Message) /\ abc \in Seq(Message)
  BY <1>c, <1>w
<1>e. channel'[o] = abc \o wants
  BY <1>w
<1>x. offer \in Seq(Message) /\ wants \in Seq(Message)
  BY <1>w
<1>1. AsksForWhatIsThere'
  <2>1. AsksWell(p)'
    <3>1. \/ session'[p].helloReceived
          \/ /\ channel'[p] # << >>
             /\ channel'[p][1].t = "HELLO"
             /\ channel'[p][1].v = PROTOCOL_VERSION
             /\ channel'[p][1].len <= Len(store'[o].log)
      BY <1>a, <1>t DEF AsksWell
    <3>2. session'[p].remoteLength <= Len(store'[o].log)
      BY <1>t
    <3>3. ASSUME NEW i \in DOMAIN channel'[p], channel'[p][i].t = "WANT"
          PROVE  /\ channel'[p][i].count \in 1..WantCount
                 /\ channel'[p][i].from < Len(store'[p].log)
      <4>1. PICK j \in DOMAIN channel[p] : inbox[i] = channel[p][j]
        BY <1>t, <3>3
      <4>2. IsWant(channel[p][j], Len(store[p].log))
        BY <1>t, <3>3, <4>1, WantOnItsWay DEF HonestInv
      <4>3. inbox[i].from \in Nat /\ inbox[i].from < Len(store[p].log)
            /\ inbox[i].count \in 1..WantCount
        BY <4>1, <4>2 DEF IsWant, Message
      <4> QED BY <1>l, <1>t, <4>3
    <3> QED BY <3>1, <3>2, <3>3 DEF AsksWell
  <2>2. AsksWell(o)'
    <3>1. \/ session'[o].helloReceived
          \/ /\ channel'[o] # << >>
             /\ channel'[o][1].t = "HELLO"
             /\ channel'[o][1].v = PROTOCOL_VERSION
             /\ channel'[o][1].len <= Len(store'[p].log)
      <4>1. SUFFICES ASSUME ~session[o].helloReceived
                     PROVE  /\ channel'[o] # << >>
                            /\ channel'[o][1].t = "HELLO"
                            /\ channel'[o][1].v = PROTOCOL_VERSION
                            /\ channel'[o][1].len <= Len(store'[p].log)
        BY <1>t
      <4>2. /\ channel[o] # << >>
            /\ channel[o][1].t = "HELLO"
            /\ channel[o][1].v = PROTOCOL_VERSION
            /\ channel[o][1].len <= Len(store[p].log)
        BY <1>0, <1>a, <4>1 DEF AsksWell
      <4>3. ab # << >> /\ ab[1] = channel[o][1]
        BY <1>c, <4>2, ConcatElements
      <4>4. abc # << >> /\ abc[1] = channel[o][1]
        <5> HIDE DEF ab
        <5> QED BY <1>d, <1>x, <4>3, ConcatElements
      <4>5. channel'[o] # << >> /\ channel'[o][1] = channel[o][1]
        <5> HIDE DEF abc
        <5> QED BY <1>d, <1>e, <1>x, <4>4, ConcatElements
      <4>6. channel[o][1] \in Message /\ channel[o][1].len \in Nat
        <5>1. channel[o][1] \in Message
          BY <1>c, <4>2
        <5> QED BY <4>2, <5>1 DEF Message
      <4> QED BY <1>l, <1>t, <4>2, <4>5, <4>6
    <3>2. session'[o].remoteLength <= Len(store'[p].log)
      <4>1. session[o].remoteLength \in Nat /\ session[o].remoteLength <= Len(store[p].log)
        BY <1>0, <1>a, EndIsEnd DEF AsksWell, HonestInv, SessionState
      <4> QED BY <1>l, <1>t, <4>1
    <3>3. ASSUME NEW i \in DOMAIN channel'[o], channel'[o][i].t = "WANT"
          PROVE  /\ channel'[o][i].count \in 1..WantCount
                 /\ channel'[o][i].from < Len(store'[o].log)
      <4>1. \/ \E j \in DOMAIN abc : channel'[o][i] = abc[j]
            \/ \E j \in DOMAIN wants : channel'[o][i] = wants[j]
        <5> HIDE DEF abc
        <5>1. \A k \in DOMAIN (abc \o wants) :
                \/ \E j \in DOMAIN abc : (abc \o wants)[k] = abc[j]
                \/ \E j \in DOMAIN wants : (abc \o wants)[k] = wants[j]
          BY <1>d, <1>x, ConcatElements
        <5> QED BY <1>e, <5>1, Zenon
      <4>2. CASE \E j \in DOMAIN wants : channel'[o][i] = wants[j]
        <5>1. IsWant(channel'[o][i], s.remoteLength)
          BY <1>w, <4>2
        <5>2. channel'[o][i].from \in Nat /\ s.remoteLength \in Nat
              /\ channel'[o][i].from < s.remoteLength /\ channel'[o][i].count \in 1..WantCount
          BY <5>1 DEF IsWant, Message, SessionState
        <5> QED BY <1>l, <1>t, <5>2
      <4>3. ASSUME NEW j \in DOMAIN abc, channel'[o][i] = abc[j]
            PROVE  \E k \in DOMAIN channel[o] : channel'[o][i] = channel[o][k]
        <5>1. abc[j].t = "WANT"
          BY <3>3, <4>3
        <5>2. \/ \E k \in DOMAIN ab : abc[j] = ab[k]
              \/ \E k \in DOMAIN offer : abc[j] = offer[k]
          <6> HIDE DEF ab
          <6> QED BY <1>d, <1>x, ConcatElements
        <5>3. ~\E k \in DOMAIN offer : abc[j] = offer[k]
          <6> HIDE DEF abc
          <6> QED BY <1>w, <5>1
        <5>4. PICK k \in DOMAIN ab : abc[j] = ab[k]
          BY <5>2, <5>3
        <5>5. \/ \E l \in DOMAIN channel[o] : ab[k] = channel[o][l]
              \/ \E l \in DOMAIN replies : ab[k] = replies[l]
          BY <1>c, ConcatElements
        <5> HIDE DEF ab, abc
        <5>6. ~\E l \in DOMAIN replies : ab[k] = replies[l]
          BY <5>1, <5>4
        <5> QED BY <4>3, <5>4, <5>5, <5>6
      <4>4. CASE \E j \in DOMAIN abc : channel'[o][i] = abc[j]
        <5>1. PICK k \in DOMAIN channel[o] : channel'[o][i] = channel[o][k]
          <6> HIDE DEF abc
          <6> QED BY <4>3, <4>4
        <5>2. IsWant(channel[o][k], Len(store[o].log))
          BY <1>0, <3>3, <5>1, WantOnItsWay DEF HonestInv
        <5> QED BY <1>t, <5>1, <5>2 DEF IsWant
      <4> QED BY <4>1, <4>2, <4>4
    <3> QED BY <1>0, <3>1, <3>2, <3>3 DEF AsksWell
  <2> QED BY <1>0, <2>1, <2>2 DEF AsksForWhatIsThere, AsksWell
<1>2. SlotsAreRequests'
  <2> SUFFICES ASSUME now < WantDeadlineSeconds
               PROVE  /\ Len(session'[p].outstanding) = Count(channel'[o], "WANT")
                                                         + Count(channel'[p], "RECORDS")
                      /\ Len(session'[o].outstanding) = Count(channel'[p], "WANT")
                                                         + Count(channel'[o], "RECORDS")
    BY <1>0 DEF SlotsAreRequests, InFlight, Count
  <2>1. \A t : /\ Count(channel[o], t) \in Nat /\ Count(channel[p], t) \in Nat
               /\ Count(inbox, t) \in Nat /\ Count(ab, t) \in Nat /\ Count(abc, t) \in Nat
               /\ Count(replies, t) \in Nat /\ Count(offer, t) \in Nat
               /\ Count(wants, t) \in Nat
    <3> HIDE DEF ab, abc
    <3> QED BY <1>c, <1>d, <1>w, CarryingFinite
  <2>2. \A t : Count(ab, t) = Count(channel[o], t) + Count(replies, t)
    BY <1>c, CountConcat
  <2>3. \A t : Count(abc, t) = Count(ab, t) + Count(offer, t)
    <3> HIDE DEF ab
    <3> QED BY <1>d, <1>w, CountConcat
  <2>4. \A t : Count(channel'[o], t) = Count(abc, t) + Count(wants, t)
    <3> HIDE DEF abc
    <3> QED BY <1>d, <1>e, <1>x, CountConcat
  <2>5. Count(wants, "WANT") = Len(wants) /\ Count(wants, "RECORDS") = 0
    <3>1. \A i \in DOMAIN wants : wants[i].t = "WANT" /\ wants[i].t # "RECORDS"
      BY <1>w DEF IsWant
    <3> QED BY <1>w, <3>1, CountUniform
  <2>6. Count(offer, "WANT") = 0 /\ Count(offer, "RECORDS") = 0
    <3>1. \A i \in DOMAIN offer : offer[i].t # "WANT" /\ offer[i].t # "RECORDS"
      BY <1>w
    <3> QED BY <1>w, <3>1, CountUniform
  <2>7. Count(replies, "WANT") = 0 /\ Count(replies, "RECORDS") = Len(replies)
    <3>1. \A i \in DOMAIN replies : replies[i].t # "WANT"
      OBVIOUS
    <3> QED BY <3>1, CountUniform
  <2>8. Count(channel'[o], "WANT") = Count(channel[o], "WANT") + Len(wants)
    <3> HIDE DEF ab, abc
    <3> QED BY <1>w, <2>1, <2>2, <2>3, <2>4, <2>5, <2>6, <2>7
  <2>9. Count(channel'[o], "RECORDS") = Count(channel[o], "RECORDS") + Len(replies)
    <3> HIDE DEF ab, abc
    <3> QED BY <2>1, <2>2, <2>3, <2>4, <2>5, <2>6, <2>7
  <2>10. Len(session[o].outstanding) = Count(channel[p], "WANT") + Count(channel[o], "RECORDS")
    BY <1>0 DEF HonestInv, SlotsAreRequests, InFlight, Count
  <2>11. Len(session'[p].outstanding) = Len(s.outstanding) + Len(wants) /\ Len(wants) \in Nat
         /\ Len(replies) \in Nat
    BY <1>w
  <2> HIDE DEF ab, abc
  <2>12. Len(session'[p].outstanding) = Count(channel'[o], "WANT") + Count(inbox, "RECORDS")
    <3>1. Len(s.outstanding) = Count(channel[o], "WANT") + Count(inbox, "RECORDS")
      OBVIOUS
    <3>2. /\ Count(channel[o], "WANT") \in Nat /\ Count(inbox, "RECORDS") \in Nat
      BY <2>1
    <3> QED BY <2>8, <2>11, <3>1, <3>2
  <2>13. Len(session[o].outstanding) = Count(inbox, "WANT") + Count(channel'[o], "RECORDS")
    BY <2>1, <2>9, <2>10, <2>11
  <2> QED BY <1>t, <2>12, <2>13
<1> QED BY <1>1, <1>2

\* The rest of a queue is of the queue.
LEMMA RestIsOfQueue ==
  ASSUME NEW q \in Seq(Message), q # << >>
  PROVE  /\ \A i \in DOMAIN Tail(q) : \E j \in DOMAIN q : Tail(q)[i] = q[j]
         /\ Head(q) = q[1] /\ 1 \in DOMAIN q
<1>1. \A i \in DOMAIN Tail(q) : i + 1 \in DOMAIN q /\ Tail(q)[i] = q[i + 1]
  OBVIOUS
<1>2. Head(q) = q[1] /\ 1 \in DOMAIN q
  OBVIOUS
<1> QED BY <1>1, <1>2

\* Handling a message.
LEMMA HonestOnData ==
  ASSUME HonestInv, Hostile = {}, NEW p \in Peers, OnData(p)
  PROVE  AsksForWhatIsThere' /\ SlotsAreRequests'
<1> DEFINE q == channel[p]
           m == Head(q)
           inbox == Tail(q)
           o == Other(p)
           old == session[p]
<1>1. connected /\ q # << >> /\ UNCHANGED <<now, connected>> /\ SessionInv
  BY DEF OnData, HonestInv
<1>2. /\ q \in Seq(Message) /\ m \in Message /\ inbox \in Seq(Message)
      /\ old \in SessionState /\ IsEnd(End(p)) /\ End(p).store = store[p]
      /\ HasSlots(old, Offset[p])
  BY <1>1, HeadAndRest, EndIsEnd
<1>3. /\ \A i \in DOMAIN inbox : \E j \in DOMAIN q : inbox[i] = q[j]
      /\ m = q[1] /\ 1 \in DOMAIN q
  BY <1>1, <1>2, RestIsOfQueue
<1>4. /\ OnHello(p, m, inbox) \/ OnWant(p, m, inbox) \/ OnRecords(p, m, inbox)
           \/ OnEquivocation(p, m, inbox)
  BY DEF OnData
<1>5. o \in Peers /\ o # p /\ Other(o) = p
  BY TwoEnds
<1>6. /\ old.helloReceived \/ /\ m.t = "HELLO" /\ m.v = PROTOCOL_VERSION
                              /\ m.len <= Len(store[o].log)
      /\ old.remoteLength <= Len(store[o].log)
  BY <1>1, <1>3 DEF HonestInv, AsksForWhatIsThere
<1>7. \A t : /\ m.t = t => Count(q, t) = Count(inbox, t) + 1
             /\ m.t # t => Count(q, t) = Count(inbox, t)
             /\ Count(inbox, t) \in Nat /\ Count(channel[o], t) \in Nat
  <2>1. channel[o] \in Seq(Message)
    BY <1>1, <1>5, EndIsEnd
  <2> QED BY <1>1, <1>2, <2>1, CountHead, CarryingFinite
<1>8. now < WantDeadlineSeconds
        => Len(old.outstanding) = Count(channel[o], "WANT") + Count(q, "RECORDS")
  BY <1>1 DEF HonestInv, SlotsAreRequests, InFlight, Count
<1>9. Len(store[p].log) \in Nat /\ Len(End(p).store.log) >= Len(store[p].log)
  <2>1. store[p].log \in Seq(Record)
    BY <1>1 DEF SessionInv, TypeOK, IsStore
  <2> QED BY <1>2, <2>1
<1>10. << >> \in Seq(Message) /\ Len(<< >>) = 0
       /\ \A i \in DOMAIN << >> : << >>[i].t = "RECORDS"
  OBVIOUS
<1> HIDE DEF q, m, inbox, o, old
<1>11. CASE OnHello(p, m, inbox)
  <2> DEFINE s == AfterHello(old, m)
  <2>1. m.t = "HELLO" /\ s.outstanding = old.outstanding /\ Took(p, s, End(p), << >>, inbox)
    BY <1>1, <1>2, <1>11, HelloDoes DEF OnHello, old
  <2>2. s \in SessionState /\ s.helloReceived /\ s.remoteLength <= Len(store[o].log)
    <3>0. m.len \in Nat
      BY <1>2, <2>1 DEF Message
    <3>1. CASE old.helloReceived
      BY <1>2, <1>6, <3>1 DEF AfterHello
    <3>2. CASE ~old.helloReceived
      <4>1. s = [old EXCEPT !.helloReceived = TRUE, !.remoteLength = m.len]
        BY <1>6, <3>2 DEF AfterHello
      <4> QED BY <1>2, <1>6, <3>0, <3>2, <4>1 DEF SessionState
    <3> QED BY <3>1, <3>2
  <2>3. now < WantDeadlineSeconds =>
           /\ Len(s.outstanding) = Count(channel[o], "WANT") + Count(inbox, "RECORDS")
           /\ Count(inbox, "WANT") + Len(<< >>) = Count(q, "WANT")
    BY <1>7, <1>8, <1>10, <2>1
  <2> HIDE DEF s
  <2>4. Balanced(p, s, End(p), << >>, inbox)
    BY <1>3, <1>9, <1>10, <2>2, <2>3, Zenon DEF Balanced, o, q
  <2> QED BY <1>1, <1>2, <1>10, <2>1, <2>2, <2>4, HonestTurnKeeps
<1>12. CASE OnWant(p, m, inbox)
  <2>1. m.t = "WANT" /\ old.helloReceived
    BY <1>6, <1>12 DEF OnWant
  <2>2. IsWant(m, Len(store[p].log))
    BY <1>1, <1>3, <2>1, WantOnItsWay DEF HonestInv, q
  <2>3. PICK replies \in Seq(Message) :
          /\ Took(p, old, End(p), replies, inbox)
          /\ \E r \in Message : r.t = "RECORDS" /\ replies = <<r>>
    BY <1>1, <1>2, <1>12, <2>1, <2>2, WantDoes DEF old
  <2>4. Len(replies) = 1 /\ \A i \in DOMAIN replies : replies[i].t = "RECORDS"
    BY <2>3
  <2>5. now < WantDeadlineSeconds =>
           /\ Len(old.outstanding) = Count(channel[o], "WANT") + Count(inbox, "RECORDS")
           /\ Count(inbox, "WANT") + Len(replies) = Count(q, "WANT")
    BY <1>7, <1>8, <2>1, <2>4
  <2>6. Balanced(p, old, End(p), replies, inbox)
    BY <1>3, <1>6, <1>9, <2>1, <2>4, <2>5, Zenon DEF Balanced, o, q
  <2> QED BY <1>1, <1>2, <2>3, <2>6, HonestTurnKeeps
<1>13. CASE OnEquivocation(p, m, inbox)
  <2>1. m.t = "EQUIVOCATION" /\ old.helloReceived
    BY <1>6, <1>13 DEF OnEquivocation
  <2>2. PICK after : /\ IsEnd(after) /\ after.store.log = store[p].log
                     /\ Took(p, old, after, << >>, inbox)
    BY <1>1, <1>2, <1>13, EquivocationDoes DEF old
  <2>3. now < WantDeadlineSeconds =>
           /\ Len(old.outstanding) = Count(channel[o], "WANT") + Count(inbox, "RECORDS")
           /\ Count(inbox, "WANT") + Len(<< >>) = Count(q, "WANT")
    BY <1>7, <1>8, <1>10, <2>1
  <2>4. Len(after.store.log) >= Len(store[p].log)
    BY <1>9, <2>2
  <2>5. Balanced(p, old, after, << >>, inbox)
    BY <1>3, <1>6, <1>10, <2>1, <2>3, <2>4, Zenon DEF Balanced, o, q
  <2> QED BY <1>1, <1>2, <1>10, <2>2, <2>5, HonestTurnKeeps
<1>14. CASE OnRecords(p, m, inbox)
  <2> DEFINE s == AfterRecords(old, m)
  <2>1. m.t = "RECORDS" /\ old.helloReceived
    BY <1>6, <1>14 DEF OnRecords
  <2>2. PICK after : /\ IsEnd(after) /\ Len(after.store.log) >= Len(store[p].log)
                     /\ Took(p, s, after, << >>, inbox)
    BY <1>1, <1>2, <1>14, <2>1, RecordsDoes DEF old
  <2>3. /\ s \in SessionState
        /\ s.helloReceived = old.helloReceived
        /\ s.remoteLength = old.remoteLength
        /\ old.outstanding # << >> => Len(s.outstanding) = Len(old.outstanding) - 1
    BY <1>2, <2>1, AfterRecordsType
  <2> HIDE DEF s
  <2>4. now < WantDeadlineSeconds =>
           /\ Len(s.outstanding) = Count(channel[o], "WANT") + Count(inbox, "RECORDS")
           /\ Count(inbox, "WANT") + Len(<< >>) = Count(q, "WANT")
    <3> SUFFICES ASSUME now < WantDeadlineSeconds
                 PROVE  /\ Len(s.outstanding) = Count(channel[o], "WANT")
                                                  + Count(inbox, "RECORDS")
                        /\ Count(inbox, "WANT") + Len(<< >>) = Count(q, "WANT")
      OBVIOUS
    <3>1. Len(old.outstanding) = Count(channel[o], "WANT") + (Count(inbox, "RECORDS") + 1)
      BY <1>7, <1>8, <2>1
    <3>2. /\ Count(channel[o], "WANT") \in Nat /\ Count(inbox, "RECORDS") \in Nat
          /\ Count(inbox, "WANT") \in Nat /\ Count(q, "WANT") = Count(inbox, "WANT")
      BY <1>7, <2>1
    <3>3. old.outstanding \in Seq(Nat) /\ Len(old.outstanding) # 0
      BY <1>2, <3>1, <3>2 DEF SessionState
    <3>4. old.outstanding # << >>
      BY <3>3
    <3>5. Len(s.outstanding) = Len(old.outstanding) - 1
      BY <2>3, <3>4
    <3> QED BY <1>10, <3>1, <3>2, <3>5
  <2>5. Balanced(p, s, after, << >>, inbox)
    BY <1>3, <1>6, <1>10, <2>1, <2>2, <2>3, <2>4, Zenon DEF Balanced, o, q
  <2> QED BY <1>1, <1>2, <1>10, <2>2, <2>3, <2>5, HonestTurnKeeps
<1> QED BY <1>4, <1>11, <1>12, <1>13, <1>14

\* Every step between two ends that run this code.
LEMMA NextHonest ==
  ASSUME Hostile = {}
  PROVE  HonestInv /\ [Next]_vars => HonestInv'
<1> SUFFICES ASSUME HonestInv, [Next]_vars PROVE HonestInv'
  OBVIOUS
<1>0. SessionInv /\ SessionInv' /\ AsksForWhatIsThere /\ SlotsAreRequests
  BY NextSession DEF HonestInv
<1> SUFFICES AsksForWhatIsThere' /\ SlotsAreRequests'
  BY <1>0 DEF HonestInv
<1>p. \A p \in Peers : Other(p) \in Peers /\ Other(p) # p
  BY TwoEnds
<1>1. CASE Tick
  <2>1. UNCHANGED <<store, session, channel, connected>> /\ now' = now + 1 /\ now \in Nat
    BY <1>0, <1>1 DEF Tick, SessionInv, TypeOK
  <2>2. now' < WantDeadlineSeconds => now < WantDeadlineSeconds
    BY <2>1, LimitsAssumption
  <2>3. AsksForWhatIsThere'
    BY <1>0, <2>1 DEF AsksForWhatIsThere
  <2>4. SlotsAreRequests'
    BY <1>0, <2>1, <2>2 DEF SlotsAreRequests, InFlight
  <2> QED BY <2>3, <2>4
<1>2. CASE Connect
  <2> DEFINE Hello(p) == [t |-> "HELLO", v |-> PROTOCOL_VERSION,
                          len |-> Len(store[Other(p)].log)]
  <2>1. /\ channel' = [p \in Peers |-> <<Hello(p)>>] /\ store' = store
        /\ session' = [p \in Peers |-> NewSession]
    BY <1>2 DEF Connect
  <2>2. channel' \in [Peers -> Seq(Message)]
    BY <1>0, <1>2, ConnectDoes
  <2>3. ASSUME NEW p \in Peers
        PROVE  /\ channel'[p] # << >>
               /\ channel'[p][1] = Hello(p)
               /\ \A i \in DOMAIN channel'[p] : channel'[p][i].t = "HELLO"
    <3>1. Hello(p).t = "HELLO"
      OBVIOUS
    <3> HIDE DEF Hello
    <3>2. channel'[p] = <<Hello(p)>>
      BY <2>1
    <3>3. <<Hello(p)>> # << >> /\ <<Hello(p)>>[1] = Hello(p)
          /\ \A i \in DOMAIN <<Hello(p)>> : <<Hello(p)>>[i] = Hello(p)
      OBVIOUS
    <3> QED BY <3>1, <3>2, <3>3
  <2>l. \A p \in Peers : Len(store[p].log) \in Nat
    BY <1>0 DEF SessionInv, TypeOK, IsStore
  <2>4. AsksForWhatIsThere'
    <3> SUFFICES ASSUME NEW p \in Peers PROVE AsksWell(p)'
      BY DEF AsksForWhatIsThere, AsksWell
    <3>1. /\ channel'[p] # << >> /\ channel'[p][1].t = "HELLO"
          /\ channel'[p][1].v = PROTOCOL_VERSION
          /\ channel'[p][1].len = Len(store[Other(p)].log)
          /\ \A i \in DOMAIN channel'[p] : channel'[p][i].t = "HELLO"
      <4>1. channel'[p] # << >> /\ channel'[p][1] = Hello(p)
            /\ \A i \in DOMAIN channel'[p] : channel'[p][i].t = "HELLO"
        BY <2>3, Zenon
      <4>2. /\ Hello(p).t = "HELLO" /\ Hello(p).v = PROTOCOL_VERSION
            /\ Hello(p).len = Len(store[Other(p)].log)
        OBVIOUS
      <4> HIDE DEF Hello
      <4> QED BY <4>1, <4>2, Zenon
    <3>2. Len(store[Other(p)].log) \in Nat
      BY <1>p, <2>l
    <3>3. session'[p].remoteLength = 0
      BY <2>1, NewSessionType
    <3> QED BY <2>1, <3>1, <3>2, <3>3 DEF AsksWell
  <2>5. SlotsAreRequests'
    <3>1. \A p \in Peers : \A i \in DOMAIN channel'[p] :
            channel'[p][i].t # "WANT" /\ channel'[p][i].t # "RECORDS"
      BY <2>3
    <3>2. \A p \in Peers : Count(channel'[p], "WANT") = 0 /\ Count(channel'[p], "RECORDS") = 0
      BY <2>2, <3>1, CountUniform
    <3>3. \A p \in Peers : session'[p].outstanding = << >>
      BY <2>1, NewSessionType
    <3>4. \A p \in Peers : Len(session'[p].outstanding) = 0
      BY <3>3
    <3>5. \A p \in Peers : Len(session'[p].outstanding)
                            = Count(channel'[Other(p)], "WANT") + Count(channel'[p], "RECORDS")
      BY <1>p, <3>2, <3>4
    <3> QED BY <3>5 DEF SlotsAreRequests, InFlight, Count
  <2> QED BY <2>4, <2>5
<1>3. CASE Disconnect
  <2>1. ~connected'
    BY <1>3 DEF Disconnect
  <2> QED BY <2>1 DEF AsksForWhatIsThere, SlotsAreRequests
<1>4. ASSUME NEW p \in Peers, OnData(p) PROVE AsksForWhatIsThere' /\ SlotsAreRequests'
  BY <1>4, HonestOnData
<1>5. ASSUME NEW p \in Peers, Heartbeat(p) PROVE AsksForWhatIsThere' /\ SlotsAreRequests'
  <2> DEFINE o == Other(p)
  <2>1. UNCHANGED <<now, connected>> /\ connected
    BY <1>5 DEF Heartbeat
  <2>2. PICK after : /\ IsEnd(after) /\ Len(after.store.log) >= Len(store[p].log)
                     /\ Took(p, session[p], after, << >>, channel[p])
    BY <1>0, <1>5, HeartbeatDoes
  <2>3. session[p] \in SessionState /\ channel[p] \in Seq(Message)
    BY <1>0, EndIsEnd
  <2>4. session[p].remoteLength <= Len(store[o].log)
    BY <1>0, <2>1 DEF AsksForWhatIsThere
  <2>5. /\ << >> \in Seq(Message) /\ Len(<< >>) = 0
        /\ \A i \in DOMAIN << >> : << >>[i].t = "RECORDS"
    OBVIOUS
  <2>6. Count(channel[p], "WANT") \in Nat /\ Count(channel[p], "RECORDS") \in Nat
    BY <2>3, CarryingFinite
  <2>7. now < WantDeadlineSeconds =>
           /\ Len(session[p].outstanding)
                = Count(channel[o], "WANT") + Count(channel[p], "RECORDS")
           /\ Count(channel[p], "WANT") + Len(<< >>) = Count(channel[p], "WANT")
    <3>1. now < WantDeadlineSeconds => Len(session[p].outstanding)
            = Count(channel[o], "WANT") + Count(channel[p], "RECORDS")
      BY <1>0, <2>1 DEF SlotsAreRequests, InFlight, Count
    <3> QED BY <2>5, <2>6, <3>1
  <2>8. Balanced(p, session[p], after, << >>, channel[p])
    BY <2>2, <2>4, <2>5, <2>7, Zenon DEF Balanced, o
  <2> QED BY <2>1, <2>2, <2>3, <2>5, <2>8, HonestTurnKeeps
<1>6. ASSUME NEW p \in Peers, NEW r \in Elsewhere[p], Arrive(p, r)
      PROVE  AsksForWhatIsThere' /\ SlotsAreRequests'
  <2>1. r \in Record
    BY EndsAssumption
  <2>2. \A q \in Peers : Len(store'[q].log) >= Len(store[q].log) /\ IsStore(store'[q])
    BY <1>0, <1>6, <2>1, ArriveDoes
  <2>3. UNCHANGED <<now, session, channel, connected>>
    BY <1>6 DEF Arrive
  <2>4. SlotsAreRequests'
    BY <1>0, <2>3 DEF SlotsAreRequests, InFlight
  <2>5. ASSUME connected, NEW q \in Peers PROVE AsksWell(q)'
    <3>1. AsksWell(q) /\ Other(q) \in Peers
      BY <1>0, <1>p, <2>5 DEF AsksForWhatIsThere, AsksWell
    <3>2. /\ Len(store[q].log) \in Nat /\ Len(store'[q].log) \in Nat
          /\ Len(store[Other(q)].log) \in Nat /\ Len(store'[Other(q)].log) \in Nat
      BY <1>0, <2>2, <3>1 DEF SessionInv, TypeOK, IsStore
    <3>3. /\ Len(store'[q].log) >= Len(store[q].log)
          /\ Len(store'[Other(q)].log) >= Len(store[Other(q)].log)
      BY <2>2, <3>1
    <3>4. session[q].remoteLength \in Nat /\ channel[q] \in Seq(Message)
      BY <1>0, EndIsEnd DEF SessionState
    <3>5. \A i \in DOMAIN channel[q] : /\ channel[q][i] \in Message
                                       /\ channel[q][i].t = "HELLO" => channel[q][i].len \in Nat
                                       /\ channel[q][i].t = "WANT" => channel[q][i].from \in Nat
      <4>1. \A i \in DOMAIN channel[q] : channel[q][i] \in Message
        BY <3>4
      <4> QED BY <4>1 DEF Message
    <3>6. session'[q].remoteLength <= Len(store'[Other(q)].log)
      BY <2>3, <3>1, <3>2, <3>3, <3>4 DEF AsksWell
    <3>7. \A i \in DOMAIN channel'[q] : channel'[q][i].t = "WANT" =>
            channel'[q][i].count \in 1..WantCount /\ channel'[q][i].from < Len(store'[q].log)
      BY <2>3, <3>1, <3>2, <3>3, <3>5 DEF AsksWell
    <3>8. \/ session'[q].helloReceived
          \/ /\ channel'[q] # << >>
             /\ channel'[q][1].t = "HELLO"
             /\ channel'[q][1].v = PROTOCOL_VERSION
             /\ channel'[q][1].len <= Len(store'[Other(q)].log)
      <4>1. CASE session[q].helloReceived
        BY <2>3, <4>1
      <4>2. CASE ~session[q].helloReceived
        <5>1. 1 \in DOMAIN channel[q]
          BY <3>1, <3>4, <4>2 DEF AsksWell
        <5>2. channel[q][1].len \in Nat /\ channel[q][1].len <= Len(store[Other(q)].log)
          BY <3>1, <3>5, <4>2, <5>1 DEF AsksWell
        <5>3. channel[q][1].len <= Len(store'[Other(q)].log)
          BY <3>2, <3>3, <5>2
        <5> QED BY <2>3, <3>1, <4>2, <5>3 DEF AsksWell
      <4> QED BY <4>1, <4>2
    <3> QED BY <3>6, <3>7, <3>8 DEF AsksWell
  <2>6. AsksForWhatIsThere'
    BY <2>3, <2>5 DEF AsksForWhatIsThere, AsksWell
  <2> QED BY <2>4, <2>6
<1>7. ASSUME NEW p \in Peers, NEW m \in HostileMessages, Inject(p, m) PROVE FALSE
  BY <1>7 DEF Inject
<1>8. CASE UNCHANGED vars
  BY <1>0, <1>8 DEF vars, AsksForWhatIsThere, SlotsAreRequests, InFlight
<1> QED BY <1>1, <1>2, <1>3, <1>4, <1>5, <1>6, <1>7, <1>8 DEF Next

\* replicate.ts, nextWant and onRecords: between two ends that run this code, until the
\* first deadline can pass, the slots in use are exactly the requests and the replies in
\* flight: no slot leaks and none is freed twice, however replies are split.
THEOREM SlotsAreRequestsHolds == Hostile = {} => (Spec => []SlotsAreRequests)
<1> SUFFICES ASSUME Hostile = {} PROVE Spec => []SlotsAreRequests
  OBVIOUS
<1>1. Init => HonestInv
  <2>1. Init => ~connected
    BY DEF Init
  <2> QED BY <2>1, InitSession DEF HonestInv, AsksForWhatIsThere, SlotsAreRequests
<1>2. HonestInv /\ [Next]_vars => HonestInv'
  BY NextHonest
<1>3. HonestInv => SlotsAreRequests
  BY DEF HonestInv
<1> QED BY <1>1, <1>2, <1>3, PTL DEF Spec
=============================================================================
