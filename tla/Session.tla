------------------------------ MODULE Session ------------------------------
(***************************************************************************)
(* One connection between two peers: ReplicationSession (replicate.ts)     *)
(* under drivePeer (swarm.ts), on both ends of a stream that keeps order   *)
(* and loses nothing until it closes.  Each end has a store and an         *)
(* equivocation ledger that outlive the connection and that other          *)
(* connections write to as well.                                           *)
(*                                                                         *)
(* Framing is left out (a message is a message), and so are CHECKPOINT     *)
(* messages, which the session hands on without keeping anything.  How     *)
(* many records fit in a message depends on their sizes, so a reply holds  *)
(* some non-empty prefix of what was asked for.                            *)
(***************************************************************************)
EXTENDS Equivocation, SequencesExt

CONSTANTS
  Peers,                  \* the two ends
  Hostile,                \* ends that send what they like
  Offset,                 \* seconds each end's clock is ahead of `now`
  WantCount, OutstandingWants, WantDeadlineSeconds, DeferredLimit, \* LIMITS
  PerConnection,          \* EQUIVOCATION_LIMITS.perConnection
  Elsewhere,              \* records other connections offer each end
  HostileMessages,        \* messages, well formed, that a hostile end may send
  MaxTime,                \* bound: last second
  MaxConnections,         \* bound: connections, one after the other
  MaxFailures,            \* bound: appends that throw
  MaxInjected             \* bound: messages a hostile end has in flight

\* What decodeMessage accepts, CHECKPOINT apart.
Message ==
  [t : {"HELLO"}, v : Nat, len : Nat]
    \cup [t : {"WANT"}, from : Nat, count : Nat]
    \cup [t : {"RECORDS"}, from : Nat, recs : Seq(Record)]
    \cup [t : {"EQUIVOCATION"}, a : Record, b : Record]

ASSUME EndsAssumption ==
  /\ \E p, q \in Peers : p # q /\ Peers = {p, q}
  /\ Offset \in [Peers -> Nat]
  /\ Elsewhere \in [Peers -> SUBSET Record]
  /\ HostileMessages \subseteq Message

ASSUME LimitsAssumption ==
  /\ {WantCount, OutstandingWants, WantDeadlineSeconds, DeferredLimit} \subseteq Nat \ {0}
  /\ PerConnection \in Nat

VARIABLES
  now,
  store,                  \* per end: log, names, ledger
  session,                \* per end: the fields of ReplicationSession and of drivePeer
  channel,                \* per end: messages on their way to it, in order
  connections,            \* connections made so far
  connected,
  failures,               \* appends that threw so far
  covered                 \* per end: indices of the remote log received (history)

vars == <<now, store, session, channel, connections, connected, failures, covered>>

Other(p) == CHOOSE q \in Peers : q # p
Clock(p) == now + Offset[p]
Held(p) == ToSet(store[p].log)
Least(a, b) == IF a < b THEN a ELSE b

\* The element of a singleton.  (Naming a value by ranging over the set of it makes
\* TLC evaluate it once.)
The(S) == CHOOSE x \in S : TRUE

PROTOCOL_VERSION == 1

NewSession ==
  [helloReceived |-> FALSE, remoteLength |-> 0, outstanding |-> << >>,
   fetchedThrough |-> 0, requestedThrough |-> 0, deferred |-> << >>, offered |-> FALSE]

Init ==
  /\ now = 0
  /\ store = [p \in Peers |-> [log |-> << >>, names |-> EmptyIndex, ledger |-> << >>]]
  /\ session = [p \in Peers |-> NewSession]
  /\ channel = [p \in Peers |-> << >>]
  /\ connections = 0
  /\ connected = FALSE
  /\ failures = 0
  /\ covered = [p \in Peers |-> {}]

-----------------------------------------------------------------------------
(***************************************************************************)
(* Appending.  What a batch does to an end is folded over its records; the *)
(* fold carries the store and the deferral queue.                          *)
(***************************************************************************)

\* Mutant: the queue keeps copies.
holdDeferredAgain(queue, r) ==
  Append(IF Len(queue) >= DeferredLimit THEN Tail(queue) ELSE queue, r)

\* Mutant: nothing is held for later.
holdDeferredNever(queue, r) == queue

\* Mutant: nothing is evicted.
holdDeferredAll(queue, r) ==
  IF \E i \in DOMAIN queue : queue[i].hash = r.hash THEN queue ELSE Append(queue, r)

\* holdDeferred: deduplicated by digest, the oldest evicted when the queue is full.
holdDeferred(queue, r) ==
  IF \E i \in DOMAIN queue : queue[i].hash = r.hash
  THEN queue
  ELSE Append(IF Len(queue) >= DeferredLimit THEN Tail(queue) ELSE queue, r)

\* What a verdict on r does to an end.
Outcome(end, r, verdict) ==
  LET note == noteEquivocation(end.store.ledger, end.store.log, end.store.names, r)
  IN  CASE verdict = "duplicate" -> end
        [] Accepted(verdict) ->
             [end EXCEPT !.store.log = Append(@, r), !.store.names = apply(@, r)]
        [] verdict = "CLOCK_SKEW" ->
             [end EXCEPT !.store.ledger = note, !.deferred = holdDeferred(@, r)]
        [] OTHER -> [end EXCEPT !.store.ledger = note]

\* Store.append, and holdDeferred for a record that is ahead of the clock.
Offer(end, r, at) ==
  The({Outcome(end, r, verdict) :
         verdict \in {appendVerdict(end.store.log, end.store.names, r, at)}})

\* A batch, of which the positions in `broken` throw: they count as rejected.
OfferAll(end, recs, broken, at) ==
  LET after[i \in 0..Len(recs)] ==
        IF i = 0 THEN end
        ELSE IF i \in broken THEN after[i - 1]
        ELSE The({Offer(before, recs[i], at) : before \in {after[i - 1]}})
  IN  after[Len(recs)]

End(p) == [store |-> store[p], deferred |-> session[p].deferred]

-----------------------------------------------------------------------------
(***************************************************************************)
(* Asking.  pump calls nextWant until it returns null; nextWant reclaims   *)
(* expired slots first.                                                    *)
(***************************************************************************)
\* The requests whose deadline has passed, from the oldest to the first in time.
Expired(s, at) ==
  {i \in DOMAIN s.outstanding :
     \A j \in 1..i : at - s.outstanding[j] >= WantDeadlineSeconds}

\* Mutant: an expired request is asked for again from one position too early.
expireWantsEarly(s, at) ==
  LET expired == Cardinality(Expired(s, at)) IN
  IF expired = 0
  THEN s
  ELSE [s EXCEPT !.outstanding = SubSeq(@, expired + 1, Len(@)),
                 !.requestedThrough = s.fetchedThrough - 1]

expireWants(s, at) ==
  LET expired == Cardinality(Expired(s, at)) IN
  IF expired = 0
  THEN s
  ELSE [s EXCEPT !.outstanding = SubSeq(@, expired + 1, Len(@)),
                 !.requestedThrough = s.fetchedThrough]

\* How many calls of nextWant return a WANT.
WantsDue(s) ==
  LET free == OutstandingWants - Len(s.outstanding)
      lacking == s.remoteLength - s.requestedThrough
  IN  IF ~s.helloReceived \/ lacking <= 0
      THEN 0
      ELSE Least(free, (lacking + WantCount - 1) \div WantCount)

nextWants(s) ==
  [i \in 1..WantsDue(s) |->
     LET from == s.requestedThrough + (i - 1) * WantCount
     IN  [t |-> "WANT", from |-> from, count |-> Least(WantCount, s.remoteLength - from)]]

\* The session after pump has sent nextWants(s).
asked(s, at) ==
  [s EXCEPT !.outstanding = @ \o [i \in 1..WantsDue(s) |-> at],
            !.requestedThrough = IF WantsDue(s) = 0
                                 THEN @
                                 ELSE Least(@ + WantsDue(s) * WantCount, s.remoteLength)]

\* offerEvidence: the first reports held, once, when the remote has said HELLO.
evidenceOffer(s, ledger) ==
  IF s.offered \/ ~s.helloReceived
  THEN << >>
  ELSE [i \in 1..Least(Len(ledger), PerConnection) |->
          [t |-> "EQUIVOCATION", a |-> ledger[i].a, b |-> ledger[i].b]]

\* What ends every handler of drivePeer: replies, evidence, pump.
Answer(p, s, after, replies, inbox) ==
  \E end \in {after}, ready \in {expireWants(s, Clock(p))} :
    /\ store' = [store EXCEPT ![p] = end.store]
    /\ session' = [session EXCEPT ![p] =
         [asked(ready, Clock(p)) EXCEPT !.deferred = end.deferred,
                                        !.offered = ready.helloReceived]]
    /\ channel' = [channel EXCEPT ![p] = inbox,
                                  ![Other(p)] = @ \o replies
                                                  \o evidenceOffer(ready, end.store.ledger)
                                                  \o nextWants(ready)]

-----------------------------------------------------------------------------
(***************************************************************************)
(* The handlers.  receive ignores everything before HELLO.                 *)
(***************************************************************************)
\* The first HELLO of this version counts.
AfterHello(s, m) ==
  IF s.helloReceived \/ m.v # PROTOCOL_VERSION
  THEN s
  ELSE [s EXCEPT !.helloReceived = TRUE, !.remoteLength = m.len]

OnHello(p, m, inbox) ==
  /\ m.t = "HELLO"
  /\ Answer(p, AfterHello(session[p], m), End(p), << >>, inbox)
  /\ UNCHANGED <<failures, covered>>

OnWant(p, m, inbox) ==
  LET last == Least(m.from + m.count, Len(store[p].log)) IN
  /\ m.t = "WANT"
  /\ \/ /\ ~session[p].helloReceived \/ m.count \notin 1..WantCount \/ m.from >= last
        /\ Answer(p, session[p], End(p), << >>, inbox)
     \/ /\ session[p].helloReceived /\ m.count \in 1..WantCount
        /\ \E upTo \in (m.from + 1)..last :
             Answer(p, session[p], End(p),
                    <<[t |-> "RECORDS", from |-> m.from,
                       recs |-> SubSeq(store[p].log, m.from + 1, upTo)]>>, inbox)
  /\ UNCHANGED <<failures, covered>>

\* Mutant: the cursor moves to the end of any reply.
AfterAnyRecords(s, m) ==
  LET through == Max({s.fetchedThrough, m.from + Len(m.recs)}) IN
  [s EXCEPT !.fetchedThrough = through,
            !.requestedThrough = through,
            !.outstanding = IF @ = << >> THEN @ ELSE Tail(@)]

\* Mutant: what was asked for counts as requested, delivered or not.
AfterRecordsAsRequested(s, m) ==
  LET through == Max({s.fetchedThrough, m.from + Len(m.recs)}) IN
  [s EXCEPT !.fetchedThrough = IF m.from <= s.fetchedThrough THEN through ELSE @,
            !.outstanding = IF @ = << >> THEN @ ELSE Tail(@)]

\* Mutant: a reply frees its slot only when it moves the cursor.
AfterRecordsInOrder(s, m) ==
  LET through == Max({s.fetchedThrough, m.from + Len(m.recs)}) IN
  IF m.from <= s.fetchedThrough
  THEN [s EXCEPT !.fetchedThrough = through, !.requestedThrough = through,
                 !.outstanding = IF @ = << >> THEN @ ELSE Tail(@)]
  ELSE s

\* The cursor moves by what was delivered, if the reply starts at or before it, and
\* the oldest slot is freed.
AfterRecords(s, m) ==
  LET through == Max({s.fetchedThrough, m.from + Len(m.recs)}) IN
  [s EXCEPT
     !.fetchedThrough = IF m.from <= s.fetchedThrough THEN through ELSE @,
     !.requestedThrough = IF m.from <= s.fetchedThrough THEN through ELSE @,
     !.outstanding = IF @ = << >> THEN @ ELSE Tail(@)]

OnRecords(p, m, inbox) ==
  /\ m.t = "RECORDS"
  /\ \/ /\ ~session[p].helloReceived
        /\ Answer(p, session[p], End(p), << >>, inbox)
        /\ UNCHANGED <<failures, covered>>
     \/ /\ session[p].helloReceived
        /\ \E broken \in SUBSET DOMAIN m.recs :
             /\ failures + Cardinality(broken) <= MaxFailures
             /\ failures' = failures + Cardinality(broken)
             /\ Answer(p, AfterRecords(session[p], m),
                       OfferAll(End(p), m.recs, broken, Clock(p)), << >>, inbox)
        /\ covered' = [covered EXCEPT ![p] = @ \cup (m.from)..(m.from + Len(m.recs) - 1)]

OnEquivocation(p, m, inbox) ==
  /\ m.t = "EQUIVOCATION"
  /\ Answer(p, session[p],
            IF session[p].helloReceived
            THEN [End(p) EXCEPT !.store.ledger = recordEvidence(@, m.a, m.b, "received")]
            ELSE End(p), << >>, inbox)
  /\ UNCHANGED <<failures, covered>>

\* The next message arrives.
OnData(p) ==
  /\ connected
  /\ p \notin Hostile
  /\ channel[p] # << >>
  /\ LET m == Head(channel[p])
         inbox == Tail(channel[p])
     IN  \/ OnHello(p, m, inbox)
         \/ OnWant(p, m, inbox)
         \/ OnRecords(p, m, inbox)
         \/ OnEquivocation(p, m, inbox)
  /\ UNCHANGED <<now, connected, connections>>

\* The timer: retryDeferred empties the queue and offers every record again (one whose
\* append throws is dropped), then pump.
Heartbeat(p) ==
  /\ connected
  /\ p \notin Hostile
  /\ \E broken \in SUBSET DOMAIN session[p].deferred :
     \E ready \in {expireWants(session[p], Clock(p))},
        end \in {OfferAll([store |-> store[p], deferred |-> << >>], session[p].deferred,
                          broken, Clock(p))} :
       /\ failures + Cardinality(broken) <= MaxFailures
       /\ failures' = failures + Cardinality(broken)
       /\ store' = [store EXCEPT ![p] = end.store]
       /\ session' = [session EXCEPT ![p] =
            [asked(ready, Clock(p)) EXCEPT !.deferred = end.deferred]]
       /\ channel' = [channel EXCEPT ![Other(p)] = @ \o nextWants(ready)]
  /\ UNCHANGED <<now, connections, connected, covered>>

-----------------------------------------------------------------------------
(***************************************************************************)
(* The surroundings of the session.                                        *)
(***************************************************************************)

\* drivePeer on both ends: a new session, and HELLO.
Connect ==
  /\ ~connected
  /\ connections < MaxConnections
  /\ connected' = TRUE
  /\ connections' = connections + 1
  /\ session' = [p \in Peers |-> NewSession]
  /\ channel' = [p \in Peers |->
       IF Other(p) \in Hostile
       THEN << >>
       ELSE <<[t |-> "HELLO", v |-> PROTOCOL_VERSION, len |-> Len(store[Other(p)].log)]>>]
  /\ covered' = [p \in Peers |-> {}]
  /\ UNCHANGED <<now, store, failures>>

\* The stream closes: what was in flight and what was deferred is gone.
Disconnect ==
  /\ connected
  /\ connections < MaxConnections
  /\ connected' = FALSE
  /\ channel' = [p \in Peers |-> << >>]
  /\ session' = [p \in Peers |-> NewSession]
  /\ UNCHANGED <<now, store, connections, failures, covered>>

\* Another connection, or the command line, offers an end a record.
Arrive(p, r) ==
  /\ store' = [store EXCEPT ![p] =
                 Offer([store |-> @, deferred |-> << >>], r, Clock(p)).store]
  /\ UNCHANGED <<now, session, channel, connections, connected, failures, covered>>

Inject(p, m) ==
  /\ connected
  /\ Other(p) \in Hostile
  /\ Len(channel[p]) < MaxInjected
  /\ channel' = [channel EXCEPT ![p] = Append(@, m), ![Other(p)] = << >>]
  /\ UNCHANGED <<now, store, session, connections, connected, failures, covered>>

Tick ==
  /\ now < MaxTime
  /\ now' = now + 1
  /\ UNCHANGED <<store, session, channel, connections, connected, failures, covered>>

Next ==
  \/ Tick
  \/ Connect
  \/ Disconnect
  \/ \E p \in Peers :
       \/ OnData(p)
       \/ Heartbeat(p)
       \/ \E r \in Elsewhere[p] : Arrive(p, r)
       \/ \E m \in HostileMessages : Inject(p, m)

Spec == Init /\ [][Next]_vars

\* The event loop serves data and timers of both ends, and time passes.
Fairness ==
  /\ WF_vars(Tick)
  /\ \A p \in Peers : WF_vars(OnData(p)) /\ WF_vars(Heartbeat(p))

FairSpec == Spec /\ Fairness

-----------------------------------------------------------------------------
(***************************************************************************)
(* Properties                                                              *)
(***************************************************************************)
IsStore(held) ==
  /\ DOMAIN held = {"log", "names", "ledger"}
  /\ held.log \in Seq(Record)
  /\ IndexOK(held.names)
  /\ held.ledger \in Seq(Evidence)

SessionState ==
  [helloReceived : BOOLEAN, remoteLength : Nat, outstanding : Seq(Nat),
   fetchedThrough : Nat, requestedThrough : Nat, deferred : Seq(Record), offered : BOOLEAN]

\* Stores, cursors, queues and messages are what they are declared to be.
TypeOK ==
  /\ now \in Nat
  /\ connected \in BOOLEAN
  /\ DOMAIN store = Peers /\ \A p \in Peers : IsStore(store[p])
  /\ session \in [Peers -> SessionState]
  /\ channel \in [Peers -> Seq(Message)]
  /\ covered \in [Peers -> SUBSET Nat]

\* replicate.ts, onRecords: the cursor into the remote log never passes a position that
\* was not delivered, however replies are split, reordered by expiry, or made up.
NothingSkipped ==
  \A p \in Peers : 0..(session[p].fetchedThrough - 1) \subseteq covered[p]

Carrying(queue, t) == {i \in DOMAIN queue : queue[i].t = t}

\* WANTs of p that are on their way, and replies to them.
InFlight(p) ==
  Cardinality(Carrying(channel[Other(p)], "WANT"))
    + Cardinality(Carrying(channel[p], "RECORDS"))

\* Section 5, nextWant: while no deadline has passed, every slot in use is a request or
\* a reply in flight, so the budget bounds what is in flight; split replies and the
\* pulling back of the cursor do not leak or double a slot.
SlotsAreRequests ==
  \A p \in Peers \ Hostile :
    connected /\ now < WantDeadlineSeconds => Len(session[p].outstanding) = InFlight(p)

\* 5.4, holdDeferred and retryDeferred: however often a record is resent, retried or
\* evicted, the queue holds distinct records and at most its limit.
DeferredDistinct ==
  \A p \in Peers :
    LET queue == session[p].deferred IN
    /\ Len(queue) <= DeferredLimit
    /\ \A i, j \in DOMAIN queue : queue[i].hash = queue[j].hash => i = j

\* nextWant, expireWants: the slots in use are within the budget, and each was taken at
\* a time this end's clock has shown.
SlotsAreBounded ==
  \A p \in Peers :
    /\ Len(session[p].outstanding) <= OutstandingWants
    /\ \A i \in DOMAIN session[p].outstanding : session[p].outstanding[i] >= Offset[p]

\* The inductive invariant of the session, whatever the other end sends.
SessionInv == TypeOK /\ NothingSkipped /\ DeferredDistinct /\ SlotsAreBounded

\* What is true between two ends that both run this code: HELLO comes first and tells a
\* length that the log behind it keeps, and what is asked for is there.
AsksForWhatIsThere ==
  connected => \A p \in Peers :
    /\ \/ session[p].helloReceived
       \/ /\ channel[p] # << >>
          /\ channel[p][1].t = "HELLO"
          /\ channel[p][1].v = PROTOCOL_VERSION
          /\ channel[p][1].len <= Len(store[Other(p)].log)
    /\ session[p].remoteLength <= Len(store[Other(p)].log)
    /\ \A i \in DOMAIN channel[p] : channel[p][i].t = "WANT" =>
         channel[p][i].count \in 1..WantCount /\ channel[p][i].from < Len(store[p].log)

\* The inductive invariant when both ends run this code.
HonestInv == SessionInv /\ AsksForWhatIsThere /\ SlotsAreRequests

Ready(p) == connected /\ session[p].helloReceived

\* onRecords, expireWants, pump: for as long as a connection lasts, an end asks until it
\* was sent all that the other end said it has.
FetchCompletes ==
  \A p \in Peers \ Hostile :
    [](Ready(p) => <>(~connected \/ session[p].fetchedThrough >= session[p].remoteLength))

HasAll(p) ==
  \A i \in 1..session[p].remoteLength : store[Other(p)].log[i] \in Held(p)

\* REPLICATION.md 8.2, swarm.test.ts "two peers over the driver converge on identical
\* registry state": for as long as a connection lasts, each end comes to hold every
\* record the other held when it began.
ExchangeCompletes ==
  \A p \in Peers : [](Ready(p) => <>(~connected \/ HasAll(p)))

\* swarm.ts, pump: "Called after every message, because `remoteLength` and the local
\* length both move": what an end comes to hold while a connection lasts, the other end
\* is sent as well.
GrowthIsFetched ==
  \A p \in Peers :
    \A r \in UNION {Elsewhere[q] : q \in Peers} :
      [](Ready(p) /\ r \in Held(Other(p)) => <>(~connected \/ r \in Held(p)))
=============================================================================
