------------------------------ MODULE Listener ------------------------------
(***************************************************************************)
(* The sockets of serve.ts: one listener (the browsing proxy or the        *)
(* control API), its connections, the reader that turns octets into one    *)
(* request per connection, the deadline, and the accounting of slots.      *)
(*                                                                         *)
(* What a peer sends is a plan: the size of its head, what parsing the     *)
(* head finds, the body length the head declares, and how many octets      *)
(* follow the head.  The network cuts it into chunks anywhere.  A socket   *)
(* that was ended stays readable until its peer ends as well (net.Socket   *)
(* without allowHalfOpen closes only then), and a second write after the   *)
(* end is an error, which destroys it.                                     *)
(***************************************************************************)
EXTENDS Integers, FiniteSets

CONSTANTS
  Conns,                  \* connections, in the order the model cares about: none
  Plans,                  \* [head, parse, length, sent]
  headBytes, bodyBytes, connections,   \* SERVE_LIMITS
  MaxChunk                \* octets of one data event: a bound of the model

Rejections == {"HEAD_TOO_LARGE", "TOO_MANY_HEADERS", "MALFORMED_REQUEST", "HEAD_TIMEOUT",
               "TOO_MANY_CONNECTIONS", "UNEXPECTED_BODY", "BODY_TOO_LARGE", "MALFORMED_FRAMING"}

ASSUME ListenerAssumption ==
  /\ Plans \subseteq [head : Nat, parse : {"ok"} \cup Rejections, length : Nat, sent : Nat]
  /\ {headBytes, bodyBytes, connections} \subseteq Nat
  /\ MaxChunk \in Nat \ {0}

VARIABLES
  server,                 \* listening, closing or closed
  acceptsBody,            \* TRUE for the control API, FALSE for the proxy
  open,                   \* ConnectionCounter
  conn                    \* per connection: see Fresh

listenerVars == <<server, acceptsBody, open, conn>>

Idle == [state |-> "idle"]

Connection ==
  [state : {"open", "closing", "closed"}, plan : Plans, admitted : BOOLEAN, done : BOOLEAN,
   ended : BOOLEAN, buffer : Nat, answer : Rejections \cup {"none", "served", "INTERNAL"},
   runs : Nat]

ListenerTypeOK ==
  /\ server \in {"listening", "closing", "closed"}
  /\ acceptsBody \in BOOLEAN
  /\ open \in 0..connections
  /\ conn \in [Conns -> {Idle} \cup Connection]

ListenerInit ==
  /\ server = "listening"
  /\ acceptsBody \in BOOLEAN
  /\ open = 0
  /\ conn = [c \in Conns |-> Idle]

-----------------------------------------------------------------------------
\* writeHttp: the answer and the end of this side; after an end it is an error.
writeHttp(s, answer) ==
  IF s.ended THEN [s EXCEPT !.state = "closing", !.done = TRUE]
  ELSE [s EXCEPT !.ended = TRUE, !.answer = answer]

\* finish: at most once per connection.
finish(s, answer) == writeHttp([s EXCEPT !.done = TRUE], answer)

\* framing: the length of the body, from the head alone.
framing(plan) ==
  IF plan.parse # "ok" THEN plan.parse
  ELSE IF plan.length > bodyBytes THEN "BODY_TOO_LARGE"
  ELSE "framed"

\* Mutant: what follows the declared length is ignored.
readExtraIgnored(s, n) ==
  IF s.buffer < s.plan.head /\ n > headBytes      THEN "HEAD_TOO_LARGE"
  ELSE IF n < s.plan.head                         THEN "wait"
  ELSE IF framing(s.plan) # "framed"              THEN framing(s.plan)
  ELSE IF ~acceptsBody /\ s.plan.length > 0       THEN "UNEXPECTED_BODY"
  ELSE IF n - s.plan.head < s.plan.length         THEN "wait"
  ELSE "respond"

\* What the reader makes of a buffer that has grown to n octets.
read(s, n) ==
  IF s.buffer < s.plan.head /\ n > headBytes      THEN "HEAD_TOO_LARGE"
  ELSE IF n < s.plan.head                         THEN "wait"
  ELSE IF framing(s.plan) # "framed"              THEN framing(s.plan)
  ELSE IF ~acceptsBody /\ s.plan.length > 0       THEN "UNEXPECTED_BODY"
  ELSE IF n - s.plan.head > s.plan.length         THEN "UNEXPECTED_BODY"
  ELSE IF n - s.plan.head < s.plan.length         THEN "wait"
  ELSE "respond"

-----------------------------------------------------------------------------
\* Mutant: the counter is incremented before the cap is looked at.
AdmitLeaking(c, plan) ==
  LET admitted == open < connections
      s == [state |-> "open", plan |-> plan, admitted |-> admitted, done |-> FALSE,
            ended |-> FALSE, buffer |-> 0, answer |-> "none", runs |-> 0]
  IN  /\ server = "listening" /\ conn[c] = Idle
      /\ open' = open + 1
      /\ conn' = [conn EXCEPT ![c] =
                    IF admitted THEN s ELSE writeHttp(s, "TOO_MANY_CONNECTIONS")]
      /\ UNCHANGED <<server, acceptsBody>>

\* A connection arrives: the reader and its deadline are set up on the socket
\* first, and only then is a slot asked for.
Admit(c, plan) ==
  LET admitted == open < connections
      s == [state |-> "open", plan |-> plan, admitted |-> admitted, done |-> FALSE,
            ended |-> FALSE, buffer |-> 0, answer |-> "none", runs |-> 0]
  IN  /\ server = "listening" /\ conn[c] = Idle
      /\ open' = IF admitted THEN open + 1 ELSE open
      /\ conn' = [conn EXCEPT ![c] =
                    IF admitted THEN s ELSE writeHttp(s, "TOO_MANY_CONNECTIONS")]
      /\ UNCHANGED <<server, acceptsBody>>

\* Mutant: the buffer goes on growing after the request was decided.
DataAfterDone(c, chunk) ==
  LET s == conn[c]
      n == s.buffer + chunk
      verdict == read(s, n)
      grown == [s EXCEPT !.buffer = n]
  IN  /\ s.state = "open"
      /\ n <= s.plan.head + s.plan.sent
      /\ \/ s.done /\ conn' = [conn EXCEPT ![c] = grown]
         \/ ~s.done /\ verdict = "wait" /\ conn' = [conn EXCEPT ![c] = grown]
         \/ ~s.done /\ verdict \in Rejections /\ conn' = [conn EXCEPT ![c] = finish(grown, verdict)]
         \/ ~s.done /\ verdict = "respond" /\ \E answer \in {"served", "INTERNAL"} :
              conn' = [conn EXCEPT ![c] =
                         finish([grown EXCEPT !.runs = @ + 1], answer)]
      /\ UNCHANGED <<server, acceptsBody, open>>

\* A data event.  A handler that throws is answered with a bare 500.
Data(c, chunk) ==
  LET s == conn[c]
      n == s.buffer + chunk
      verdict == read(s, n)
      grown == [s EXCEPT !.buffer = n]
  IN  /\ s.state = "open" /\ ~s.done
      /\ n <= s.plan.head + s.plan.sent
      /\ \/ verdict = "wait" /\ conn' = [conn EXCEPT ![c] = grown]
         \/ verdict \in Rejections /\ conn' = [conn EXCEPT ![c] = finish(grown, verdict)]
         \/ verdict = "respond" /\ \E answer \in {"served", "INTERNAL"} :
              conn' = [conn EXCEPT ![c] =
                         finish([grown EXCEPT !.runs = @ + 1], answer)]
      /\ UNCHANGED <<server, acceptsBody, open>>

\* Mutant: the deadline is disarmed once the head is complete.
TimeoutOfHead(c) ==
  LET s == conn[c]
  IN  /\ s.state = "open" /\ ~s.done
      /\ s.buffer < s.plan.head
      /\ conn' = [conn EXCEPT ![c] = finish(s, "HEAD_TIMEOUT")]
      /\ UNCHANGED <<server, acceptsBody, open>>

\* The deadline, armed across the body as well.
Timeout(c) ==
  LET s == conn[c]
  IN  /\ s.state = "open" /\ ~s.done
      /\ conn' = [conn EXCEPT ![c] = finish(s, "HEAD_TIMEOUT")]
      /\ UNCHANGED <<server, acceptsBody, open>>

\* The peer ends its side, with which the socket closes.
PeerEnd(c) ==
  /\ conn[c].state = "open"
  /\ conn' = [conn EXCEPT ![c].state = "closing"]
  /\ UNCHANGED <<server, acceptsBody, open>>

\* A reset: the error handler destroys the socket.
SocketError(c) ==
  /\ conn[c].state = "open"
  /\ conn' = [conn EXCEPT ![c].state = "closing", ![c].done = TRUE]
  /\ UNCHANGED <<server, acceptsBody, open>>

\* The close event gives back the slot, if one was taken.
Close(c) ==
  /\ conn[c].state = "closing"
  /\ conn' = [conn EXCEPT ![c].state = "closed"]
  /\ open' = IF conn[c].admitted /\ open > 0 THEN open - 1 ELSE open
  /\ UNCHANGED <<server, acceptsBody>>

\* server.close(): no further connection; done when the last one is gone.
StopListening ==
  /\ server = "listening"
  /\ server' = "closing"
  /\ UNCHANGED <<acceptsBody, open, conn>>

ServerClosed ==
  /\ server = "closing"
  /\ \A c \in Conns : conn[c].state \in {"idle", "closed"}
  /\ server' = "closed"
  /\ UNCHANGED <<acceptsBody, open, conn>>

ListenerNext ==
  \/ \E c \in Conns :
       \/ \E plan \in Plans : Admit(c, plan)
       \/ \E chunk \in 1..MaxChunk : Data(c, chunk)
       \/ Timeout(c) \/ PeerEnd(c) \/ SocketError(c) \/ Close(c)
  \/ StopListening \/ ServerClosed

\* The event loop runs timers that are due and delivers close events; nothing
\* is assumed of the peers.
Fairness == \A c \in Conns : WF_listenerVars(Timeout(c)) /\ WF_listenerVars(Close(c))

ListenerSpec == ListenerInit /\ [][ListenerNext]_listenerVars /\ Fairness

-----------------------------------------------------------------------------
(***************************************************************************)
(* Properties.                                                             *)
(***************************************************************************)
Holding == {c \in Conns : conn[c] # Idle /\ conn[c].state # "closed" /\ conn[c].admitted}

\* The counter is the number of admitted connections that are not closed yet,
\* whatever mix of refusals, timeouts, resets and late data they went through:
\* no path leaks a slot or mints one (serve.ts, ConnectionCounter).
SlotsAreHeld == open = Cardinality(Holding)

\* The handler sees each connection at most once, and then exactly the request
\* that was framed: all of the declared body and no octet after it, whatever
\* the chunks were (serve.ts, serveConnection).
WholeRequestOnce ==
  \A c \in Conns : conn[c] # Idle =>
    /\ conn[c].runs <= 1
    /\ conn[c].runs = 1 => /\ conn[c].buffer = conn[c].plan.head + conn[c].plan.length
                           /\ conn[c].done

\* What one connection can make the process hold: a head, a body and the chunk
\* that went over either bound.
BufferIsBounded ==
  \A c \in Conns : conn[c] # Idle =>
    conn[c].buffer <= headBytes + bodyBytes + MaxChunk

\* Until a connection is decided its request was not handled, a head that is complete
\* was within its bound, and what is buffered is within the bounds of both; once it
\* is decided the buffer exceeds them by a chunk at most.
Reading(s) ==
  IF s.done
  THEN /\ s.runs <= 1
       /\ s.runs = 1 => s.buffer = s.plan.head + s.plan.length
       /\ s.buffer <= headBytes + bodyBytes + MaxChunk
  ELSE /\ s.runs = 0
       /\ s.buffer >= s.plan.head => s.plan.head <= headBytes
       /\ s.buffer <= headBytes + bodyBytes

\* The inductive invariant of the proofs.
ListenerInv ==
  /\ ListenerTypeOK
  /\ IsFiniteSet(Holding)
  /\ SlotsAreHeld
  /\ \A c \in Conns : conn[c] # Idle => Reading(conn[c])

\* Every connection is decided: a peer that goes quiet at any point, inside the
\* body it promised too, is answered by the clock or is gone.
EveryConnectionIsDecided ==
  \A c \in Conns : conn[c].state = "open" ~> (conn[c].state # "open" \/ conn[c].done)

\* serve.ts says of the head bound: "a legitimate body must not be able to push
\* a connection past a limit that was never about it".
BodyIsNotAHead ==
  \A c \in Conns : conn[c] # Idle =>
    (conn[c].answer = "HEAD_TOO_LARGE" => conn[c].plan.head > headBytes)

\* serve.ts says of the cap: "Beyond this, new sockets are closed immediately".
\* They are answered and ended, but what they send is still read and handled.
RefusedIsNotHandled ==
  \A c \in Conns : conn[c] # Idle => (conn[c].runs > 0 => conn[c].admitted)
=============================================================================
