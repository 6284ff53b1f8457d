------------------------------ MODULE MCStore ------------------------------
(***************************************************************************)
(* Store for TLC: a few keys and digests, durations of a few seconds in    *)
(* the order of the real ones, and the records anyone could offer.         *)
(***************************************************************************)
EXTENDS Store, TLC

CONSTANTS Digests         \* digests a REGISTER may have

Symmetric == Permutations(Procs) \cup Permutations(Keys)

OneTld == [n \in Names |-> "tld"]
OneBit == [n \in Names |-> 1]

\* Times a record offered now may carry and still be timely.
Timely(t) == {u \in (t - MAX_BACKDATE_SECONDS)..(t + MAX_CLOCK_SKEW_SECONDS) : u >= 0}

Hashes(log) == {log[i].hash : i \in DOMAIN log}

\* The digest of a record that is not a REGISTER: one of its own.
NextDigest(log) == 100 + Len(log)

Registers(log, times) ==
  [hash : Digests \ Hashes(log), suite : {1}, op : {"REGISTER"}, name : Names,
   ownerKey : Keys, seq : {0}, notBefore : times, notAfter : {u + TERM_SECONDS : u \in times},
   hasEntries : {FALSE}, pow : {1}, prevHash : {ZeroHash}, sig : Keys, coSig : {NoKey}]

EndOf(op, prev, t) ==
  CASE op = "RENEW" -> (IF prev.notAfter > t THEN prev.notAfter ELSE t) + TERM_SECONDS
    [] op = "RELINQUISH" -> t
    [] OTHER -> prev.notAfter

Successors(log, times, ops) ==
  {[hash |-> NextDigest(log), suite |-> 1, op |-> op, name |-> log[i].name,
    ownerKey |-> k, seq |-> log[i].seq + 1, notBefore |-> t,
    notAfter |-> EndOf(op, log[i], t), hasEntries |-> FALSE,
    pow |-> IF NeedsPow(op) THEN 1 ELSE NoPow, prevHash |-> log[i].hash,
    sig |-> s, coSig |-> IF op = "TRANSFER" THEN k ELSE NoKey] :
      op \in ops, i \in DOMAIN log, k \in Keys, s \in Keys, t \in times}

Delivered(log) == {log[i] : i \in DOMAIN log}

\* Anything: registrations, successors of any record, and what the file holds.
AnyRecord(log, t) ==
  Registers(log, Timely(t)) \cup Delivered(log)
    \cup Successors(log, Timely(t), Operations \ {"REGISTER"})

\* Records dated by the clock of the process that is offered them.  None at a
\* full log, which Accepts turns away: they need not be enumerated.
OnTimeRecord(log, t) ==
  IF Len(log) = MaxLog THEN {}
  ELSE Registers(log, {t}) \cup Delivered(log)
         \cup Successors(log, {t}, Operations \ {"REGISTER"})

\* As OnTimeRecord, with a single registrant (others come in by TRANSFER).
SoleRegistrant == CHOOSE k \in Keys : TRUE

SoleRegistrantRecord(log, t) ==
  {r \in OnTimeRecord(log, t) : r.op = "REGISTER" => r.ownerKey = SoleRegistrant}

\* Rival registrations only.
RegistrationOnly(log, t) == Registers(log, Timely(t)) \cup Delivered(log)
=============================================================================
