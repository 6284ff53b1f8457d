--------------------------- MODULE LawfulRegistry ---------------------------
(***************************************************************************)
(* What the store promises, without the store: one clock and one log that  *)
(* everyone can read, to which a record is added only when the log itself  *)
(* makes it lawful.  There is no process, no index, no replay and no       *)
(* failing write here; Store.tla implements this log by its file.          *)
(***************************************************************************)
EXTENDS RegistryRules

CONSTANT Offered(_, _)    \* records offered when the log is this, at a time

VARIABLES now, log

\* A registration is signed by its owner and lasts one term from a date the
\* clock has come near.
LawfulRegistration(r) ==
  /\ r.op = "REGISTER"
  /\ r.sig = r.ownerKey
  /\ r.notAfter = r.notBefore + TERM_SECONDS
  /\ r.notBefore <= now + MAX_CLOCK_SKEW_SECONDS

\* Anything else extends a record of the log that is not closed, for the rest of
\* its term or, by renewal, for little more than a term from its own date.
LawfulExtension(r) ==
  /\ r.op # "REGISTER"
  /\ \E i \in DOMAIN log :
       /\ Succeeds(log[i], r)
       /\ log[i].op \notin {"REVOKE", "RELINQUISH"}
       /\ r.op = "RELINQUISH" => r.notAfter = r.notBefore
       /\ r.notBefore <= now + MAX_CLOCK_SKEW_SECONDS
       /\ \/ r.notAfter = log[i].notAfter
          \/ r.notAfter <= r.notBefore + RENEWAL_WINDOW_SECONDS + TERM_SECONDS

Init == now = 0 /\ log = << >>

TimePasses ==
  /\ now' \in Nat /\ now' >= now
  /\ UNCHANGED log

Enter(r) ==
  /\ r \in Record
  /\ LawfulRegistration(r) \/ LawfulExtension(r)
  /\ log' = Append(log, r)
  /\ UNCHANGED now

Next == TimePasses \/ \E r \in Offered(log, now) : Enter(r)

Spec == Init /\ [][Next]_<<now, log>>
=============================================================================
