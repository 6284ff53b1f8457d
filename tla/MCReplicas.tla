----------------------------- MODULE MCReplicas -----------------------------
(***************************************************************************)
(* Replicas for TLC: which peer a key lives at, how far clocks are apart,  *)
(* and what hostile keys sign.                                             *)
(***************************************************************************)
EXTENDS Replicas, FiniteSetsExt

CONSTANTS
  k1, k2, k3, p1, p2, p3  \* keys and peers of the instances

OneTld == [n \in Names |-> "tld"]
OneBit == [n \in Names |-> 1]

SameClock == [p \in Peers |-> 0]
OneAhead == [p \in Peers |-> IF p = p1 THEN 1 ELSE 0]

HomeOfOne == [k \in {k1} |-> p1]
HomeOfTwo == [k \in {k1, k2} |-> IF k = k1 THEN p1 ELSE p2]
HomeOfThree == [k \in {k1, k2, k3} |-> IF k = k1 THEN p1 ELSE IF k = k2 THEN p2 ELSE p3]
NoHome == [k \in {} |-> p1]

\* A registration draws any free digest of 1..3, another record the next of its own.
DrawnDigest(op, used) ==
  IF op = "REGISTER" THEN 1..3 \ used ELSE {Max({100} \cup used) + 1}

NoForgery(records, t) == {}

\* Registrations and updates that name any key as owner, signed by a hostile key.
Forgery(owner, signer, h, n, t, op) ==
  [hash |-> h, suite |-> 1, op |-> op, name |-> n, ownerKey |-> owner,
   seq |-> IF op = "REGISTER" THEN 0 ELSE 1, notBefore |-> t, notAfter |-> t + TERM_SECONDS,
   hasEntries |-> FALSE, pow |-> IF op = "REGISTER" THEN 1 ELSE NoPow,
   prevHash |-> ZeroHash, sig |-> signer, coSig |-> IF op = "TRANSFER" THEN signer ELSE NoKey]

Impersonation(records, t) ==
  {Forgery(owner, signer, h, n, t, op) :
     owner \in Honest, signer \in Keys \ Honest, n \in Names,
     h \in DrawnDigest("REGISTER", {r.hash : r \in records}),
     op \in {"REGISTER", "TRANSFER"}}

\* A hostile key registers as often as it likes.
SelfEquivocation(records, t) ==
  {Forgery(k, k, h, n, t, "REGISTER") : k \in Keys \ Honest, n \in Names,
     h \in DrawnDigest("REGISTER", {r.hash : r \in records})}
=============================================================================
