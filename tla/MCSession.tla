----------------------------- MODULE MCSession -----------------------------
(***************************************************************************)
(* Session for TLC: short chains of records of a few names, known to one   *)
(* end or the other.                                                       *)
(***************************************************************************)
EXTENDS Session

CONSTANTS k1, k2, p1, p2, a, b, c

OneTld == [n \in Names |-> "tld"]
OneBit == [n \in Names |-> 1]

SameClock == [p \in Peers |-> 0]
TwoAhead == [p \in Peers |-> IF p = p1 THEN 2 ELSE 0]

Registration(h, n, k, t) ==
  [hash |-> h, suite |-> 1, op |-> "REGISTER", name |-> n, ownerKey |-> k, seq |-> 0,
   notBefore |-> t, notAfter |-> t + TERM_SECONDS, hasEntries |-> FALSE, pow |-> 1,
   prevHash |-> ZeroHash, sig |-> k, coSig |-> NoKey]

Update(h, prev, t) ==
  [prev EXCEPT !.hash = h, !.op = "UPDATE", !.seq = prev.seq + 1, !.notBefore = t,
               !.pow = NoPow, !.prevHash = prev.hash]

Reg(t) == Registration(1, a, k1, t)
Upd(t) == Update(2, Reg(t), t + 1)

\* p1 learns a chain of one name, and a registration of another dated by its own clock,
\* p2 a third name.
TwoChains == [p \in Peers |->
  IF p = p1 THEN {Reg(0), Upd(0), Registration(3, b, k1, 2)} ELSE {Registration(4, c, k2, 0)}]

\* p1 learns a registration and the update of it, dated by its own clock.
AheadChain == [p \in Peers |-> IF p = p1 THEN {Reg(2), Upd(2)} ELSE {}]

OneRegistration == [p \in Peers |-> IF p = p1 THEN {Reg(0)} ELSE {}]

NoMessages == {}

\* What a hostile end sends: other versions, lengths and positions, three records ahead
\* of the clock, one more than the queue holds, again and again, and reports true and false.
AnyMessages ==
  {[t |-> "HELLO", v |-> 1, len |-> len] : len \in {1, 3}}
    \cup {[t |-> "HELLO", v |-> 2, len |-> 1]}
    \cup {[t |-> "WANT", from |-> 0, count |-> n] : n \in {0, 1}}
    \cup {[t |-> "RECORDS", from |-> from, recs |-> recs] : from \in {0, 2},
            recs \in {<<Reg(0)>>, <<Reg(2)>>,
                     <<Registration(3, b, k1, 2), Registration(6, c, k2, 2)>>}}
    \cup {[t |-> "EQUIVOCATION", a |-> Reg(0), b |-> Registration(5, a, k, 0)] : k \in Keys}

Nothing == [p \in Peers |-> {}]
=============================================================================
