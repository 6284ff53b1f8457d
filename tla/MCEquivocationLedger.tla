------------------------ MODULE MCEquivocationLedger ------------------------
(***************************************************************************)
(* EquivocationLedger for TLC: pairs of registrations by two keys of two   *)
(* names, one fact shown by two pairs, and pairs that are no evidence.     *)
(***************************************************************************)
EXTENDS EquivocationLedger, TLC

Symmetric == Permutations(Procs) \cup Permutations(Names) \cup Permutations(Keys)

OneTld == [n \in Names |-> "tld"]
OneBit == [n \in Names |-> 1]

Registration(h, n, owner, signer) ==
  [hash |-> h, suite |-> 1, op |-> "REGISTER", name |-> n, ownerKey |-> owner, seq |-> 0,
   notBefore |-> 0, notAfter |-> TERM_SECONDS, hasEntries |-> FALSE, pow |-> 1,
   prevHash |-> ZeroHash, sig |-> signer, coSig |-> NoKey]

\* Per key and name: two genuine pairs about one fact, and a pair with a half that
\* another key signed.
SomeReports ==
  UNION {{<<Registration(1, n, k, k), Registration(2, n, k, k)>>,
          <<Registration(3, n, k, k), Registration(4, n, k, k)>>,
          <<Registration(1, n, k, k), Registration(5, n, k, s)>>} :
            n \in Names, k \in Keys, s \in Keys}
=============================================================================
