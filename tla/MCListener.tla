----------------------------- MODULE MCListener -----------------------------
(***************************************************************************)
(* Listener for TLC: heads below and above the bound, bodies that arrive   *)
(* short, whole and with more behind them, and heads that do not parse.    *)
(***************************************************************************)
EXTENDS Listener

Plan(head, parse, length, sent) ==
  [head |-> head, parse |-> parse, length |-> length, sent |-> sent]

ThePlans ==
  {Plan(2, "ok", 0, 8), Plan(2, "ok", 2, 3), Plan(2, "ok", 3, 3), Plan(4, "ok", 0, 0),
   Plan(2, "MALFORMED_FRAMING", 0, 0)}

\* A head and a body that are each within their bounds.
Legitimate == {Plan(2, "ok", 2, 2)}
=============================================================================
