---------------------------- MODULE Checkpoints ----------------------------
(***************************************************************************)
(* Checkpoints as they are compared and kept (checkpoint.ts): the ledger   *)
(* of what peers stated at each length, and the length a light client      *)
(* takes from several claims.  A checkpoint is [logLength, treeRoot,       *)
(* indexRoot]; liveNames is reported and never compared.                   *)
(***************************************************************************)
EXTENDS Integers, Sequences, FiniteSets

CONSTANTS
  CHECKPOINT_INTERVAL,
  LENGTHS_LIMIT, FORKS_LIMIT     \* CHECKPOINT_LIMITS

ASSUME CheckpointsAssumption ==
  /\ CHECKPOINT_INTERVAL \in Nat \ {0}
  /\ LENGTHS_LIMIT \in Nat
  /\ FORKS_LIMIT \in Nat

isCheckpointLength(n) == n > 0 /\ n % CHECKPOINT_INTERVAL = 0

\* Mutant: only the history is compared, not what was derived from it.
compareCheckpointsByTree(a, b) ==
  IF a.logLength # b.logLength THEN "DIFFERENT_LENGTH"
  ELSE IF a.treeRoot # b.treeRoot THEN "DIVERGED"
  ELSE "IDENTICAL"

compareCheckpoints(a, b) ==
  IF a.logLength # b.logLength THEN "DIFFERENT_LENGTH"
  ELSE IF a.treeRoot # b.treeRoot THEN "DIVERGED"
  ELSE IF a.indexRoot # b.indexRoot THEN "INDEX_DIVERGED"
  ELSE "IDENTICAL"

EmptyLedger == [seen |-> {}, forks |-> <<>>, refused |-> 0]

HeldAt(ledger, n) == {c \in ledger.seen : c.logLength = n}

\* CheckpointLedger.observe: the first at a length is kept, and a later one
\* that differs is reported beside it; a full ledger refuses.
observe(ledger, c) ==
  LET held == CHOOSE h \in HeldAt(ledger, c.logLength) : TRUE
      refused == [ledger EXCEPT !.refused = @ + 1]
      report == [logLength |-> c.logLength, first |-> held, other |-> c,
                 difference |-> compareCheckpoints(held, c)]
  IN  IF ~isCheckpointLength(c.logLength) THEN refused
      ELSE IF HeldAt(ledger, c.logLength) = {}
      THEN IF Cardinality(ledger.seen) >= LENGTHS_LIMIT THEN refused
           ELSE [ledger EXCEPT !.seen = @ \cup {c}]
      ELSE IF report.difference = "IDENTICAL" THEN ledger
      ELSE IF Len(ledger.forks) < FORKS_LIMIT THEN [ledger EXCEPT !.forks = Append(@, report)]
      ELSE refused

Agreeing(claims, n) == Cardinality({i \in DOMAIN claims : claims[i].logLength >= n})

NoLength == -1

\* Mutant: the greatest length any peer claims.
greatestClaimedLength(claims, quorum) ==
  LET lengths == {claims[i].logLength : i \in DOMAIN claims}
  IN  IF lengths = {} THEN NoLength ELSE CHOOSE n \in lengths : \A o \in lengths : o <= n

\* The greatest claimed length that at least `quorum` claims reach.
greatestCorroboratedLength(claims, quorum) ==
  LET lengths == {claims[i].logLength : i \in DOMAIN claims}
      corroborated == {n \in lengths : Agreeing(claims, n) >= quorum}
  IN  IF corroborated = {} THEN NoLength
      ELSE CHOOSE n \in corroborated : \A o \in corroborated : o <= n
=============================================================================
