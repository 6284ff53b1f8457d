------------------------- MODULE EquivocationLedger -------------------------
(***************************************************************************)
(* The equivocation ledger and its file (equivocation.ts).  record appends *)
(* to the file and then to memory; a process that ends in the middle       *)
(* leaves a fragment of an entry, which the next process reads up to and   *)
(* then appends after.  Nothing locks the file: a sync and a register may  *)
(* have it open together, each deduplicating and counting against its own  *)
(* memory.                                                                 *)
(***************************************************************************)
EXTENDS Equivocation

CONSTANTS
  Procs,                  \* processes that share the file
  Reports,                \* pairs of records that are reported
  MaxFile                 \* bound: entries and fragments in the file

ASSUME ReportsAssumption == Reports \subseteq Record \X Record

VARIABLES
  file,                   \* entries and fragments, in order
  held,                   \* the entries in the memory of each process
  running,                \* the processes that have the ledger open
  acknowledged            \* what record answered "recorded" for: the fact, its origin,
                          \* and whether the file had no fragment then (history)

vars == <<file, held, running, acknowledged>>

\* The beginning of an entry, whose end was never written.
Fragment == [origin |-> "cut short"]

Whole(f) == \A i \in DOMAIN f : f[i].origin # Fragment.origin

\* Mutant: a file with a fragment is not read at all.
readEntriesStrict(f) == IF Whole(f) THEN f ELSE << >>

\* readEntries: the entries up to the first one that does not parse.  The length
\* prefix of a fragment swallows what was written after it, so nothing later parses.
readEntries(f) ==
  LET readable == {n \in 0..Len(f) : Whole(SubSeq(f, 1, n))}
      last == CHOOSE n \in readable : \A m \in readable : m <= n
  IN  SubSeq(f, 1, last)

\* open: every entry goes through record again, without being written; here, the
\* ledger after each number of entries.
Replay(es) ==
  LET ledger[i \in 0..Len(es)] ==
        IF i = 0 THEN << >>
                 ELSE recordEvidence(ledger[i - 1], es[i].a, es[i].b, es[i].origin)
  IN  ledger

Replayed(es) == Replay(es)[Len(es)]

reopened(f) == Replayed(readEntries(f))

Init ==
  /\ file = << >>
  /\ held = [p \in Procs |-> << >>]
  /\ running = {}
  /\ acknowledged = {}

Open(p) ==
  /\ p \notin running
  /\ running' = running \cup {p}
  /\ held' = [held EXCEPT ![p] = reopened(file)]
  /\ UNCHANGED <<file, acknowledged>>

\* record, for a report that is new and within budget; any other is only counted.
RecordReport(p, a, b, origin) ==
  /\ p \in running
  /\ Len(file) < MaxFile
  /\ recordOutcome(held[p], a, b, origin) = "recorded"
  /\ file' = Append(file, [origin |-> origin, a |-> a, b |-> b])
  /\ held' = [held EXCEPT ![p] = recordEvidence(@, a, b, origin)]
  /\ acknowledged' = acknowledged \cup {<<equivocationKey(a), origin, Whole(file)>>}
  /\ UNCHANGED running

\* The write of an entry stops half way; the process ends, or the error is caught
\* (by onRecords or by drivePeer) and it goes on.
TornRecord(p, a, b, origin) ==
  /\ p \in running
  /\ Len(file) < MaxFile
  /\ recordOutcome(held[p], a, b, origin) = "recorded"
  /\ file' = Append(file, Fragment)
  /\ \/ running' = running \ {p} /\ held' = [held EXCEPT ![p] = << >>]
     \/ UNCHANGED <<running, held>>
  /\ UNCHANGED acknowledged

Stop(p) ==
  /\ p \in running
  /\ running' = running \ {p}
  /\ held' = [held EXCEPT ![p] = << >>]
  /\ UNCHANGED <<file, acknowledged>>

Next ==
  \E p \in Procs :
    \/ Open(p)
    \/ Stop(p)
    \/ \E report \in Reports, origin \in Origins :
         \/ RecordReport(p, report[1], report[2], origin)
         \/ TornRecord(p, report[1], report[2], origin)

Spec == Init /\ [][Next]_vars

-----------------------------------------------------------------------------
\* equivocation.test.ts, "a half-written final entry loses that entry and nothing
\* before it": what any process recorded while the file was whole is there for the
\* next one to open it, whatever was cut short, refused or recorded since, except
\* that two processes together may have spent more than one budget.
EarlierEvidenceSurvives ==
  \A fact \in acknowledged : fact[3] =>
    \/ fact[1] \in KeysOf(reopened(file))
    \/ countOf(reopened(file), fact[2]) = budget(fact[2])

OnePerFact(ledger) ==
  \A i, j \in DOMAIN ledger :
    equivocationKey(ledger[i].a) = equivocationKey(ledger[j].a) => i = j

WithinBudgets(ledger) ==
  \A origin \in Origins : countOf(ledger, origin) <= budget(origin)

\* Identity is the deduplication key, and one budget cannot spend the other's: a
\* process holds one entry per fact and at most a budget of each origin, also after
\* it read a file that several processes wrote at once.
BoundedAndDistinct ==
  \A ledger \in {held[p] : p \in Procs} \cup {reopened(file)} :
    OnePerFact(ledger) /\ WithinBudgets(ledger)

\* The file holds evidence and fragments, memories hold evidence.
TypeOK ==
  /\ file \in Seq(Evidence \cup {Fragment})
  /\ held \in [Procs -> Seq(Evidence)]

\* What was acknowledged of a whole file is in the file, before any fragment.
AcknowledgedIsWritten ==
  \A fact \in acknowledged : fact[3] =>
    \E i \in DOMAIN file :
      /\ \A j \in 1..i : file[j] # Fragment
      /\ verifyEquivocation(file[i].a, file[i].b)
      /\ fact[1] = equivocationKey(file[i].a)
      /\ fact[2] = file[i].origin

\* The inductive invariant of the proofs.
LedgerInv ==
  /\ TypeOK
  /\ \A p \in Procs : OnePerFact(held[p]) /\ WithinBudgets(held[p])
  /\ AcknowledgedIsWritten
=============================================================================
