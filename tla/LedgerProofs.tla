---------------------------- MODULE LedgerProofs ----------------------------
(***************************************************************************)
(* Proofs about EquivocationLedger, for any number of processes that share *)
(* the file, any reports and any budgets: reading the file back gives one  *)
(* entry per fact within the budgets, and nothing that was acknowledged    *)
(* before the file was torn is lost to more than a spent budget.           *)
(*                                                                         *)
(* And about LightClient, for any peers, liars and logs: the ledger of     *)
(* checkpoints reports every fork it does not count as turned away, fewer  *)
(* liars than the quorum push no length past the honest logs, every proof  *)
(* a prover makes verifies against the tree that grew, and only records of *)
(* a log verify against its tree's root.                                   *)
(***************************************************************************)
EXTENDS EquivocationLedger, LightClient, Induction, FiniteSetTheorems

-----------------------------------------------------------------------------
(***************************************************************************)
(* One call of record.                                                     *)
(***************************************************************************)

\* What a ledger in memory is.
Ledger(l) == l \in Seq(Evidence) /\ OnePerFact(l) /\ WithinBudgets(l)

\* The entries of an origin can be counted.
LEMMA CountType ==
  ASSUME NEW l \in Seq(Evidence), NEW origin
  PROVE  /\ IsFiniteSet({i \in DOMAIN l : l[i].origin = origin})
         /\ countOf(l, origin) \in Nat
<1> DEFINE S == {i \in DOMAIN l : l[i].origin = origin}
<1>1. S \subseteq 1..Len(l) /\ Len(l) \in Nat
  OBVIOUS
<1>2. IsFiniteSet(1..Len(l))
  BY <1>1, FS_Interval
<1>3. countOf(l, origin) = Cardinality(S)
  BY DEF countOf
<1> HIDE DEF S
<1>4. IsFiniteSet(S)
  BY <1>1, <1>2, FS_Subset
<1>5. Cardinality(S) \in Nat
  BY <1>4, FS_CardinalityType
<1> QED BY <1>3, <1>4, <1>5 DEF S

\* An entry that is appended is counted for its own origin only.
LEMMA CountAppend ==
  ASSUME NEW l \in Seq(Evidence), NEW e \in Evidence, NEW origin
  PROVE  countOf(Append(l, e), origin)
           = IF e.origin = origin THEN countOf(l, origin) + 1 ELSE countOf(l, origin)
<1> DEFINE S == {i \in DOMAIN l : l[i].origin = origin}
           U == {i \in DOMAIN Append(l, e) : Append(l, e)[i].origin = origin}
           last == Len(l) + 1
<1>1. countOf(l, origin) = Cardinality(S) /\ countOf(Append(l, e), origin) = Cardinality(U)
  BY DEF countOf
<1>2. IsFiniteSet(S)
  BY CountType
<1>3. last \notin S
  OBVIOUS
<1>4. CASE e.origin = origin
  <2>1. U = S \cup {last}
    BY <1>4
  <2> HIDE DEF S, U, last
  <2>2. Cardinality(U) = Cardinality(S) + 1
    BY <1>2, <1>3, <2>1, FS_AddElement
  <2> QED BY <1>1, <1>4, <2>2
<1>5. CASE e.origin # origin
  <2>1. U = S
    BY <1>5
  <2> HIDE DEF S, U
  <2> QED BY <1>1, <1>5, <2>1
<1> QED BY <1>4, <1>5

\* Budgets are numbers.
LEMMA BudgetType == ASSUME NEW origin PROVE budget(origin) \in Nat
BY BudgetAssumption DEF budget

\* record either leaves the ledger alone or appends verified evidence of a fact the
\* ledger does not hold, of an origin whose budget is not spent.
LEMMA RecordCases ==
  ASSUME NEW l \in Seq(Evidence), NEW a \in Record, NEW b \in Record,
         NEW origin \in Origins
  PROVE  \/ /\ recordEvidence(l, a, b, origin) = l
            /\ \/ ~verifyEquivocation(a, b)
               \/ equivocationKey(a) \in KeysOf(l)
               \/ countOf(l, origin) >= budget(origin)
         \/ /\ recordEvidence(l, a, b, origin)
                 = Append(l, [origin |-> origin, a |-> a, b |-> b])
            /\ equivocationKey(a) \notin KeysOf(l)
            /\ countOf(l, origin) < budget(origin)
<1>1. countOf(l, origin) \in Nat /\ budget(origin) \in Nat
  BY CountType, BudgetType
<1> QED BY <1>1 DEF recordEvidence, recordOutcome

\* record keeps a ledger one, and loses nothing.
LEMMA RecordKeeps ==
  ASSUME NEW l, Ledger(l), NEW a \in Record, NEW b \in Record, NEW origin \in Origins
  PROVE  /\ Ledger(recordEvidence(l, a, b, origin))
         /\ KeysOf(l) \subseteq KeysOf(recordEvidence(l, a, b, origin))
         /\ \A o \in Origins :
              countOf(l, o) <= countOf(recordEvidence(l, a, b, origin), o)
<1> DEFINE e == [origin |-> origin, a |-> a, b |-> b]
<1>0. l \in Seq(Evidence) /\ \A o \in Origins : countOf(l, o) \in Nat
  BY CountType DEF Ledger
<1>1. CASE recordEvidence(l, a, b, origin) = l
  BY <1>0, <1>1
<1>2. CASE /\ recordEvidence(l, a, b, origin) = Append(l, e)
           /\ equivocationKey(a) \notin KeysOf(l)
           /\ countOf(l, origin) < budget(origin)
  <2>1. e \in Evidence /\ e.origin = origin /\ e.a = a
    BY DEF Evidence
  <2> HIDE DEF e
  <2>2. OnePerFact(Append(l, e))
    BY <1>0, <1>2, <2>1 DEF Ledger, OnePerFact, KeysOf
  <2>3. \A o \in Origins :
          /\ countOf(l, o) <= countOf(Append(l, e), o)
          /\ countOf(Append(l, e), o) <= budget(o)
    <3> SUFFICES ASSUME NEW o \in Origins
                 PROVE  /\ countOf(l, o) <= countOf(Append(l, e), o)
                        /\ countOf(Append(l, e), o) <= budget(o)
      OBVIOUS
    <3>1. countOf(l, o) \in Nat /\ budget(o) \in Nat /\ countOf(l, o) <= budget(o)
      BY <1>0, BudgetType DEF Ledger, WithinBudgets
    <3>2. countOf(Append(l, e), o)
            = IF e.origin = o THEN countOf(l, o) + 1 ELSE countOf(l, o)
      BY <1>0, <2>1, CountAppend
    <3> QED BY <1>2, <2>1, <3>1, <3>2
  <2>4. KeysOf(l) \subseteq KeysOf(Append(l, e))
    BY <1>0, <2>1 DEF KeysOf
  <2>5. Append(l, e) \in Seq(Evidence)
    BY <1>0, <2>1
  <2> QED BY <1>2, <2>2, <2>3, <2>4, <2>5 DEF Ledger, WithinBudgets
<1> QED BY <1>0, <1>1, <1>2, RecordCases

\* After record was asked, the fact is held or the budget of the origin is spent.
LEMMA RecordSettles ==
  ASSUME NEW l, Ledger(l), NEW a \in Record, NEW b \in Record, NEW origin \in Origins,
         verifyEquivocation(a, b)
  PROVE  \/ equivocationKey(a) \in KeysOf(recordEvidence(l, a, b, origin))
         \/ countOf(recordEvidence(l, a, b, origin), origin) >= budget(origin)
<1> DEFINE e == [origin |-> origin, a |-> a, b |-> b]
<1>1. l \in Seq(Evidence)
  BY DEF Ledger
<1>2. CASE recordEvidence(l, a, b, origin) = Append(l, e)
  <2>1. e \in Evidence /\ e.a = a
    BY DEF Evidence
  <2> HIDE DEF e
  <2>2. Len(l) + 1 \in DOMAIN Append(l, e) /\ Append(l, e)[Len(l) + 1] = e
    BY <1>1, <2>1
  <2> QED BY <1>2, <2>1, <2>2 DEF KeysOf
<1>3. CASE /\ recordEvidence(l, a, b, origin) = l
           /\ \/ equivocationKey(a) \in KeysOf(l)
              \/ countOf(l, origin) >= budget(origin)
  BY <1>3
<1> QED BY <1>1, <1>2, <1>3, RecordCases

-----------------------------------------------------------------------------
(***************************************************************************)
(* Reading the file back.                                                  *)
(***************************************************************************)

\* What it means for g to be the ledgers after each number of entries.
IsReplay(g, es) ==
  g = [i \in 0..Len(es) |->
         IF i = 0 THEN << >> ELSE recordEvidence(g[i - 1], es[i].a, es[i].b, es[i].origin)]

\* The ledgers of a replay exist: the recursion of Replay is well founded.
LEMMA ReplayExists ==
  ASSUME NEW es \in Seq(Evidence)
  PROVE  \E g : IsReplay(g, es)
<1> DEFINE n == Len(es)
           X == Seq(Evidence)
           x0 == << >>
           F == [i \in Nat |-> [l \in X |->
                   IF i \in 1..n THEN recordEvidence(l, es[i].a, es[i].b, es[i].origin)
                                 ELSE l]]
<1>1. n \in Nat /\ x0 \in X
  OBVIOUS
<1>2. F \in [Nat -> [X -> X]]
  <2> SUFFICES ASSUME NEW i \in Nat, NEW l \in X, i \in 1..n
               PROVE  recordEvidence(l, es[i].a, es[i].b, es[i].origin) \in X
    OBVIOUS
  <2>1. es[i] \in Evidence
    OBVIOUS
  <2>2. es[i].a \in Record /\ es[i].b \in Record /\ es[i].origin \in Origins
    BY <2>1 DEF Evidence
  <2>3. [origin |-> es[i].origin, a |-> es[i].a, b |-> es[i].b] \in Evidence
    BY <2>2 DEF Evidence
  <2> QED BY <2>3 DEF recordEvidence
<1>3. PICK g : IsIteration(g, X, x0, F, n)
  <2> HIDE DEF F, n, X, x0
  <2> QED BY <1>1, <1>2, Iteration
<1>4. ASSUME NEW i \in 1..n
      PROVE  g[i] = recordEvidence(g[i - 1], es[i].a, es[i].b, es[i].origin)
  <2>1. i \in Nat /\ i - 1 \in 0..n /\ g[i - 1] \in X
    BY <1>3 DEF IsIteration
  <2> QED BY <1>3, <2>1 DEF IsIteration
<1> HIDE DEF F
<1>5. IsReplay(g, es)
  BY <1>1, <1>3, <1>4 DEF IsReplay, IsIteration
<1> QED BY <1>5

\* Replay is the ledgers after each number of entries.
LEMMA ReplaySteps ==
  ASSUME NEW es \in Seq(Evidence)
  PROVE  /\ Replay(es)[0] = << >>
         /\ \A i \in 1..Len(es) :
              Replay(es)[i]
                = recordEvidence(Replay(es)[i - 1], es[i].a, es[i].b, es[i].origin)
<1>1. Replay(es) = CHOOSE g : IsReplay(g, es)
  BY DEF Replay, IsReplay
<1>2. IsReplay(Replay(es), es)
  BY <1>1, ReplayExists
<1> DEFINE g == Replay(es)
<1> HIDE DEF g
<1>3. IsReplay(g, es)
  BY <1>2 DEF g
<1>4. g[0] = << >>
  BY <1>3 DEF IsReplay
<1>5. \A i \in 1..Len(es) : g[i] = recordEvidence(g[i - 1], es[i].a, es[i].b, es[i].origin)
  BY <1>3 DEF IsReplay
<1> QED BY <1>4, <1>5 DEF g

\* A ledger that holds nothing is one.
LEMMA EmptyIsLedger == Ledger(<< >>)
<1>1. \A o \in Origins : countOf(<< >>, o) = 0
  <2>1. ASSUME NEW o \in Origins
        PROVE  {i \in DOMAIN << >> : << >>[i].origin = o} = {}
    OBVIOUS
  <2> QED BY <2>1, FS_EmptySet DEF countOf
<1>2. WithinBudgets(<< >>)
  BY <1>1, BudgetType DEF WithinBudgets
<1>3. OnePerFact(<< >>) /\ << >> \in Seq(Evidence)
  BY DEF OnePerFact
<1> QED BY <1>2, <1>3 DEF Ledger

\* A ledger read back is a ledger at every point.
LEMMA ReplayKeeps ==
  ASSUME NEW es \in Seq(Evidence)
  PROVE  \A i \in 0..Len(es) : Ledger(Replay(es)[i])
<1> DEFINE n == Len(es)
           g == Replay(es)
           T == {i \in 0..n : Ledger(g[i])}
<1>1. n \in Nat /\ g[0] = << >>
      /\ \A i \in 1..n : g[i] = recordEvidence(g[i - 1], es[i].a, es[i].b, es[i].origin)
  BY ReplaySteps
<1>2. 0 \in T
  BY <1>1, EmptyIsLedger
<1>3. ASSUME NEW i \in 0..(n - 1), i \in T PROVE i + 1 \in T
  <2>1. i + 1 \in 1..n /\ i + 1 \in 0..n /\ (i + 1) - 1 = i
    BY <1>1
  <2>2. es[i + 1] \in Evidence
    BY <2>1
  <2>3. es[i + 1].a \in Record /\ es[i + 1].b \in Record /\ es[i + 1].origin \in Origins
    BY <2>2 DEF Evidence
  <2>4. g[i + 1] = recordEvidence(g[i], es[i + 1].a, es[i + 1].b, es[i + 1].origin)
    BY <1>1, <2>1
  <2>5. Ledger(g[i])
    BY <1>3
  <2> HIDE DEF g
  <2>6. Ledger(g[i + 1])
    BY <2>3, <2>4, <2>5, RecordKeeps
  <2> QED BY <2>1, <2>6
<1>4. \A i \in 0..n : i \in T
  <2> HIDE DEF T, n
  <2> QED BY <1>1, <1>2, <1>3, IntervalInduction
<1> QED BY <1>4

\* Once an entry went through record, its fact is in every later ledger, or the budget
\* of its origin is spent in every later one.
LEMMA ReplaySettles ==
  ASSUME NEW es \in Seq(Evidence), NEW m \in 1..Len(es),
         verifyEquivocation(es[m].a, es[m].b)
  PROVE  \/ equivocationKey(es[m].a) \in KeysOf(Replayed(es))
         \/ countOf(Replayed(es), es[m].origin) = budget(es[m].origin)
<1> DEFINE n == Len(es)
           g == Replay(es)
           key == equivocationKey(es[m].a)
           o == es[m].origin
           Settled(l) == key \in KeysOf(l) \/ countOf(l, o) >= budget(o)
           T == {i \in m..n : Settled(g[i])}
<1>1. n \in Nat /\ m \in Nat /\ m \in 1..n
  OBVIOUS
<1>2. \A i \in 1..n : g[i] = recordEvidence(g[i - 1], es[i].a, es[i].b, es[i].origin)
  BY ReplaySteps
<1>3. \A i \in 0..n : Ledger(g[i])
  BY ReplayKeeps
<1>4. \A i \in 1..n : es[i].a \in Record /\ es[i].b \in Record /\ es[i].origin \in Origins
  <2>1. \A i \in 1..n : es[i] \in Evidence
    OBVIOUS
  <2> QED BY <2>1 DEF Evidence
<1> HIDE DEF g, n
<1>5. m \in T
  <2>1. m - 1 \in 0..n /\ m \in m..n
    BY <1>1
  <2>2. Ledger(g[m - 1])
    BY <1>3, <2>1
  <2>3. g[m] = recordEvidence(g[m - 1], es[m].a, es[m].b, es[m].origin)
    BY <1>1, <1>2
  <2>4. Settled(recordEvidence(g[m - 1], es[m].a, es[m].b, es[m].origin))
    BY <1>1, <1>4, <2>2, RecordSettles
  <2> QED BY <2>1, <2>3, <2>4
<1>6. ASSUME NEW i \in m..(n - 1), i \in T PROVE i + 1 \in T
  <2>1. i + 1 \in 1..n /\ i + 1 \in m..n /\ i \in 0..n /\ (i + 1) - 1 = i
    BY <1>1
  <2> DEFINE l == g[i]
             k == g[i + 1]
  <2>2. Ledger(l) /\ Settled(l)
    BY <1>3, <1>6, <2>1
  <2>3. k = recordEvidence(l, es[i + 1].a, es[i + 1].b, es[i + 1].origin)
    BY <1>2, <2>1
  <2>4. es[i + 1].a \in Record /\ es[i + 1].b \in Record /\ es[i + 1].origin \in Origins
    BY <1>4, <2>1
  <2>5. o \in Origins
    BY <1>1, <1>4
  <2> HIDE DEF l, k, o
  <2>6. Ledger(k) /\ KeysOf(l) \subseteq KeysOf(k) /\ countOf(l, o) <= countOf(k, o)
    BY <2>2, <2>3, <2>4, <2>5, RecordKeeps
  <2>7. countOf(l, o) \in Nat /\ countOf(k, o) \in Nat /\ budget(o) \in Nat
    BY <2>2, <2>6, CountType, BudgetType DEF Ledger
  <2>8. Settled(k)
    BY <2>2, <2>6, <2>7
  <2> QED BY <2>1, <2>8 DEF k
<1>7. \A i \in m..n : i \in T
  <2> HIDE DEF T
  <2> QED BY <1>1, <1>5, <1>6, IntervalInduction
<1>8. Settled(g[n]) /\ Ledger(g[n])
  BY <1>1, <1>3, <1>7
<1>9. g[n] = Replayed(es)
  BY DEF g, n, Replayed
<1>10. o \in Origins
  BY <1>1, <1>4
<1>11. countOf(g[n], o) \in Nat /\ budget(o) \in Nat
  BY <1>8, CountType, BudgetType DEF Ledger
<1>12. countOf(g[n], o) <= budget(o)
  BY <1>8, <1>10 DEF Ledger, WithinBudgets
<1> QED BY <1>8, <1>9, <1>11, <1>12

\* readEntries is what the file holds before its first fragment.
LEMMA ReadEntries ==
  ASSUME NEW f \in Seq(Evidence \cup {Fragment})
  PROVE  /\ readEntries(f) \in Seq(Evidence)
         /\ \A i \in DOMAIN readEntries(f) : readEntries(f)[i] = f[i]
         /\ \A i \in DOMAIN f :
              (\A j \in 1..i : f[j] # Fragment) => i \in 1..Len(readEntries(f))
<1> DEFINE readable == {n \in 0..Len(f) : Whole(SubSeq(f, 1, n))}
           last == CHOOSE n \in readable : \A m \in readable : m <= n
<1>0. Len(f) \in Nat
  OBVIOUS
<1>1. \A e \in Evidence \cup {Fragment} : (e.origin # Fragment.origin) = (e # Fragment)
  BY DEF Evidence, Fragment, Origins
<1>2. ASSUME NEW n \in 0..Len(f)
      PROVE  Whole(SubSeq(f, 1, n)) <=> \A j \in 1..n : f[j] # Fragment
  <2>1. /\ DOMAIN SubSeq(f, 1, n) = 1..n
        /\ \A j \in 1..n : SubSeq(f, 1, n)[j] = f[j] /\ f[j] \in Evidence \cup {Fragment}
    OBVIOUS
  <2> QED BY <1>1, <2>1 DEF Whole
<1>3. 0 \in readable
  BY <1>0, <1>2
<1>4. \E n \in readable : \A m \in readable : m <= n
  <2>1. readable \in SUBSET (0..Len(f)) /\ readable # {}
    BY <1>3
  <2> HIDE DEF readable
  <2> QED BY <1>0, <2>1, BoundedMax
<1>5. last \in readable /\ \A m \in readable : m <= last
  BY <1>4
<1>6. readEntries(f) = SubSeq(f, 1, last)
  BY DEF readEntries
<1> HIDE DEF last
<1>7. last \in 0..Len(f) /\ \A j \in 1..last : f[j] # Fragment
  BY <1>2, <1>5
<1>8. /\ Len(SubSeq(f, 1, last)) = last
      /\ DOMAIN SubSeq(f, 1, last) = 1..last
      /\ \A j \in 1..last : SubSeq(f, 1, last)[j] = f[j] /\ f[j] \in Evidence
  BY <1>7
<1>9. SubSeq(f, 1, last) \in Seq(Evidence)
  <2>1. SubSeq(f, 1, last) \in Seq(Evidence \cup {Fragment})
    BY <1>7
  <2> QED BY <1>8, <2>1
<1>10. ASSUME NEW i \in DOMAIN f, \A j \in 1..i : f[j] # Fragment
       PROVE  i \in 1..last
  <2>1. i \in 0..Len(f) /\ i \in 1..Len(f)
    OBVIOUS
  <2>2. i \in readable
    BY <1>2, <1>10, <2>1
  <2>3. i <= last
    BY <1>5, <2>2
  <2> QED BY <1>7, <2>1, <2>3
<1> QED BY <1>6, <1>8, <1>9, <1>10

\* What open reads back is a ledger.
LEMMA ReopenedIsLedger ==
  ASSUME NEW f \in Seq(Evidence \cup {Fragment})
  PROVE  Ledger(reopened(f))
<1> DEFINE es == readEntries(f)
<1>1. es \in Seq(Evidence)
  BY ReadEntries
<1> HIDE DEF es
<1>2. Len(es) \in 0..Len(es)
  BY <1>1
<1>3. Ledger(Replay(es)[Len(es)])
  BY <1>1, <1>2, ReplayKeeps
<1> QED BY <1>3 DEF reopened, Replayed, es

-----------------------------------------------------------------------------
(***************************************************************************)
(* The invariant and the theorems.                                         *)
(***************************************************************************)

\* A file that grows keeps what was acknowledged.
LEMMA AcknowledgedStays ==
  ASSUME TypeOK, AcknowledgedIsWritten, NEW e, file' = Append(file, e),
         acknowledged' = acknowledged
  PROVE  AcknowledgedIsWritten'
<1> SUFFICES ASSUME NEW fact \in acknowledged, fact[3]
             PROVE  \E i \in DOMAIN file' :
                      /\ \A j \in 1..i : file'[j] # Fragment
                      /\ verifyEquivocation(file'[i].a, file'[i].b)
                      /\ fact[1] = equivocationKey(file'[i].a)
                      /\ fact[2] = file'[i].origin
  BY DEF AcknowledgedIsWritten, Fragment, verifyEquivocation, equivocationKey
<1>1. PICK i \in DOMAIN file :
        /\ \A j \in 1..i : file[j] # Fragment
        /\ verifyEquivocation(file[i].a, file[i].b)
        /\ fact[1] = equivocationKey(file[i].a)
        /\ fact[2] = file[i].origin
  BY DEF AcknowledgedIsWritten
<1>2. /\ i \in DOMAIN file' /\ file'[i] = file[i]
      /\ \A j \in 1..i : file'[j] = file[j]
  BY DEF TypeOK
<1> QED BY <1>1, <1>2

\* The memories: one that changes becomes a ledger.
LEMMA MemoriesKeep ==
  ASSUME LedgerInv, NEW p \in Procs, NEW l, Ledger(l), held' = [held EXCEPT ![p] = l]
  PROVE  /\ held' \in [Procs -> Seq(Evidence)]
         /\ \A q \in Procs : OnePerFact(held'[q]) /\ WithinBudgets(held'[q])
BY DEF LedgerInv, TypeOK, Ledger

\* The empty file satisfies the invariant.
LEMMA InitLedger == Init => LedgerInv
<1> SUFFICES ASSUME Init PROVE LedgerInv
  OBVIOUS
<1>1. TypeOK /\ AcknowledgedIsWritten
  BY DEF Init, TypeOK, AcknowledgedIsWritten
<1>2. \A p \in Procs : OnePerFact(held[p]) /\ WithinBudgets(held[p])
  BY EmptyIsLedger DEF Init, Ledger
<1> QED BY <1>1, <1>2 DEF LedgerInv

\* A report that is recorded was new to the process, within budget and verified; it is
\* written behind what the file holds.
LEMMA RecordReportKeeps ==
  ASSUME LedgerInv, NEW p \in Procs, NEW a \in Record, NEW b \in Record,
         NEW origin \in Origins, RecordReport(p, a, b, origin)
  PROVE  LedgerInv'
<1> DEFINE e == [origin |-> origin, a |-> a, b |-> b]
           new == <<equivocationKey(a), origin, Whole(file)>>
<1>1. /\ file' = Append(file, e)
      /\ held' = [held EXCEPT ![p] = recordEvidence(held[p], a, b, origin)]
      /\ acknowledged' = acknowledged \cup {new}
      /\ recordOutcome(held[p], a, b, origin) = "recorded"
  BY DEF RecordReport
<1>2. e \in Evidence /\ e.a = a /\ e.b = b /\ e.origin = origin
  BY DEF Evidence
<1>3. file \in Seq(Evidence \cup {Fragment}) /\ held \in [Procs -> Seq(Evidence)]
  BY DEF LedgerInv, TypeOK
<1>4. Ledger(held[p])
  BY <1>3 DEF LedgerInv, Ledger
<1>5. Ledger(recordEvidence(held[p], a, b, origin))
  BY <1>4, RecordKeeps
<1>6. /\ held' \in [Procs -> Seq(Evidence)]
      /\ \A q \in Procs : OnePerFact(held'[q]) /\ WithinBudgets(held'[q])
  BY <1>1, <1>5, MemoriesKeep
<1>7. verifyEquivocation(a, b)
  BY <1>1 DEF recordOutcome
<1>8. new[1] = equivocationKey(a) /\ new[2] = origin /\ new[3] = Whole(file)
  OBVIOUS
<1> HIDE DEF e, new
<1>9. file' \in Seq(Evidence \cup {Fragment})
  BY <1>1, <1>2, <1>3
<1>10. ASSUME NEW fact \in acknowledged', fact[3]
       PROVE  \E i \in DOMAIN file' :
                /\ \A j \in 1..i : file'[j] # Fragment
                /\ verifyEquivocation(file'[i].a, file'[i].b)
                /\ fact[1] = equivocationKey(file'[i].a)
                /\ fact[2] = file'[i].origin
  <2>1. CASE fact \in acknowledged
    <3>1. PICK i \in DOMAIN file :
            /\ \A j \in 1..i : file[j] # Fragment
            /\ verifyEquivocation(file[i].a, file[i].b)
            /\ fact[1] = equivocationKey(file[i].a)
            /\ fact[2] = file[i].origin
      BY <1>10, <2>1 DEF LedgerInv, AcknowledgedIsWritten
    <3>2. /\ i \in DOMAIN file' /\ file'[i] = file[i]
          /\ \A j \in 1..i : file'[j] = file[j]
      BY <1>1, <1>3
    <3> QED BY <3>1, <3>2
  <2>2. CASE fact = new
    <3>1. Whole(file)
      BY <1>8, <1>10, <2>2
    <3> DEFINE last == Len(file) + 1
    <3>2. last \in DOMAIN file' /\ file'[last] = e
      BY <1>1, <1>3
    <3>3. ASSUME NEW j \in 1..last PROVE file'[j] # Fragment
      <4>1. e.origin # Fragment.origin
        BY <1>2 DEF Fragment, Origins
      <4>2. CASE j = last
        BY <3>2, <4>1, <4>2
      <4>3. CASE j # last
        <5>1. j \in DOMAIN file /\ file'[j] = file[j]
          BY <1>1, <1>3, <4>3
        <5> QED BY <3>1, <5>1 DEF Whole
      <4> QED BY <4>2, <4>3
    <3> HIDE DEF last
    <3> QED BY <1>2, <1>7, <1>8, <2>2, <3>2, <3>3
  <2> QED BY <1>1, <2>1, <2>2
<1>11. AcknowledgedIsWritten'
  BY <1>10 DEF AcknowledgedIsWritten, Fragment, verifyEquivocation, equivocationKey
<1> QED BY <1>6, <1>9, <1>11 DEF LedgerInv, TypeOK

\* A torn write leaves a fragment; the memories are kept or dropped.
LEMMA TornRecordKeeps ==
  ASSUME LedgerInv, NEW p \in Procs, NEW a, NEW b, NEW origin, TornRecord(p, a, b, origin)
  PROVE  LedgerInv'
<1>1. file' = Append(file, Fragment) /\ acknowledged' = acknowledged
  BY DEF TornRecord
<1>2. held' = held \/ held' = [held EXCEPT ![p] = << >>]
  BY DEF TornRecord
<1>3. file' \in Seq(Evidence \cup {Fragment})
  BY <1>1 DEF LedgerInv, TypeOK
<1>4. /\ held' \in [Procs -> Seq(Evidence)]
      /\ \A q \in Procs : OnePerFact(held'[q]) /\ WithinBudgets(held'[q])
  <2>1. CASE held' = held
    BY <2>1 DEF LedgerInv, TypeOK
  <2>2. CASE held' = [held EXCEPT ![p] = << >>]
    BY <2>2, EmptyIsLedger, MemoriesKeep
  <2> QED BY <1>2, <2>1, <2>2
<1>5. AcknowledgedIsWritten'
  BY <1>1, AcknowledgedStays DEF LedgerInv
<1> QED BY <1>3, <1>4, <1>5 DEF LedgerInv, TypeOK

\* Every step keeps the invariant.
LEMMA NextLedger == LedgerInv /\ [Next]_vars => LedgerInv'
<1> SUFFICES ASSUME LedgerInv, [Next]_vars PROVE LedgerInv'
  OBVIOUS
<1>1. ASSUME NEW p \in Procs, NEW l, Ledger(l), held' = [held EXCEPT ![p] = l],
             UNCHANGED <<file, acknowledged>>
      PROVE  LedgerInv'
  <2>1. /\ held' \in [Procs -> Seq(Evidence)]
        /\ \A q \in Procs : OnePerFact(held'[q]) /\ WithinBudgets(held'[q])
    BY <1>1, MemoriesKeep
  <2>2. AcknowledgedIsWritten'
    BY <1>1 DEF LedgerInv, AcknowledgedIsWritten
  <2> QED BY <1>1, <2>1, <2>2 DEF LedgerInv, TypeOK
<1>2. ASSUME NEW p \in Procs, Open(p) PROVE LedgerInv'
  <2>1. Ledger(reopened(file))
    BY ReopenedIsLedger DEF LedgerInv, TypeOK
  <2> QED BY <1>1, <1>2, <2>1 DEF Open
<1>3. ASSUME NEW p \in Procs, Stop(p) PROVE LedgerInv'
  BY <1>1, <1>3, EmptyIsLedger DEF Stop
<1>4. ASSUME NEW p \in Procs, NEW report \in Reports, NEW origin \in Origins,
             \/ RecordReport(p, report[1], report[2], origin)
             \/ TornRecord(p, report[1], report[2], origin)
      PROVE  LedgerInv'
  <2>1. report[1] \in Record /\ report[2] \in Record
    BY ReportsAssumption
  <2> QED BY <1>4, <2>1, RecordReportKeeps, TornRecordKeeps
<1>5. CASE UNCHANGED vars
  BY <1>5 DEF vars, LedgerInv, TypeOK, AcknowledgedIsWritten
<1> QED BY <1>2, <1>3, <1>4, <1>5 DEF Next

\* LedgerInv is an invariant of the ledger and its file.
THEOREM LedgerInvariant == Spec => []LedgerInv
BY InitLedger, NextLedger, PTL DEF Spec

\* Every memory, and what the next process to open the file will hold, has one entry
\* per fact and at most a budget of each origin (EquivocationLedger.record, open),
\* however many processes wrote the file and wherever it was torn.
THEOREM BoundedAndDistinctHolds == Spec => []BoundedAndDistinct
<1>1. LedgerInv => BoundedAndDistinct
  <2> SUFFICES ASSUME LedgerInv PROVE BoundedAndDistinct
    OBVIOUS
  <2>1. Ledger(reopened(file))
    BY ReopenedIsLedger DEF LedgerInv, TypeOK
  <2> QED BY <2>1 DEF BoundedAndDistinct, LedgerInv, Ledger
<1> QED BY <1>1, LedgerInvariant, PTL

\* What a process was told is recorded, of a file that was whole, is read back by the
\* next process, unless the processes together spent a whole budget of its origin.
THEOREM EarlierEvidenceSurvivesHolds == Spec => []EarlierEvidenceSurvives
<1>1. LedgerInv => EarlierEvidenceSurvives
  <2> SUFFICES ASSUME LedgerInv, NEW fact \in acknowledged, fact[3]
               PROVE  \/ fact[1] \in KeysOf(reopened(file))
                      \/ countOf(reopened(file), fact[2]) = budget(fact[2])
    BY DEF EarlierEvidenceSurvives
  <2> DEFINE es == readEntries(file)
  <2>1. PICK i \in DOMAIN file :
          /\ \A j \in 1..i : file[j] # Fragment
          /\ verifyEquivocation(file[i].a, file[i].b)
          /\ fact[1] = equivocationKey(file[i].a)
          /\ fact[2] = file[i].origin
    BY DEF LedgerInv, AcknowledgedIsWritten
  <2>2. file \in Seq(Evidence \cup {Fragment})
    BY DEF LedgerInv, TypeOK
  <2>3. es \in Seq(Evidence) /\ i \in 1..Len(es)
    BY <2>1, <2>2, ReadEntries
  <2>4. \A j \in DOMAIN es : es[j] = file[j]
    BY <2>2, ReadEntries
  <2> HIDE DEF es
  <2>5. es[i] = file[i]
    BY <2>3, <2>4
  <2>6. \/ equivocationKey(es[i].a) \in KeysOf(Replayed(es))
        \/ countOf(Replayed(es), es[i].origin) = budget(es[i].origin)
    BY <2>1, <2>3, <2>5, ReplaySettles
  <2> QED BY <2>1, <2>5, <2>6 DEF reopened, es
<1> QED BY <1>1, LedgerInvariant, PTL

-----------------------------------------------------------------------------
(***************************************************************************)
(* The checkpoint ledger.                                                  *)
(***************************************************************************)

\* Every checkpoint a peer may state, and the report of two that differ.
Stated == LiarCheckpoints \cup {checkpointOf(l) : l \in Seq(Data)}
ComparisonResult == {"IDENTICAL", "DIVERGED", "DIFFERENT_LENGTH", "INDEX_DIVERGED"}
Report == [logLength : Nat, first : Stated, other : Stated, difference : ComparisonResult]

\* A checkpoint is its length and its two roots.
LEMMA StatedShape ==
  ASSUME NEW c \in Stated
  PROVE  /\ c.logLength \in Nat
         /\ c = [logLength |-> c.logLength, treeRoot |-> c.treeRoot, indexRoot |-> c.indexRoot]
<1>1. CASE c \in LiarCheckpoints
  BY <1>1, LightAssumption
<1>2. CASE c \in {checkpointOf(l) : l \in Seq(Data)}
  <2>1. PICK l \in Seq(Data) : c = checkpointOf(l)
    BY <1>2
  <2> DEFINE r == root(treeOf(l))
             x == indexRoot(indexSnapshot(l))
  <2>2. c = [logLength |-> Len(l), treeRoot |-> r, indexRoot |-> x]
    BY <2>1 DEF checkpointOf
  <2> HIDE DEF r, x
  <2> QED BY <2>2
<1> QED BY <1>1, <1>2 DEF Stated

\* Only equal checkpoints compare as identical.
LEMMA IdenticalIsEqual ==
  ASSUME NEW c \in Stated, NEW e \in Stated, compareCheckpoints(c, e) = "IDENTICAL"
  PROVE  c = e
<1>1. c.logLength = e.logLength /\ c.treeRoot = e.treeRoot /\ c.indexRoot = e.indexRoot
  BY DEF compareCheckpoints
<1> QED BY <1>1, StatedShape

\* Comparing gives one of four words.
LEMMA CompareType ==
  ASSUME NEW c, NEW e
  PROVE  compareCheckpoints(c, e) \in ComparisonResult
BY DEF compareCheckpoints, ComparisonResult

\* What the ledger holds, and what it knows of what was heard as long as it has
\* turned nothing away: the first of every length, and no two of one length.
LedgerType ==
  /\ heard \in Seq(Stated)
  /\ ledger.seen \in SUBSET Stated
  /\ ledger.forks \in Seq(Report)
  /\ ledger.refused \in Nat
  /\ ledger = [seen |-> ledger.seen, forks |-> ledger.forks, refused |-> ledger.refused]

FirstAt(i) == \A k \in 1 .. i - 1 : heard[k].logLength # heard[i].logLength

LedgerTells ==
  ledger.refused = 0 =>
    /\ \A c, e \in ledger.seen : c.logLength = e.logLength => c = e
    /\ \A c \in ledger.seen : \E i \in DOMAIN heard : heard[i].logLength = c.logLength
    /\ \A i \in DOMAIN heard : FirstAt(i) => heard[i] \in ledger.seen

HeardInv == LedgerType /\ LedgerTells /\ ForksSurface

\* What observe makes of a checkpoint.
LEMMA ObserveCases ==
  ASSUME LedgerType, NEW c \in Stated
  PROVE  LET kept == CHOOSE h \in HeldAt(ledger, c.logLength) : TRUE
             report == [logLength |-> c.logLength, first |-> kept, other |-> c,
                        difference |-> compareCheckpoints(kept, c)]
             next == observe(ledger, c)
         IN  /\ next = [seen |-> next.seen, forks |-> next.forks, refused |-> next.refused]
             /\ \/ /\ next.seen = ledger.seen /\ next.forks = ledger.forks
                   /\ next.refused = ledger.refused + 1
                \/ /\ HeldAt(ledger, c.logLength) = {}
                   /\ next.seen = ledger.seen \cup {c} /\ next.forks = ledger.forks
                   /\ next.refused = ledger.refused
                \/ /\ HeldAt(ledger, c.logLength) # {}
                   /\ compareCheckpoints(kept, c) = "IDENTICAL"
                   /\ next = ledger
                \/ /\ HeldAt(ledger, c.logLength) # {}
                   /\ next.seen = ledger.seen /\ next.forks = Append(ledger.forks, report)
                   /\ next.refused = ledger.refused
<1> DEFINE kept == CHOOSE h \in HeldAt(ledger, c.logLength) : TRUE
           report == [logLength |-> c.logLength, first |-> kept, other |-> c,
                      difference |-> compareCheckpoints(kept, c)]
           refuse == [ledger EXCEPT !.refused = @ + 1]
           keep == [ledger EXCEPT !.seen = @ \cup {c}]
           fork == [ledger EXCEPT !.forks = Append(@, report)]
           next == observe(ledger, c)
           D == HeldAt(ledger, c.logLength)
<1>1. report.difference = compareCheckpoints(kept, c)
  OBVIOUS
<1>2. \/ next = refuse
      \/ D = {} /\ next = keep
      \/ D # {} /\ compareCheckpoints(kept, c) = "IDENTICAL" /\ next = ledger
      \/ D # {} /\ next = fork
  BY <1>1 DEF observe
<1> HIDE DEF kept, report, next, D
<1>3. /\ refuse = [seen |-> ledger.seen, forks |-> ledger.forks, refused |-> ledger.refused + 1]
      /\ keep = [seen |-> ledger.seen \cup {c}, forks |-> ledger.forks, refused |-> ledger.refused]
      /\ fork = [seen |-> ledger.seen, forks |-> Append(ledger.forks, report),
                 refused |-> ledger.refused]
  <2> DEFINE s == ledger.seen
             f == ledger.forks
             r == ledger.refused
  <2>1. ledger = [seen |-> s, forks |-> f, refused |-> r]
    BY DEF LedgerType
  <2> HIDE DEF s, f, r
  <2>2. refuse = [seen |-> s, forks |-> f, refused |-> r + 1]
    BY <2>1
  <2>3. keep = [seen |-> s \cup {c}, forks |-> f, refused |-> r]
    BY <2>1
  <2>4. fork = [seen |-> s, forks |-> Append(f, report), refused |-> r]
    BY <2>1
  <2> QED BY <2>2, <2>3, <2>4 DEF s, f, r
<1> HIDE DEF refuse, keep, fork
<1>4. /\ next = [seen |-> next.seen, forks |-> next.forks, refused |-> next.refused]
      /\ \/ /\ next.seen = ledger.seen /\ next.forks = ledger.forks
            /\ next.refused = ledger.refused + 1
         \/ /\ D = {}
            /\ next.seen = ledger.seen \cup {c} /\ next.forks = ledger.forks
            /\ next.refused = ledger.refused
         \/ /\ D # {}
            /\ compareCheckpoints(kept, c) = "IDENTICAL"
            /\ next = ledger
         \/ /\ D # {}
            /\ next.seen = ledger.seen /\ next.forks = Append(ledger.forks, report)
            /\ next.refused = ledger.refused
  BY <1>2, <1>3 DEF LedgerType
<1> QED BY <1>4 DEF kept, report, next, D

\* A sequence keeps its entries when one is appended.
LEMMA AppendKeeps ==
  ASSUME NEW S, NEW s \in Seq(S), NEW e, NEW k \in DOMAIN s
  PROVE  k \in DOMAIN Append(s, e) /\ Append(s, e)[k] = s[k]
OBVIOUS

\* A checkpoint that is received leaves the ledger telling what was heard.
LEMMA ReceiveKeeps ==
  ASSUME HeardInv, NEW c \in Stated, Receive(c)
  PROVE  HeardInv'
<1> DEFINE D == HeldAt(ledger, c.logLength)
           kept == CHOOSE h \in D : TRUE
           report == [logLength |-> c.logLength, first |-> kept, other |-> c,
                      difference |-> compareCheckpoints(kept, c)]
           n == Len(heard) + 1
<1>0. LedgerType /\ LedgerTells /\ ForksSurface
  BY DEF HeardInv
<1>1. heard' = Append(heard, c) /\ ledger' = observe(ledger, c)
  BY DEF Receive
<1>2. /\ ledger' = [seen |-> ledger'.seen, forks |-> ledger'.forks, refused |-> ledger'.refused]
      /\ \/ /\ ledger'.seen = ledger.seen /\ ledger'.forks = ledger.forks
            /\ ledger'.refused = ledger.refused + 1
         \/ /\ D = {}
            /\ ledger'.seen = ledger.seen \cup {c} /\ ledger'.forks = ledger.forks
            /\ ledger'.refused = ledger.refused
         \/ /\ D # {}
            /\ compareCheckpoints(kept, c) = "IDENTICAL"
            /\ ledger' = ledger
         \/ /\ D # {}
            /\ ledger'.seen = ledger.seen /\ ledger'.forks = Append(ledger.forks, report)
            /\ ledger'.refused = ledger.refused
  BY <1>0, <1>1, ObserveCases
<1>3. D = {h \in ledger.seen : h.logLength = c.logLength}
  BY DEF HeldAt
<1>4. D # {} => kept \in D
  OBVIOUS
<1> HIDE DEF D, kept
<1>5. heard \in Seq(Stated) /\ ledger.seen \in SUBSET Stated /\ ledger.forks \in Seq(Report)
      /\ ledger.refused \in Nat /\ c.logLength \in Nat
  BY <1>0, StatedShape DEF LedgerType
<1>6. /\ n \in Nat /\ DOMAIN heard = 1 .. n - 1 /\ DOMAIN heard' = 1 .. n
      /\ heard'[n] = c /\ \A i \in 1 .. n - 1 : heard'[i] = heard[i]
      /\ heard' \in Seq(Stated)
  BY <1>1, <1>5
<1> HIDE DEF n
<1>7. LedgerType'
  <2>1. D # {} => report \in Report
    <3>1. compareCheckpoints(kept, c) \in ComparisonResult
      BY CompareType
    <3>2. D # {} => kept \in Stated
      BY <1>3, <1>4, <1>5
    <3> QED BY <1>5, <3>1, <3>2 DEF Report
  <2> HIDE DEF report
  <2>2. ledger'.seen \in SUBSET Stated
    BY <1>2, <1>5
  <2>3. ledger'.forks \in Seq(Report)
    <3>1. D # {} => Append(ledger.forks, report) \in Seq(Report)
      BY <1>5, <2>1
    <3> QED BY <1>2, <1>5, <3>1
  <2>4. ledger'.refused \in Nat
    BY <1>2, <1>5
  <2> QED BY <1>2, <1>6, <2>2, <2>3, <2>4 DEF LedgerType
<1>8. ASSUME ledger'.refused = 0
      PROVE  /\ ledger.refused = 0
             /\ \/ D = {} /\ ledger'.seen = ledger.seen \cup {c} /\ ledger'.forks = ledger.forks
                \/ /\ D # {} /\ kept = c
                   /\ ledger'.seen = ledger.seen /\ ledger'.forks = ledger.forks
                \/ /\ D # {}
                   /\ ledger'.seen = ledger.seen /\ ledger'.forks = Append(ledger.forks, report)
  <2>1. compareCheckpoints(kept, c) = "IDENTICAL" /\ D # {} => kept = c
    BY <1>3, <1>4, <1>5, IdenticalIsEqual
  <2> HIDE DEF report
  <2> QED BY <1>2, <1>5, <1>8, <2>1
<1> HIDE DEF report
\* Whatever was first at its length and shares it with c is what is held there.
<1>9. ASSUME ledger'.refused = 0, NEW i \in 1 .. n - 1, FirstAt(i), heard[i].logLength = c.logLength
      PROVE  D # {} /\ kept = heard[i]
  <2>1. ledger.refused = 0
    BY <1>8, <1>9
  <2>2. heard[i] \in ledger.seen
    BY <1>0, <1>6, <1>9, <2>1 DEF LedgerTells
  <2>3. heard[i] \in D
    BY <1>3, <1>9, <2>2
  <2>4. kept \in ledger.seen /\ kept.logLength = heard[i].logLength
    BY <1>3, <1>4, <1>9, <2>3
  <2> QED BY <1>0, <2>1, <2>2, <2>3, <2>4 DEF LedgerTells
<1>10. \A i \in 1 .. n - 1 : FirstAt(i)' <=> FirstAt(i)
  <2> SUFFICES ASSUME NEW i \in 1 .. n - 1 PROVE FirstAt(i)' <=> FirstAt(i)
    OBVIOUS
  <2>1. \A k \in 1 .. i - 1 : k \in 1 .. n - 1
    BY <1>6
  <2> QED BY <1>6, <2>1 DEF FirstAt
<1>11. LedgerTells'
  <2> SUFFICES ASSUME ledger'.refused = 0
               PROVE  /\ \A d, e \in ledger'.seen : d.logLength = e.logLength => d = e
                      /\ \A d \in ledger'.seen :
                           \E i \in DOMAIN heard' : heard'[i].logLength = d.logLength
                      /\ \A i \in DOMAIN heard' : FirstAt(i)' => heard'[i] \in ledger'.seen
    BY DEF LedgerTells, FirstAt
  <2>0. /\ \A d, e \in ledger.seen : d.logLength = e.logLength => d = e
        /\ \A d \in ledger.seen : \E i \in DOMAIN heard : heard[i].logLength = d.logLength
        /\ \A i \in DOMAIN heard : FirstAt(i) => heard[i] \in ledger.seen
    BY <1>0, <1>8 DEF LedgerTells
  <2>1. ASSUME NEW d \in ledger'.seen, NEW e \in ledger'.seen, d.logLength = e.logLength
        PROVE  d = e
    BY <1>3, <1>8, <2>0, <2>1
  <2>2. ASSUME NEW d \in ledger'.seen
        PROVE  \E i \in DOMAIN heard' : heard'[i].logLength = d.logLength
    <3>1. CASE d \in ledger.seen
      <4>1. PICK i \in 1 .. n - 1 : heard[i].logLength = d.logLength
        BY <1>6, <2>0, <3>1
      <4>2. i \in 1 .. n
        BY <1>6
      <4> QED BY <1>6, <4>1, <4>2
    <3>2. CASE d = c
      <4>1. n \in 1 .. n
        <5>1. n - 1 \in Nat
          BY <1>5 DEF n
        <5> QED BY <1>6, <5>1
      <4> QED BY <1>6, <3>2, <4>1
    <3> QED BY <1>8, <3>1, <3>2
  <2>3. ASSUME NEW i \in DOMAIN heard', FirstAt(i)'
        PROVE  heard'[i] \in ledger'.seen
    <3>1. CASE i \in 1 .. n - 1
      <4>1. heard[i] \in ledger.seen
        BY <1>6, <1>10, <2>0, <2>3, <3>1
      <4> QED BY <1>6, <1>8, <3>1, <4>1
    <3>2. CASE i = n
      <4>1. \A k \in 1 .. n - 1 : heard[k].logLength # c.logLength
        BY <1>6, <2>3, <3>2 DEF FirstAt
      <4>2. D = {}
        BY <1>3, <1>6, <2>0, <4>1
      <4> QED BY <1>6, <1>8, <3>2, <4>2
    <3> QED BY <1>6, <3>1, <3>2
  <2> QED BY <2>1, <2>2, <2>3
<1>12. ForksSurface'
  <2> SUFFICES ASSUME NEW i \in DOMAIN heard', NEW j \in DOMAIN heard', ledger'.refused = 0,
                      i < j, heard'[i].logLength = heard'[j].logLength, FirstAt(i)',
                      heard'[i] # heard'[j]
               PROVE  \E k \in DOMAIN ledger'.forks :
                        ledger'.forks[k].first = heard'[i] /\ ledger'.forks[k].other = heard'[j]
    BY DEF ForksSurface, FirstAt
  <2>0. i \in 1 .. n - 1 /\ FirstAt(i) /\ heard'[i] = heard[i]
    BY <1>6, <1>10
  <2>1. CASE j \in 1 .. n - 1
    <3>1. PICK k \in DOMAIN ledger.forks :
            ledger.forks[k].first = heard[i] /\ ledger.forks[k].other = heard[j]
      BY <1>0, <1>6, <1>8, <2>0, <2>1 DEF ForksSurface, FirstAt
    <3>2. k \in DOMAIN ledger'.forks /\ ledger'.forks[k] = ledger.forks[k]
      <4>1. ledger'.forks = ledger.forks \/ ledger'.forks = Append(ledger.forks, report)
        BY <1>8
      <4>2. /\ k \in DOMAIN Append(ledger.forks, report)
            /\ Append(ledger.forks, report)[k] = ledger.forks[k]
        BY <1>5, <3>1, AppendKeeps
      <4> QED BY <3>1, <4>1, <4>2
    <3> QED BY <1>6, <2>0, <2>1, <3>1, <3>2
  <2>2. CASE j = n
    <3>1. D # {} /\ kept = heard[i]
      BY <1>6, <1>9, <2>0, <2>2
    <3>2. ledger'.forks = Append(ledger.forks, report)
      BY <1>6, <1>8, <2>0, <2>2, <3>1
    <3>3. report.first = heard[i] /\ report.other = c
      BY <3>1 DEF report
    <3>4. Len(ledger.forks) + 1 \in DOMAIN ledger'.forks
          /\ ledger'.forks[Len(ledger.forks) + 1] = report
      <4>1. report \in Report
        <5>1. compareCheckpoints(kept, c) \in ComparisonResult
          BY CompareType
        <5> QED BY <1>3, <1>4, <1>5, <3>1, <5>1 DEF Report, report
      <4> QED BY <1>5, <3>2, <4>1
    <3> QED BY <1>6, <2>0, <2>2, <3>3, <3>4
  <2> QED BY <1>6, <2>1, <2>2
<1> QED BY <1>7, <1>11, <1>12 DEF HeardInv

-----------------------------------------------------------------------------
(***************************************************************************)
(* The claims file and the length a light client takes from it.            *)
(***************************************************************************)

\* A finite set of numbers that is not empty has a greatest one.
LEMMA FiniteMax ==
  ASSUME NEW S \in SUBSET Nat, IsFiniteSet(S), S # {}
  PROVE  \E x \in S : \A y \in S : y <= x
<1> DEFINE HasMax(U) == \E x \in U : \A y \in U : y <= x
           T == {k \in Nat : \A U \in SUBSET Nat :
                   IsFiniteSet(U) /\ Cardinality(U) = k + 1 => HasMax(U)}
<1>1. 0 \in T
  <2> SUFFICES ASSUME NEW U \in SUBSET Nat, IsFiniteSet(U), Cardinality(U) = 0 + 1 PROVE HasMax(U)
    OBVIOUS
  <2>0. Cardinality(U) = 1
    OBVIOUS
  <2>1. PICK x : U = {x}
    BY <2>0, FS_Singleton, Zenon
  <2> QED BY <2>1
<1>2. ASSUME NEW k \in T PROVE k + 1 \in T
  <2> SUFFICES ASSUME NEW U \in SUBSET Nat, IsFiniteSet(U), Cardinality(U) = (k + 1) + 1
               PROVE  HasMax(U)
    OBVIOUS
  <2>1. PICK x : x \in U
    <3>1. U # {}
      BY FS_EmptySet
    <3> QED BY <3>1
  <2>2. /\ IsFiniteSet(U \ {x}) /\ U \ {x} \in SUBSET Nat
        /\ Cardinality(U \ {x}) = k + 1
    BY <2>1, FS_RemoveElement
  <2>3. HasMax(U \ {x})
    BY <1>2, <2>2
  <2>4. PICK m \in U \ {x} : \A y \in U \ {x} : y <= m
    BY <2>3
  <2>5. CASE x <= m
    BY <2>4, <2>5
  <2>6. CASE ~(x <= m)
    <3>1. \A y \in U : y <= x
      BY <2>1, <2>4, <2>6
    <3> QED BY <2>1, <3>1
  <2> QED BY <2>5, <2>6
<1>3. T = Nat
  <2>1. T \in SUBSET Nat
    OBVIOUS
  <2> HIDE DEF T
  <2> QED BY <1>1, <1>2, <2>1, SetInduction
<1>4. Cardinality(S) \in Nat /\ Cardinality(S) # 0
  BY FS_CardinalityType, FS_EmptySet
<1>5. Cardinality(S) - 1 \in T /\ (Cardinality(S) - 1) + 1 = Cardinality(S)
  BY <1>3, <1>4
<1> QED BY <1>5

\* What is asked of every log, and what each honest claim is about: a prefix of the
\* log as it is now.
ClaimsInv ==
  /\ log \in [Peers -> Seq(Data)]
  /\ IsFiniteSet(DOMAIN claims) /\ DOMAIN claims \subseteq Peers \cup Liars
  /\ \A q \in DOMAIN claims : claims[q].logLength \in Nat
  /\ \A p \in Peers \cap DOMAIN claims :
       /\ claims[p].logLength <= Len(log[p])
       /\ claims[p].treeRoot = root(treeOf(SubSeq(log[p], 1, claims[p].logLength)))

\* The corroborated length is one that was claimed and that enough claims reach.
LEMMA ChosenIs ==
  ASSUME ClaimsInv, chosen # NoLength
  PROVE  /\ chosen \in Nat
         /\ \E q \in DOMAIN claims : claims[q].logLength = chosen
         /\ Agreeing(claims, chosen) >= Quorum
<1> DEFINE lengths == {claims[i].logLength : i \in DOMAIN claims}
           corroborated == {n \in lengths : Agreeing(claims, n) >= Quorum}
<1>1. /\ corroborated # {}
      /\ chosen = CHOOSE n \in corroborated : \A o \in corroborated : o <= n
  BY DEF chosen, greatestCorroboratedLength
<1>2. lengths \in SUBSET Nat /\ IsFiniteSet(lengths)
  <2>1. IsFiniteSet(DOMAIN claims)
    BY DEF ClaimsInv
  <2>2. IsFiniteSet(lengths)
    <3> DEFINE f == [i \in DOMAIN claims |-> claims[i].logLength]
    <3>1. f \in Surjection(DOMAIN claims, lengths)
      BY DEF Surjection
    <3> QED BY <2>1, <3>1, FS_Surjection
  <2> QED BY <2>2 DEF ClaimsInv
<1>3. corroborated \in SUBSET Nat /\ IsFiniteSet(corroborated)
  <2>1. corroborated \subseteq lengths
    OBVIOUS
  <2> HIDE DEF corroborated, lengths
  <2> QED BY <1>2, <2>1, FS_Subset
<1>4. chosen \in corroborated
  <2> HIDE DEF corroborated, lengths
  <2>1. \E x \in corroborated : \A y \in corroborated : y <= x
    BY <1>1, <1>3, FiniteMax
  <2> QED BY <1>1, <2>1
<1> QED BY <1>2, <1>4

\* Enough claims reach the corroborated length that an honest one is among them, and
\* an honest claim is no longer than its log.
LEMMA CorroboratedFromClaims == ASSUME ClaimsInv PROVE CorroboratedIsHeld
<1> SUFFICES ASSUME Cardinality(Liars) < Quorum, chosen # NoLength
             PROVE  \E p \in Peers \cap DOMAIN claims : chosen <= Len(log[p])
  BY DEF CorroboratedIsHeld
<1> DEFINE A == {i \in DOMAIN claims : claims[i].logLength >= chosen}
<1>1. chosen \in Nat /\ Cardinality(A) >= Quorum
  BY ChosenIs DEF Agreeing
<1>2. IsFiniteSet(A)
  <2>1. A \subseteq DOMAIN claims
    OBVIOUS
  <2> HIDE DEF A
  <2> QED BY <2>1, FS_Subset DEF ClaimsInv
<1>3. ~(A \subseteq Liars)
  <2> HIDE DEF A
  <2> SUFFICES ASSUME A \subseteq Liars PROVE FALSE
    OBVIOUS
  <2>1. Cardinality(A) <= Cardinality(Liars)
    BY LightAssumption, FS_Subset
  <2>2. Cardinality(A) \in Nat /\ Cardinality(Liars) \in Nat /\ Quorum \in Nat
    BY <1>2, LightAssumption, FS_CardinalityType
  <2> QED BY <1>1, <2>1, <2>2
<1>4. PICK p \in A : p \notin Liars
  BY <1>3
<1>5. p \in Peers \cap DOMAIN claims /\ claims[p].logLength >= chosen
  BY <1>4 DEF ClaimsInv
<1>6. claims[p].logLength <= Len(log[p]) /\ claims[p].logLength \in Nat /\ Len(log[p]) \in Nat
  BY <1>5 DEF ClaimsInv
<1>7. chosen <= Len(log[p])
  BY <1>1, <1>5, <1>6
<1> QED BY <1>5, <1>7

\* A log that grows keeps its prefixes.
LEMMA PrefixKept ==
  ASSUME NEW l \in Seq(Data), NEW d \in Data, NEW n \in 0 .. Len(l)
  PROVE  SubSeq(Append(l, d), 1, n) = SubSeq(l, 1, n)
<1>1. /\ SubSeq(Append(l, d), 1, n) \in Seq(Data) /\ Len(SubSeq(Append(l, d), 1, n)) = n
      /\ \A i \in 1 .. n : SubSeq(Append(l, d), 1, n)[i] = Append(l, d)[i]
  OBVIOUS
<1>2. /\ SubSeq(l, 1, n) \in Seq(Data) /\ Len(SubSeq(l, 1, n)) = n
      /\ \A i \in 1 .. n : SubSeq(l, 1, n)[i] = l[i]
  OBVIOUS
<1>3. \A i \in 1 .. n : Append(l, d)[i] = l[i]
  OBVIOUS
<1>4. \A i \in 1 .. n : SubSeq(Append(l, d), 1, n)[i] = SubSeq(l, 1, n)[i]
  BY <1>1, <1>2, <1>3
<1> QED BY <1>1, <1>2, <1>4

\* A whole log is a prefix of itself.
LEMMA WholePrefix == ASSUME NEW l \in Seq(Data) PROVE SubSeq(l, 1, Len(l)) = l
OBVIOUS

\* A record that is accepted changes no claim's prefix.
LEMMA AcceptKeeps ==
  ASSUME ClaimsInv, NEW p \in Peers, NEW d \in Data, Accept(p, d)
  PROVE  ClaimsInv'
<1>1. log' = [log EXCEPT ![p] = Append(@, d)] /\ claims' = claims
  BY DEF Accept
<1>2. log' \in [Peers -> Seq(Data)]
  BY <1>1 DEF ClaimsInv
<1>3. ASSUME NEW q \in Peers \cap DOMAIN claims
      PROVE  /\ claims[q].logLength <= Len(log'[q])
             /\ claims[q].treeRoot = root(treeOf(SubSeq(log'[q], 1, claims[q].logLength)))
  <2> DEFINE n == claims[q].logLength
  <2>1. /\ log[q] \in Seq(Data) /\ n \in Nat /\ n <= Len(log[q])
        /\ claims[q].treeRoot = root(treeOf(SubSeq(log[q], 1, n)))
    BY DEF ClaimsInv
  <2>2. log'[q] = log[q] \/ log'[q] = Append(log[q], d)
    BY <1>1 DEF ClaimsInv
  <2> HIDE DEF n
  <2>3. SubSeq(log'[q], 1, n) = SubSeq(log[q], 1, n)
    BY <2>1, <2>2, PrefixKept
  <2>4. n <= Len(log'[q])
    BY <2>1, <2>2
  <2> QED BY <2>1, <2>3, <2>4 DEF n
<1> QED BY <1>1, <1>2, <1>3 DEF ClaimsInv

\* A claim that joins the file is a liar's or is about a whole log.
LEMMA AnswerKeeps ==
  ASSUME ClaimsInv, NEW p \in Peers \cup Liars, NEW claim, claim.logLength \in Nat, Answer(p, claim),
         p \in Peers => /\ claim.logLength = Len(log[p])
                        /\ claim.treeRoot = root(treeOf(log[p]))
  PROVE  ClaimsInv'
<1>1. /\ log' = log /\ DOMAIN claims' = DOMAIN claims \cup {p} /\ claims'[p] = claim
      /\ \A q \in DOMAIN claims : claims'[q] = claims[q]
  BY DEF Answer
<1>2. IsFiniteSet(DOMAIN claims')
  BY <1>1, FS_AddElement DEF ClaimsInv
<1>3. ASSUME NEW q \in Peers \cap DOMAIN claims'
      PROVE  /\ claims'[q].logLength <= Len(log[q])
             /\ claims'[q].treeRoot = root(treeOf(SubSeq(log[q], 1, claims'[q].logLength)))
  <2>1. CASE q = p
    <3>1. log[p] \in Seq(Data) /\ Len(log[p]) \in Nat
      BY <2>1 DEF ClaimsInv
    <3>2. SubSeq(log[p], 1, Len(log[p])) = log[p]
      BY <3>1, WholePrefix
    <3>3. claims'[q].logLength = Len(log[q]) /\ claims'[q].treeRoot = root(treeOf(log[q]))
      BY <1>1, <2>1
    <3>4. Len(log[q]) <= Len(log[q])
      BY <2>1, <3>1
    <3> QED BY <2>1, <3>2, <3>3, <3>4
  <2>2. CASE q # p
    BY <1>1, <2>2 DEF ClaimsInv
  <2> QED BY <2>1, <2>2
<1> QED BY <1>1, <1>2, <1>3 DEF ClaimsInv

-----------------------------------------------------------------------------
(***************************************************************************)
(* The recursions of Merkle are well founded.                              *)
(***************************************************************************)

\* g is the complete subtrees of each span up to n, by their first leaf.
IsSubtrees(g, entries, n) ==
  g = [i \in 1 .. n |->
         IF i = 1 THEN [at \in Nat |-> LeafNode(entries[at + 1], at)]
         ELSE [at \in Nat |-> Over(g[i \div 2][at], g[i \div 2][at + i \div 2], flatIndex(at, i))]]

\* The recursion of subtreeRoot, which halves the span.
LEMMA SubtreesExists ==
  ASSUME NEW entries, NEW n \in Nat
  PROVE  \E g : IsSubtrees(g, entries, n)
<1> DEFINE Step(i, x) == [at \in Nat |-> Over(x[at], x[at + i \div 2], flatIndex(at, i))]
           T == {k \in Nat : \E g : IsSubtrees(g, entries, k)}
<1>1. 0 \in T
  <2>1. IsSubtrees([i \in 1 .. 0 |-> [at \in Nat |-> LeafNode(entries[at + 1], at)]], entries, 0)
    BY DEF IsSubtrees
  <2> QED BY <2>1
<1>2. ASSUME NEW k \in T PROVE k + 1 \in T
  <2>1. PICK g : IsSubtrees(g, entries, k)
    OBVIOUS
  <2> DEFINE h == [i \in 1 .. (k + 1) |->
                     IF i = k + 1 THEN IF i = 1 THEN [at \in Nat |-> LeafNode(entries[at + 1], at)] ELSE Step(i, g[i \div 2])
                     ELSE g[i]]
  <2>2. \A i \in 1 .. k : g[i] = IF i = 1 THEN [at \in Nat |-> LeafNode(entries[at + 1], at)] ELSE Step(i, g[i \div 2])
    BY <2>1 DEF IsSubtrees
  <2> HIDE DEF Step
  <2>3. /\ h[k + 1] = IF k + 1 = 1 THEN [at \in Nat |-> LeafNode(entries[at + 1], at)] ELSE Step(k + 1, g[(k + 1) \div 2])
        /\ \A i \in 1 .. k : h[i] = g[i]
    OBVIOUS
  <2>4. h = [i \in 1 .. (k + 1) |-> h[i]]
    OBVIOUS
  <2> HIDE DEF h
  <2>5. ASSUME NEW i \in 1 .. (k + 1)
        PROVE  h[i] = IF i = 1 THEN [at \in Nat |-> LeafNode(entries[at + 1], at)] ELSE Step(i, h[i \div 2])
    <3>1. i # 1 => i \div 2 \in 1 .. (i - 1)
      OBVIOUS
    <3>2. i # 1 => i \div 2 \in 1 .. k
      BY <3>1
    <3>3. CASE i = k + 1
      BY <2>3, <3>2, <3>3
    <3>4. CASE i # k + 1
      <4>1. i \in 1 .. k
        BY <3>4
      <4> QED BY <2>2, <2>3, <3>2, <4>1
    <3> QED BY <3>3, <3>4
  <2>6. h = [i \in 1 .. (k + 1) |-> IF i = 1 THEN [at \in Nat |-> LeafNode(entries[at + 1], at)] ELSE Step(i, h[i \div 2])]
    BY <2>4, <2>5
  <2>7. IsSubtrees(h, entries, k + 1)
    BY <2>6 DEF IsSubtrees, Step
  <2> QED BY <2>7
<1>3. T = Nat
  <2>1. T \in SUBSET Nat
    OBVIOUS
  <2> HIDE DEF T
  <2> QED BY <1>1, <1>2, <2>1, SetInduction
<1> QED BY <1>3

\* g is the spans that doubling leads through.
IsDoubled(g, length, n) ==
  g = [i \in 0 .. n |->
         IF i = 0 THEN 1
         ELSE IF 2 * g[i - 1] <= length THEN 2 * g[i - 1] ELSE g[i - 1]]

\* The loop of greatestSpan.
LEMMA DoubledExists ==
  ASSUME NEW length, NEW n \in Nat
  PROVE  \E g : IsDoubled(g, length, n)
<1> DEFINE Step(i, x) == IF 2 * x <= length THEN 2 * x ELSE x
           T == {k \in Nat : \E g : IsDoubled(g, length, k)}
<1>1. 0 \in T
  <2>1. IsDoubled([i \in 0 .. 0 |-> 1], length, 0)
    BY DEF IsDoubled
  <2> QED BY <2>1
<1>2. ASSUME NEW k \in T PROVE k + 1 \in T
  <2>1. PICK g : IsDoubled(g, length, k)
    OBVIOUS
  <2> DEFINE h == [i \in 0 .. (k + 1) |->
                     IF i = k + 1 THEN IF i = 0 THEN 1 ELSE Step(i, g[i - 1])
                     ELSE g[i]]
  <2>2. \A i \in 0 .. k : g[i] = IF i = 0 THEN 1 ELSE Step(i, g[i - 1])
    BY <2>1 DEF IsDoubled
  <2> HIDE DEF Step
  <2>3. /\ h[k + 1] = IF k + 1 = 0 THEN 1 ELSE Step(k + 1, g[(k + 1) - 1])
        /\ \A i \in 0 .. k : h[i] = g[i]
    OBVIOUS
  <2>4. h = [i \in 0 .. (k + 1) |-> h[i]]
    OBVIOUS
  <2> HIDE DEF h
  <2>5. ASSUME NEW i \in 0 .. (k + 1)
        PROVE  h[i] = IF i = 0 THEN 1 ELSE Step(i, h[i - 1])
    <3>1. i # 0 => i - 1 \in 0 .. (i - 1)
      OBVIOUS
    <3>2. i # 0 => i - 1 \in 0 .. k
      BY <3>1
    <3>3. CASE i = k + 1
      BY <2>3, <3>2, <3>3
    <3>4. CASE i # k + 1
      <4>1. i \in 0 .. k
        BY <3>4
      <4> QED BY <2>2, <2>3, <3>2, <4>1
    <3> QED BY <3>3, <3>4
  <2>6. h = [i \in 0 .. (k + 1) |-> IF i = 0 THEN 1 ELSE Step(i, h[i - 1])]
    BY <2>4, <2>5
  <2>7. IsDoubled(h, length, k + 1)
    BY <2>6 DEF IsDoubled, Step
  <2> QED BY <2>7
<1>3. T = Nat
  <2>1. T \in SUBSET Nat
    OBVIOUS
  <2> HIDE DEF T
  <2> QED BY <1>1, <1>2, <2>1, SetInduction
<1> QED BY <1>3

\* g is what the rounds of append lead through from c.
IsCarried(g, c, length, n) ==
  g = [i \in 0 .. n |->
         IF i = 0 THEN c
         ELSE Carry(g[i - 1], length)]

\* The loop of append.
LEMMA CarriedExists ==
  ASSUME NEW c, NEW length, NEW n \in Nat
  PROVE  \E g : IsCarried(g, c, length, n)
<1> DEFINE Step(i, x) == Carry(x, length)
           T == {k \in Nat : \E g : IsCarried(g, c, length, k)}
<1>1. 0 \in T
  <2>1. IsCarried([i \in 0 .. 0 |-> c], c, length, 0)
    BY DEF IsCarried
  <2> QED BY <2>1
<1>2. ASSUME NEW k \in T PROVE k + 1 \in T
  <2>1. PICK g : IsCarried(g, c, length, k)
    OBVIOUS
  <2> DEFINE h == [i \in 0 .. (k + 1) |->
                     IF i = k + 1 THEN IF i = 0 THEN c ELSE Step(i, g[i - 1])
                     ELSE g[i]]
  <2>2. \A i \in 0 .. k : g[i] = IF i = 0 THEN c ELSE Step(i, g[i - 1])
    BY <2>1 DEF IsCarried
  <2> HIDE DEF Step
  <2>3. /\ h[k + 1] = IF k + 1 = 0 THEN c ELSE Step(k + 1, g[(k + 1) - 1])
        /\ \A i \in 0 .. k : h[i] = g[i]
    OBVIOUS
  <2>4. h = [i \in 0 .. (k + 1) |-> h[i]]
    OBVIOUS
  <2> HIDE DEF h
  <2>5. ASSUME NEW i \in 0 .. (k + 1)
        PROVE  h[i] = IF i = 0 THEN c ELSE Step(i, h[i - 1])
    <3>1. i # 0 => i - 1 \in 0 .. (i - 1)
      OBVIOUS
    <3>2. i # 0 => i - 1 \in 0 .. k
      BY <3>1
    <3>3. CASE i = k + 1
      BY <2>3, <3>2, <3>3
    <3>4. CASE i # k + 1
      <4>1. i \in 0 .. k
        BY <3>4
      <4> QED BY <2>2, <2>3, <3>2, <4>1
    <3> QED BY <3>3, <3>4
  <2>6. h = [i \in 0 .. (k + 1) |-> IF i = 0 THEN c ELSE Step(i, h[i - 1])]
    BY <2>4, <2>5
  <2>7. IsCarried(h, c, length, k + 1)
    BY <2>6 DEF IsCarried, Step
  <2> QED BY <2>7
<1>3. T = Nat
  <2>1. T \in SUBSET Nat
    OBVIOUS
  <2> HIDE DEF T
  <2> QED BY <1>1, <1>2, <2>1, SetInduction
<1> QED BY <1>3

\* g is the tree after each of the first n entries.
IsGrown(g, entries, n) ==
  g = [i \in 0 .. n |->
         IF i = 0 THEN EmptyTree
         ELSE append(g[i - 1], entries[i])]

\* The loop of treeOf.
LEMMA GrownExists ==
  ASSUME NEW entries, NEW n \in Nat
  PROVE  \E g : IsGrown(g, entries, n)
<1> DEFINE Step(i, x) == append(x, entries[i])
           T == {k \in Nat : \E g : IsGrown(g, entries, k)}
<1>1. 0 \in T
  <2>1. IsGrown([i \in 0 .. 0 |-> EmptyTree], entries, 0)
    BY DEF IsGrown
  <2> QED BY <2>1
<1>2. ASSUME NEW k \in T PROVE k + 1 \in T
  <2>1. PICK g : IsGrown(g, entries, k)
    OBVIOUS
  <2> DEFINE h == [i \in 0 .. (k + 1) |->
                     IF i = k + 1 THEN IF i = 0 THEN EmptyTree ELSE Step(i, g[i - 1])
                     ELSE g[i]]
  <2>2. \A i \in 0 .. k : g[i] = IF i = 0 THEN EmptyTree ELSE Step(i, g[i - 1])
    BY <2>1 DEF IsGrown
  <2> HIDE DEF Step
  <2>3. /\ h[k + 1] = IF k + 1 = 0 THEN EmptyTree ELSE Step(k + 1, g[(k + 1) - 1])
        /\ \A i \in 0 .. k : h[i] = g[i]
    OBVIOUS
  <2>4. h = [i \in 0 .. (k + 1) |-> h[i]]
    OBVIOUS
  <2> HIDE DEF h
  <2>5. ASSUME NEW i \in 0 .. (k + 1)
        PROVE  h[i] = IF i = 0 THEN EmptyTree ELSE Step(i, h[i - 1])
    <3>1. i # 0 => i - 1 \in 0 .. (i - 1)
      OBVIOUS
    <3>2. i # 0 => i - 1 \in 0 .. k
      BY <3>1
    <3>3. CASE i = k + 1
      BY <2>3, <3>2, <3>3
    <3>4. CASE i # k + 1
      <4>1. i \in 0 .. k
        BY <3>4
      <4> QED BY <2>2, <2>3, <3>2, <4>1
    <3> QED BY <3>3, <3>4
  <2>6. h = [i \in 0 .. (k + 1) |-> IF i = 0 THEN EmptyTree ELSE Step(i, h[i - 1])]
    BY <2>4, <2>5
  <2>7. IsGrown(h, entries, k + 1)
    BY <2>6 DEF IsGrown, Step
  <2> QED BY <2>7
<1>3. T = Nat
  <2>1. T \in SUBSET Nat
    OBVIOUS
  <2> HIDE DEF T
  <2> QED BY <1>1, <1>2, <2>1, SetInduction
<1> QED BY <1>3

\* g is the nodes a fold leads through.
IsFolded(g, node, siblings, n) ==
  g = [i \in 0 .. n |->
         IF i = 0 THEN node
         ELSE Parent(g[i - 1], siblings[Len(siblings) + 1 - i])]

\* The loop of verifyInclusion.
LEMMA FoldedExists ==
  ASSUME NEW node, NEW siblings, NEW n \in Nat
  PROVE  \E g : IsFolded(g, node, siblings, n)
<1> DEFINE Step(i, x) == Parent(x, siblings[Len(siblings) + 1 - i])
           T == {k \in Nat : \E g : IsFolded(g, node, siblings, k)}
<1>1. 0 \in T
  <2>1. IsFolded([i \in 0 .. 0 |-> node], node, siblings, 0)
    BY DEF IsFolded
  <2> QED BY <2>1
<1>2. ASSUME NEW k \in T PROVE k + 1 \in T
  <2>1. PICK g : IsFolded(g, node, siblings, k)
    OBVIOUS
  <2> DEFINE h == [i \in 0 .. (k + 1) |->
                     IF i = k + 1 THEN IF i = 0 THEN node ELSE Step(i, g[i - 1])
                     ELSE g[i]]
  <2>2. \A i \in 0 .. k : g[i] = IF i = 0 THEN node ELSE Step(i, g[i - 1])
    BY <2>1 DEF IsFolded
  <2> HIDE DEF Step
  <2>3. /\ h[k + 1] = IF k + 1 = 0 THEN node ELSE Step(k + 1, g[(k + 1) - 1])
        /\ \A i \in 0 .. k : h[i] = g[i]
    OBVIOUS
  <2>4. h = [i \in 0 .. (k + 1) |-> h[i]]
    OBVIOUS
  <2> HIDE DEF h
  <2>5. ASSUME NEW i \in 0 .. (k + 1)
        PROVE  h[i] = IF i = 0 THEN node ELSE Step(i, h[i - 1])
    <3>1. i # 0 => i - 1 \in 0 .. (i - 1)
      OBVIOUS
    <3>2. i # 0 => i - 1 \in 0 .. k
      BY <3>1
    <3>3. CASE i = k + 1
      BY <2>3, <3>2, <3>3
    <3>4. CASE i # k + 1
      <4>1. i \in 0 .. k
        BY <3>4
      <4> QED BY <2>2, <2>3, <3>2, <4>1
    <3> QED BY <3>3, <3>4
  <2>6. h = [i \in 0 .. (k + 1) |-> IF i = 0 THEN node ELSE Step(i, h[i - 1])]
    BY <2>4, <2>5
  <2>7. IsFolded(h, node, siblings, k + 1)
    BY <2>6 DEF IsFolded, Step
  <2> QED BY <2>7
<1>3. T = Nat
  <2>1. T \in SUBSET Nat
    OBVIOUS
  <2> HIDE DEF T
  <2> QED BY <1>1, <1>2, <2>1, SetInduction
<1> QED BY <1>3

\* g is the siblings on the way down to leafIndex, by span and first leaf.
IsBelow(g, entries, leafIndex, n) ==
  g = [i \in 1 .. n |->
         IF i = 1 THEN [lo \in Nat |-> <<>>]
         ELSE [lo \in Nat |->
                 IF leafIndex >= lo + i \div 2
                 THEN <<[node |-> subtreeRoot(entries, lo, i \div 2), isLeft |-> TRUE]>>
                        \o g[i \div 2][lo + i \div 2]
                 ELSE <<[node |-> subtreeRoot(entries, lo + i \div 2, i \div 2), isLeft |-> FALSE]>>
                        \o g[i \div 2][lo]]]

\* The walk down of proveInclusion.
LEMMA BelowExists ==
  ASSUME NEW entries, NEW leafIndex, NEW n \in Nat
  PROVE  \E g : IsBelow(g, entries, leafIndex, n)
<1> DEFINE Step(i, x) == [lo \in Nat |->
                 IF leafIndex >= lo + i \div 2
                 THEN <<[node |-> subtreeRoot(entries, lo, i \div 2), isLeft |-> TRUE]>>
                        \o x[lo + i \div 2]
                 ELSE <<[node |-> subtreeRoot(entries, lo + i \div 2, i \div 2), isLeft |-> FALSE]>>
                        \o x[lo]]
           T == {k \in Nat : \E g : IsBelow(g, entries, leafIndex, k)}
<1>1. 0 \in T
  <2>1. IsBelow([i \in 1 .. 0 |-> [lo \in Nat |-> <<>>]], entries, leafIndex, 0)
    BY DEF IsBelow
  <2> QED BY <2>1
<1>2. ASSUME NEW k \in T PROVE k + 1 \in T
  <2>1. PICK g : IsBelow(g, entries, leafIndex, k)
    OBVIOUS
  <2> DEFINE h == [i \in 1 .. (k + 1) |->
                     IF i = k + 1 THEN IF i = 1 THEN [lo \in Nat |-> <<>>] ELSE Step(i, g[i \div 2])
                     ELSE g[i]]
  <2>2. \A i \in 1 .. k : g[i] = IF i = 1 THEN [lo \in Nat |-> <<>>] ELSE Step(i, g[i \div 2])
    BY <2>1 DEF IsBelow
  <2> HIDE DEF Step
  <2>3. /\ h[k + 1] = IF k + 1 = 1 THEN [lo \in Nat |-> <<>>] ELSE Step(k + 1, g[(k + 1) \div 2])
        /\ \A i \in 1 .. k : h[i] = g[i]
    OBVIOUS
  <2>4. h = [i \in 1 .. (k + 1) |-> h[i]]
    OBVIOUS
  <2> HIDE DEF h
  <2>5. ASSUME NEW i \in 1 .. (k + 1)
        PROVE  h[i] = IF i = 1 THEN [lo \in Nat |-> <<>>] ELSE Step(i, h[i \div 2])
    <3>1. i # 1 => i \div 2 \in 1 .. (i - 1)
      OBVIOUS
    <3>2. i # 1 => i \div 2 \in 1 .. k
      BY <3>1
    <3>3. CASE i = k + 1
      BY <2>3, <3>2, <3>3
    <3>4. CASE i # k + 1
      <4>1. i \in 1 .. k
        BY <3>4
      <4> QED BY <2>2, <2>3, <3>2, <4>1
    <3> QED BY <3>3, <3>4
  <2>6. h = [i \in 1 .. (k + 1) |-> IF i = 1 THEN [lo \in Nat |-> <<>>] ELSE Step(i, h[i \div 2])]
    BY <2>4, <2>5
  <2>7. IsBelow(h, entries, leafIndex, k + 1)
    BY <2>6 DEF IsBelow, Step
  <2> QED BY <2>7
<1>3. T = Nat
  <2>1. T \in SUBSET Nat
    OBVIOUS
  <2> HIDE DEF T
  <2> QED BY <1>1, <1>2, <2>1, SetInduction
<1> QED BY <1>3

-----------------------------------------------------------------------------
(***************************************************************************)
(* Powers of two.                                                          *)
(***************************************************************************)

\* The sets of numbers that hold one and are closed under doubling, and the numbers
\* that are in all of them.
Doubling(S) == 1 \in S /\ \A x \in S : 2 * x \in S
Powers == {n \in Nat : \A S \in SUBSET Nat : Doubling(S) => n \in S}

\* Powers of two are positive, start at one and double.
LEMMA PowersDouble ==
  /\ 1 \in Powers /\ \A p \in Powers : p \in Nat /\ p >= 1 /\ 2 * p \in Powers
<1>1. 1 \in Powers
  BY DEF Powers, Doubling
<1>2. ASSUME NEW p \in Powers PROVE p \in Nat /\ p >= 1 /\ 2 * p \in Powers
  <2>1. p \in Nat /\ \A S \in SUBSET Nat : Doubling(S) => p \in S
    BY DEF Powers
  <2>2. p >= 1
    <3> DEFINE S == {x \in Nat : x >= 1}
    <3>1. S \in SUBSET Nat /\ Doubling(S)
      BY DEF Doubling
    <3>2. p \in S
      BY <2>1, <3>1
    <3> QED BY <3>2
  <2>3. ASSUME NEW S \in SUBSET Nat, Doubling(S) PROVE 2 * p \in S
    BY <2>1, <2>3 DEF Doubling
  <2> QED BY <2>1, <2>2, <2>3 DEF Powers
<1> QED BY <1>1, <1>2

\* Induction over the powers of two.
LEMMA PowersInduction ==
  ASSUME NEW T, 1 \in T, \A p \in Powers : p \in T => 2 * p \in T
  PROVE  \A p \in Powers : p \in T
<1> DEFINE S == {x \in Powers : x \in T}
<1>1. S \in SUBSET Nat /\ Doubling(S)
  BY PowersDouble DEF Doubling
<1>2. ASSUME NEW p \in Powers PROVE p \in S
  <2> HIDE DEF S
  <2> QED BY <1>1 DEF Powers
<1> QED BY <1>2

\* A power of two is one or twice another.
LEMMA PowersHalve ==
  ASSUME NEW p \in Powers, p # 1
  PROVE  \E q \in Powers : p = 2 * q
<1> DEFINE T == {x \in Powers : x = 1 \/ \E q \in Powers : x = 2 * q}
<1>1. 1 \in T /\ \A x \in Powers : x \in T => 2 * x \in T
  BY PowersDouble
<1>2. \A x \in Powers : x \in T
  <2> HIDE DEF T
  <2> QED BY <1>1, PowersInduction
<1> QED BY <1>2

\* The next power of two is twice the last: there is none in between.
LEMMA PowersApart ==
  ASSUME NEW p \in Powers, NEW q \in Powers, p < q
  PROVE  2 * p <= q
<1> DEFINE T == {x \in Powers : \A y \in Powers : x < y => 2 * x <= y}
<1>1. 1 \in T
  <2> SUFFICES ASSUME NEW y \in Powers, 1 < y PROVE 2 * 1 <= y
    BY PowersDouble
  <2> QED BY PowersDouble
<1>2. ASSUME NEW x \in Powers, x \in T PROVE 2 * x \in T
  <2> SUFFICES ASSUME NEW y \in Powers, 2 * x < y PROVE 2 * (2 * x) <= y
    BY PowersDouble
  <2>1. x \in Nat /\ x >= 1 /\ y \in Nat
    BY PowersDouble
  <2>2. PICK z \in Powers : y = 2 * z
    BY <2>1, PowersHalve
  <2>3. z \in Nat /\ x < z
    BY <2>1, <2>2, PowersDouble
  <2>4. 2 * x <= z
    BY <1>2, <2>3
  <2> QED BY <2>1, <2>2, <2>3, <2>4
<1>3. \A x \in Powers : x \in T
  <2> HIDE DEF T
  <2> QED BY <1>1, <1>2, PowersInduction
<1> QED BY <1>3

\* greatestSpan is the power of two that n is at least and less than twice.
LEMMA GreatestSpan ==
  ASSUME NEW n \in Nat, n >= 1
  PROVE  /\ greatestSpan(n) \in Powers
         /\ greatestSpan(n) <= n /\ n < 2 * greatestSpan(n)
         /\ greatestSpan(n) \in 1 .. n
<1> DEFINE g == CHOOSE h : IsDoubled(h, n, n)
           Good(i) == g[i] \in Powers /\ g[i] <= n /\ (n < 2 * g[i] \/ g[i] >= i + 1)
           T == {i \in 0 .. n : Good(i)}
<1>1. greatestSpan(n) = g[n]
  BY DEF greatestSpan, IsDoubled
<1>2. IsDoubled(g, n, n)
  <2>1. \E h : IsDoubled(h, n, n)
    BY DoubledExists
  <2> QED BY <2>1
<1> HIDE DEF g
<1>3. 0 \in T
  <2>1. g[0] = 1
    BY <1>2 DEF IsDoubled
  <2> QED BY <2>1, PowersDouble
<1>4. ASSUME NEW i \in 0 .. (n - 1), i \in T PROVE i + 1 \in T
  <2>1. g[i + 1] = IF 2 * g[i] <= n THEN 2 * g[i] ELSE g[i]
    BY <1>2 DEF IsDoubled
  <2>2. g[i] \in Powers /\ g[i] \in Nat /\ g[i] >= 1 /\ 2 * g[i] \in Powers /\ Good(i)
    BY <1>4, PowersDouble
  <2> QED BY <2>1, <2>2
<1>5. \A i \in 0 .. n : i \in T
  <2> HIDE DEF T
  <2> QED BY <1>3, <1>4, IntervalInduction
<1>6. Good(n)
  BY <1>5
<1> QED BY <1>1, <1>6, PowersDouble

\* No other power of two is.
LEMMA GreatestSpanUnique ==
  ASSUME NEW n \in Nat, NEW p \in Powers, p <= n, n < 2 * p
  PROVE  greatestSpan(n) = p
<1>1. p \in Nat /\ p >= 1
  BY PowersDouble
<1> DEFINE q == greatestSpan(n)
<1>2. q \in Powers /\ q <= n /\ n < 2 * q /\ q \in Nat
  BY <1>1, GreatestSpan, PowersDouble
<1> HIDE DEF q
<1>3. ~(p < q) /\ ~(q < p)
  BY <1>1, <1>2, PowersApart
<1> QED BY <1>1, <1>2, <1>3 DEF q

-----------------------------------------------------------------------------
(***************************************************************************)
(* A log as complete subtrees.                                             *)
(***************************************************************************)

\* A subtree of one leaf is that leaf.
LEMMA SubtreeLeaf ==
  ASSUME NEW entries \in Seq(Data), NEW at \in Nat, Len(entries) >= 1
  PROVE  subtreeRoot(entries, at, 1) = LeafNode(entries[at + 1], at)
<1> DEFINE n == Len(entries)
           g == CHOOSE h : IsSubtrees(h, entries, n)
<1>1. subtreeRoot(entries, at, 1) = g[1][at]
  BY DEF subtreeRoot, IsSubtrees
<1>2. n \in Nat
  OBVIOUS
<1>3. IsSubtrees(g, entries, n)
  <2> HIDE DEF n
  <2>1. \E h : IsSubtrees(h, entries, n)
    BY <1>2, SubtreesExists
  <2> QED BY <2>1
<1> HIDE DEF g
<1>4. g[1] = [x \in Nat |-> LeafNode(entries[x + 1], x)]
  BY <1>2, <1>3 DEF IsSubtrees
<1> QED BY <1>1, <1>4

\* A larger subtree is the node over its halves.
LEMMA SubtreeOver ==
  ASSUME NEW entries \in Seq(Data), NEW at \in Nat, NEW s \in 2 .. Len(entries)
  PROVE  subtreeRoot(entries, at, s)
           = Over(subtreeRoot(entries, at, s \div 2),
                  subtreeRoot(entries, at + s \div 2, s \div 2), flatIndex(at, s))
<1> DEFINE n == Len(entries)
           g == CHOOSE h : IsSubtrees(h, entries, n)
<1>1. /\ subtreeRoot(entries, at, s) = g[s][at]
      /\ subtreeRoot(entries, at, s \div 2) = g[s \div 2][at]
      /\ subtreeRoot(entries, at + s \div 2, s \div 2) = g[s \div 2][at + s \div 2]
  BY DEF subtreeRoot, IsSubtrees
<1>2. n \in Nat
  OBVIOUS
<1>3. IsSubtrees(g, entries, n)
  <2> HIDE DEF n
  <2>1. \E h : IsSubtrees(h, entries, n)
    BY <1>2, SubtreesExists
  <2> QED BY <2>1
<1> HIDE DEF g
<1>4. s \in 1 .. n /\ s # 1
  BY <1>2
<1>5. g[s] = [x \in Nat |-> Over(g[s \div 2][x], g[s \div 2][x + s \div 2], flatIndex(x, s))]
  BY <1>2, <1>3, <1>4 DEF IsSubtrees
<1> QED BY <1>1, <1>5

\* Peaks and their spans lie end to end over the first m entries, st[i] leaves before
\* the i-th; each is the complete subtree there.
Tiles(peaks, spans, st, entries, m) ==
  /\ \E S : peaks \in Seq(S)
  /\ spans \in Seq(Powers)
  /\ Len(peaks) = Len(spans)
  /\ st \in [1 .. Len(spans) + 1 -> Nat]
  /\ st[1] = 0 /\ st[Len(spans) + 1] = m
  /\ \A i \in 1 .. Len(spans) :
       /\ st[i + 1] = st[i] + spans[i]
       /\ peaks[i] = subtreeRoot(entries, st[i], spans[i])

Decreasing(spans) == \A i, j \in 1 .. Len(spans) : i < j => spans[j] < spans[i]

TreeOver(tree, entries, n) ==
  /\ tree = [peaks |-> tree.peaks, spans |-> tree.spans, length |-> n]
  /\ \E st : Tiles(tree.peaks, tree.spans, st, entries, n)
  /\ Decreasing(tree.spans)

\* What the loop of append carries up: the subtree that ends at the new leaf.
CarryOver(c, entries, n) ==
  /\ c.span \in Powers /\ c.span <= n
  /\ c.node = subtreeRoot(entries, n - c.span, c.span)
  /\ \E st : Tiles(c.peaks, c.spans, st, entries, n - c.span)
  /\ Decreasing(c.spans)
  /\ \A i \in 1 .. Len(c.spans) : c.spans[i] >= c.span

\* The front and the end of a sequence that is not empty.
LEMMA FrontLast ==
  ASSUME NEW S, NEW s \in Seq(S), s # <<>>
  PROVE  /\ Len(s) \in Nat \ {0}
         /\ Front(s) \in Seq(S) /\ Len(Front(s)) = Len(s) - 1
         /\ \A i \in 1 .. Len(s) - 1 : Front(s)[i] = s[i]
         /\ Last(s) = s[Len(s)] /\ Last(s) \in S
<1>1. Len(s) \in Nat /\ Len(s) # 0
  OBVIOUS
<1>2. /\ Front(s) \in Seq(S) /\ Len(Front(s)) = Len(s) - 1
      /\ \A i \in 1 .. Len(s) - 1 : Front(s)[i] = s[i]
  <2> DEFINE m == Len(s) - 1
  <2>1. m \in Nat /\ m <= Len(s) /\ Front(s) = SubSeq(s, 1, m)
    BY <1>1 DEF Front
  <2> HIDE DEF m
  <2>2. /\ SubSeq(s, 1, m) \in Seq(S) /\ Len(SubSeq(s, 1, m)) = m
        /\ \A i \in 1 .. m : SubSeq(s, 1, m)[i] = s[i]
    BY <1>1, <2>1
  <2> QED BY <2>1, <2>2 DEF m
<1>3. Last(s) = s[Len(s)] /\ Last(s) \in S
  BY <1>1 DEF Last
<1> QED BY <1>1, <1>2, <1>3

\* A round of the loop keeps what it carries, and combines as long as spans are equal.
LEMMA CarryKeeps ==
  ASSUME NEW entries \in Seq(Data), NEW n \in 1 .. Len(entries), NEW c, CarryOver(c, entries, n)
  PROVE  /\ CarryOver(Carry(c, n), entries, n)
         /\ SameSpan(c) => Len(c.spans) \in Nat \ {0} /\ Len(Carry(c, n).spans) = Len(c.spans) - 1
         /\ ~SameSpan(c) => Carry(c, n) = c
<1>1. CASE ~SameSpan(c)
  BY <1>1 DEF Carry
<1>2. CASE SameSpan(c)
  <2> DEFINE e == Carry(c, n)
             P == Front(c.peaks)
             Z == Front(c.spans)
             k == Len(c.spans)
             left == Last(c.peaks)
             w == c.span
  <2>1. PICK st : Tiles(c.peaks, c.spans, st, entries, n - c.span)
    BY DEF CarryOver
  <2>2. PICK S : c.peaks \in Seq(S)
    BY <2>1 DEF Tiles
  <2>3. /\ c.spans \in Seq(Powers) /\ c.spans # <<>> /\ c.spans[k] = w
        /\ Len(c.peaks) = k
    BY <1>2, <2>1 DEF Tiles, SameSpan, Last
  <2>4. k \in Nat \ {0} /\ Z \in Seq(Powers) /\ Len(Z) = k - 1 /\ \A i \in 1 .. k - 1 : Z[i] = c.spans[i]
    BY <2>3, FrontLast
  <2>5. /\ c.peaks # <<>> /\ P \in Seq(S) /\ Len(P) = k - 1
        /\ \A i \in 1 .. k - 1 : P[i] = c.peaks[i]
        /\ left = c.peaks[k]
    <3>1. c.peaks # <<>>
      BY <2>3, <2>4
    <3> QED BY <2>2, <2>3, <3>1, FrontLast
  <2>6. w \in Powers /\ w \in Nat /\ w >= 1 /\ 2 * w \in Powers /\ w <= n
    BY PowersDouble DEF CarryOver
  <2>7. /\ st \in [1 .. k + 1 -> Nat] /\ st[1] = 0 /\ st[k + 1] = n - w
        /\ \A i \in 1 .. k : st[i + 1] = st[i] + c.spans[i]
                             /\ c.peaks[i] = subtreeRoot(entries, st[i], c.spans[i])
    <3>1. n - c.span = n - w
      OBVIOUS
    <3> QED BY <2>1, <3>1 DEF Tiles
  <2>8. st[k] \in Nat /\ st[k] + w = n - w /\ st[k] = n - 2 * w
        /\ left = subtreeRoot(entries, st[k], w)
    <3>1. k \in 1 .. k /\ k \in 1 .. k + 1 /\ st[k] \in Nat
      BY <2>4, <2>7
    <3>2. st[k + 1] = st[k] + w /\ c.peaks[k] = subtreeRoot(entries, st[k], w)
      BY <2>3, <2>7, <3>1
    <3>3. st[k] + w = n - w
      BY <2>7, <3>2
    <3> HIDE DEF k, w, left
    <3>4. st[k] = n - 2 * w
      BY <2>6, <3>1, <3>3
    <3> QED BY <2>5, <3>1, <3>2, <3>3, <3>4
  <2>9. e = [peaks |-> P, spans |-> Z,
             node |-> Over(left, c.node, flatIndex(n - 2 * w, 2 * w)), span |-> 2 * w]
    BY <1>2 DEF Carry
  <2> DEFINE at == n - 2 * w
  <2>10. e.peaks = P /\ e.spans = Z /\ e.span = 2 * w
         /\ e.node = Over(left, c.node, flatIndex(at, 2 * w))
    <3> HIDE DEF e, P, Z, left
    <3> QED BY <2>9
  <2> HIDE DEF e, P, Z, left, k, w
  <2>11. e.node = subtreeRoot(entries, at, 2 * w)
    <3>1. at \in Nat /\ 2 * w \in 2 .. Len(entries) /\ (2 * w) \div 2 = w /\ at + w = n - w
          /\ at = st[k]
      BY <2>6, <2>8
    <3>2. c.node = subtreeRoot(entries, n - w, w)
      BY DEF CarryOver, w
    <3> HIDE DEF at
    <3>3. subtreeRoot(entries, at, 2 * w)
            = Over(subtreeRoot(entries, at, w), subtreeRoot(entries, at + w, w), flatIndex(at, 2 * w))
      BY <3>1, SubtreeOver
    <3> QED BY <2>8, <2>10, <3>1, <3>2, <3>3
  <2>12. Tiles(P, Z, [i \in 1 .. k |-> st[i]], entries, n - 2 * w)
    <3> DEFINE f == [i \in 1 .. k |-> st[i]]
    <3>1. f \in [1 .. Len(Z) + 1 -> Nat] /\ f[1] = 0 /\ f[Len(Z) + 1] = n - 2 * w
      BY <2>4, <2>7, <2>8
    <3>2. ASSUME NEW i \in 1 .. Len(Z)
          PROVE  f[i + 1] = f[i] + Z[i] /\ P[i] = subtreeRoot(entries, f[i], Z[i])
      <4>1. i \in 1 .. k /\ i + 1 \in 1 .. k /\ i \in 1 .. k - 1
        BY <2>4
      <4>2. f[i] = st[i] /\ f[i + 1] = st[i + 1] /\ Z[i] = c.spans[i] /\ P[i] = c.peaks[i]
        BY <2>4, <2>5, <4>1
      <4> QED BY <2>7, <4>1, <4>2
    <3> HIDE DEF f
    <3>3. Len(P) = Len(Z) /\ \E U : P \in Seq(U)
      BY <2>4, <2>5
    <3>4. Tiles(P, Z, f, entries, n - 2 * w)
      BY <2>4, <3>1, <3>2, <3>3 DEF Tiles
    <3> QED BY <3>4 DEF f
  <2>13. \A i, j \in 1 .. k : i < j => c.spans[j] < c.spans[i]
    BY DEF CarryOver, Decreasing, k
  <2>14. Decreasing(Z)
    <3> SUFFICES ASSUME NEW i \in 1 .. Len(Z), NEW j \in 1 .. Len(Z), i < j PROVE Z[j] < Z[i]
      BY DEF Decreasing
    <3>1. i \in 1 .. k /\ j \in 1 .. k /\ i \in 1 .. k - 1 /\ j \in 1 .. k - 1
      BY <2>4
    <3>2. Z[i] = c.spans[i] /\ Z[j] = c.spans[j]
      BY <2>4, <3>1
    <3> QED BY <2>13, <3>1, <3>2
  <2>15. ASSUME NEW i \in 1 .. Len(Z) PROVE Z[i] >= 2 * w
    <3>1. i \in 1 .. k /\ i < k /\ k \in 1 .. k /\ Z[i] = c.spans[i]
      BY <2>4
    <3>2. c.spans[i] \in Powers /\ c.spans[i] \in Nat /\ w < c.spans[i]
      <4>1. c.spans[i] \in Powers
        BY <2>3, <3>1 DEF k
      <4>2. c.spans[k] < c.spans[i]
        BY <2>13, <3>1
      <4> QED BY <2>3, <4>1, <4>2, PowersDouble
    <3> QED BY <2>6, <3>1, <3>2, PowersApart
  <2>16. 2 * w <= n
    BY <2>6, <2>8
  <2>17. CarryOver(e, entries, n)
    BY <2>6, <2>10, <2>11, <2>12, <2>14, <2>15, <2>16 DEF CarryOver
  <2>18. Len(e.spans) = k - 1
    BY <2>4, <2>10
  <2> QED BY <1>2, <2>4, <2>17, <2>18 DEF e, k
<1> QED BY <1>1, <1>2

\* A sequence with one more element.
LEMMA Appended ==
  ASSUME NEW S, NEW s \in Seq(S), NEW x
  PROVE  /\ Append(s, x) \in Seq(S \cup {x}) /\ x \in S => Append(s, x) \in Seq(S)
         /\ Len(Append(s, x)) = Len(s) + 1
         /\ \A i \in 1 .. Len(s) : Append(s, x)[i] = s[i]
         /\ Append(s, x)[Len(s) + 1] = x
<1>1. s \in Seq(S \cup {x})
  OBVIOUS
<1> QED BY <1>1

\* Subtrees and the one that ends after them, which is smaller, are a tree.
LEMMA CarriedToTree ==
  ASSUME NEW entries \in Seq(Data), NEW n \in 1 .. Len(entries), NEW c, CarryOver(c, entries, n), ~SameSpan(c)
  PROVE  TreeOver([peaks |-> Append(c.peaks, c.node), spans |-> Append(c.spans, c.span), length |-> n],
                  entries, n)
<1> DEFINE P == Append(c.peaks, c.node)
           Z == Append(c.spans, c.span)
           k == Len(c.spans)
           w == c.span
<1>1. PICK st : Tiles(c.peaks, c.spans, st, entries, n - w)
  BY DEF CarryOver
<1>2. PICK S : c.peaks \in Seq(S)
  BY <1>1 DEF Tiles
<1>3. c.spans \in Seq(Powers) /\ Len(c.peaks) = k /\ k \in Nat
  BY <1>1 DEF Tiles
<1>4. w \in Powers /\ w \in Nat /\ w <= n /\ c.node = subtreeRoot(entries, n - w, w)
  BY PowersDouble DEF CarryOver
<1>5. Z \in Seq(Powers) /\ Len(Z) = k + 1 /\ Z[k + 1] = w /\ \A i \in 1 .. k : Z[i] = c.spans[i]
  BY <1>3, <1>4, Appended
<1>6. /\ P \in Seq(S \cup {c.node}) /\ Len(P) = k + 1 /\ P[k + 1] = c.node
      /\ \A i \in 1 .. k : P[i] = c.peaks[i]
  BY <1>2, <1>3, Appended
<1>7. /\ st \in [1 .. k + 1 -> Nat] /\ st[1] = 0 /\ st[k + 1] = n - w
      /\ \A i \in 1 .. k : st[i + 1] = st[i] + c.spans[i]
                           /\ c.peaks[i] = subtreeRoot(entries, st[i], c.spans[i])
  BY <1>1 DEF Tiles
<1>8. /\ \A i, j \in 1 .. k : i < j => c.spans[j] < c.spans[i]
      /\ \A i \in 1 .. k : c.spans[i] \in Nat /\ c.spans[i] >= w
      /\ k # 0 => c.spans[k] # w
  <2>1. \A i \in 1 .. k : c.spans[i] \in Nat
    BY <1>3, PowersDouble
  <2>2. k # 0 => c.spans[k] # w
    <3>1. k # 0 => c.spans # <<>>
      BY <1>3
    <3> QED BY <3>1 DEF SameSpan, Last
  <2> QED BY <2>1, <2>2 DEF CarryOver, Decreasing
<1> DEFINE f == [i \in 1 .. k + 2 |-> IF i = k + 2 THEN n ELSE st[i]]
<1> HIDE DEF P, Z, k, w
<1>9. Tiles(P, Z, f, entries, n)
  <2>1. f \in [1 .. Len(Z) + 1 -> Nat] /\ f[1] = 0 /\ f[Len(Z) + 1] = n
    BY <1>3, <1>5, <1>7
  <2>2. ASSUME NEW i \in 1 .. Len(Z)
        PROVE  f[i + 1] = f[i] + Z[i] /\ P[i] = subtreeRoot(entries, f[i], Z[i])
    <3>1. CASE i \in 1 .. k
      <4>1. f[i] = st[i] /\ f[i + 1] = st[i + 1]
        BY <1>3, <3>1
      <4> QED BY <1>5, <1>6, <1>7, <3>1, <4>1
    <3>2. CASE i = k + 1
      <4>1. f[i] = st[k + 1] /\ f[i + 1] = n /\ f[i] = n - w
        BY <1>3, <1>7, <3>2
      <4> QED BY <1>4, <1>5, <1>6, <3>2, <4>1
    <3>3. i \in 1 .. k \/ i = k + 1
      BY <1>3, <1>5
    <3> QED BY <3>1, <3>2, <3>3
  <2> HIDE DEF f
  <2>3. Len(P) = Len(Z) /\ \E U : P \in Seq(U)
    BY <1>5, <1>6
  <2> QED BY <1>5, <2>1, <2>2, <2>3 DEF Tiles
<1>10. Decreasing(Z)
  <2> SUFFICES ASSUME NEW i \in 1 .. Len(Z), NEW j \in 1 .. Len(Z), i < j PROVE Z[j] < Z[i]
    BY DEF Decreasing
  <2>1. i \in 1 .. k /\ Z[i] = c.spans[i] /\ k # 0
    BY <1>3, <1>5
  <2>2. CASE j \in 1 .. k
    BY <1>5, <1>8, <2>1, <2>2
  <2>3. CASE j = k + 1
    <3>1. CASE i = k
      BY <1>4, <1>5, <1>8, <2>1, <2>3, <3>1
    <3>2. CASE i # k
      <4>1. k \in 1 .. k /\ i < k
        BY <1>3, <2>1, <3>2
      <4>2. c.spans[k] < c.spans[i] /\ c.spans[k] >= w /\ c.spans[k] \in Nat /\ c.spans[i] \in Nat
        BY <1>8, <2>1, <4>1
      <4> QED BY <1>4, <1>5, <2>1, <2>3, <4>2
    <3> QED BY <3>1, <3>2
  <2>4. j \in 1 .. k \/ j = k + 1
    BY <1>3, <1>5
  <2> QED BY <2>2, <2>3, <2>4
<1>11. TreeOver([peaks |-> P, spans |-> Z, length |-> n], entries, n)
  BY <1>9, <1>10 DEF TreeOver
<1> QED BY <1>11 DEF P, Z, w

\* Appending the next entry to a tree over the entries before it.
LEMMA AppendTree ==
  ASSUME NEW entries \in Seq(Data), NEW n \in Nat, n < Len(entries),
         NEW tree, TreeOver(tree, entries, n)
  PROVE  TreeOver(append(tree, entries[n + 1]), entries, n + 1)
<1> DEFINE m == Len(tree.peaks)
           d == entries[n + 1]
           c == [peaks |-> tree.peaks, spans |-> tree.spans,
                 node |-> LeafNode(d, tree.length), span |-> 1]
           g == CHOOSE h : IsCarried(h, c, tree.length + 1, m)
<1>1. append(tree, d) = [peaks |-> Append(g[m].peaks, g[m].node), spans |-> Append(g[m].spans, g[m].span),
                         length |-> tree.length + 1]
  BY DEF append, IsCarried
<1>2. PICK st : Tiles(tree.peaks, tree.spans, st, entries, n)
  BY DEF TreeOver
<1>3. tree.length = n
  BY DEF TreeOver
<1>4. m \in Nat /\ m = Len(tree.spans) /\ tree.spans \in Seq(Powers)
  <2>1. PICK S : tree.peaks \in Seq(S)
    BY <1>2 DEF Tiles
  <2> QED BY <1>2, <2>1 DEF Tiles
<1>5. IsCarried(g, c, n + 1, m)
  <2> HIDE DEF m, c
  <2>1. \E h : IsCarried(h, c, tree.length + 1, m)
    BY <1>4, CarriedExists
  <2>2. IsCarried(g, c, tree.length + 1, m)
    BY <2>1
  <2> QED BY <1>3, <2>2
<1> HIDE DEF g
<1>6. CarryOver(c, entries, n + 1)
  <2>1. c.span = 1 /\ c.peaks = tree.peaks /\ c.spans = tree.spans /\ c.node = LeafNode(d, n)
    BY <1>3
  <2>2. c.node = subtreeRoot(entries, n, 1)
    BY <2>1, SubtreeLeaf
  <2>3. n + 1 - c.span = n /\ 1 <= n + 1 /\ c.span \in Powers
    BY <2>1, PowersDouble
  <2>4. \A i \in 1 .. Len(c.spans) : c.spans[i] >= c.span
    BY <1>4, <2>1, PowersDouble
  <2>5. Decreasing(c.spans)
    BY <2>1 DEF TreeOver
  <2>6. \E z : Tiles(c.peaks, c.spans, z, entries, n)
    BY <1>2, <2>1
  <2> HIDE DEF c
  <2>7. \E z : Tiles(c.peaks, c.spans, z, entries, n + 1 - c.span)
    BY <2>3, <2>6
  <2>8. c.node = subtreeRoot(entries, n + 1 - c.span, c.span)
    BY <2>1, <2>2, <2>3
  <2> QED BY <2>1, <2>3, <2>4, <2>5, <2>7, <2>8 DEF CarryOver
<1> DEFINE T == {i \in 0 .. m :
                   /\ CarryOver(g[i], entries, n + 1)
                   /\ Len(g[i].spans) \in Nat
                   /\ Len(g[i].spans) <= m - i \/ ~SameSpan(g[i])}
<1>7. 0 \in T
  <2>1. g[0] = c
    BY <1>4, <1>5 DEF IsCarried
  <2>2. c.spans = tree.spans
    OBVIOUS
  <2> HIDE DEF c, m
  <2> QED BY <1>4, <1>6, <2>1, <2>2
<1>8. ASSUME NEW i \in 0 .. (m - 1), i \in T PROVE i + 1 \in T
  <2> HIDE DEF c, m
  <2>1. g[i + 1] = Carry(g[i], n + 1)
    BY <1>4, <1>5 DEF IsCarried
  <2> DEFINE x == g[i]
             y == Carry(x, n + 1)
  <2>2. CarryOver(x, entries, n + 1) /\ Len(x.spans) \in Nat /\ (Len(x.spans) <= m - i \/ ~SameSpan(x))
    BY <1>8
  <2> HIDE DEF x
  <2>3. /\ CarryOver(y, entries, n + 1)
        /\ SameSpan(x) => Len(x.spans) \in Nat \ {0} /\ Len(y.spans) = Len(x.spans) - 1
        /\ ~SameSpan(x) => y = x
    BY <2>2, CarryKeeps
  <2> HIDE DEF y
  <2>4. Len(y.spans) \in Nat /\ (Len(y.spans) <= m - (i + 1) \/ ~SameSpan(y))
    BY <1>4, <2>2, <2>3
  <2> QED BY <1>4, <2>1, <2>3, <2>4 DEF x, y
<1>9. \A i \in 0 .. m : i \in T
  <2> HIDE DEF T, m
  <2> QED BY <1>4, <1>7, <1>8, IntervalInduction
<1> DEFINE z == g[m]
<1>10. CarryOver(z, entries, n + 1) /\ ~SameSpan(z)
  <2>1. CarryOver(z, entries, n + 1) /\ Len(z.spans) \in Nat /\ (Len(z.spans) <= 0 \/ ~SameSpan(z))
    <3> HIDE DEF m
    <3> QED BY <1>4, <1>9
  <2> DEFINE l == n + 1
  <2> HIDE DEF z, m, l
  <2>2. CarryOver(z, entries, l)
    BY <2>1 DEF l
  <2>3. z.spans \in Seq(Powers)
    BY <2>2 DEF CarryOver, Tiles
  <2>4. Len(z.spans) <= 0 => z.spans = <<>>
    BY <2>1, <2>3
  <2> QED BY <2>1, <2>4 DEF SameSpan
<1>11. n + 1 \in 1 .. Len(entries)
  OBVIOUS
<1>12. append(tree, d) = [peaks |-> Append(z.peaks, z.node), spans |-> Append(z.spans, z.span),
                          length |-> n + 1]
  BY <1>1, <1>3
<1> HIDE DEF z, d
<1>13. TreeOver(append(tree, d), entries, n + 1)
  BY <1>10, <1>11, <1>12, CarriedToTree
<1> QED BY <1>13 DEF d

\* The tree that grew over a log is made of its complete subtrees, largest first.
LEMMA TreeOfIs ==
  ASSUME NEW entries \in Seq(Data)
  PROVE  TreeOver(treeOf(entries), entries, Len(entries))
<1> DEFINE n == Len(entries)
           g == CHOOSE h : IsGrown(h, entries, n)
           T == {i \in 0 .. n : TreeOver(g[i], entries, i)}
<1>1. treeOf(entries) = g[n]
  BY DEF treeOf, IsGrown
<1>2. n \in Nat
  OBVIOUS
<1>3. IsGrown(g, entries, n)
  <2> HIDE DEF n
  <2>1. \E h : IsGrown(h, entries, n)
    BY <1>2, GrownExists
  <2> QED BY <2>1
<1> HIDE DEF g
<1>4. 0 \in T
  <2>1. g[0] = EmptyTree
    BY <1>2, <1>3 DEF IsGrown
  <2>2. EmptyTree = [peaks |-> <<>>, spans |-> <<>>, length |-> 0]
    BY DEF EmptyTree
  <2>3. Tiles(<<>>, <<>>, [i \in 1 .. 1 |-> 0], entries, 0)
    BY DEF Tiles
  <2>4. Decreasing(<<>>)
    BY DEF Decreasing
  <2>5. TreeOver(EmptyTree, entries, 0)
    BY <2>2, <2>3, <2>4 DEF TreeOver
  <2> QED BY <1>2, <2>1, <2>5
<1>5. ASSUME NEW i \in 0 .. (n - 1), i \in T PROVE i + 1 \in T
  <2>1. g[i + 1] = append(g[i], entries[i + 1])
    BY <1>2, <1>3 DEF IsGrown
  <2>2. TreeOver(g[i], entries, i) /\ i \in Nat /\ i < Len(entries)
    BY <1>2, <1>5
  <2>3. TreeOver(append(g[i], entries[i + 1]), entries, i + 1)
    BY <2>2, AppendTree
  <2> QED BY <1>2, <2>1, <2>3
<1>6. \A i \in 0 .. n : i \in T
  <2> HIDE DEF T, n
  <2> QED BY <1>2, <1>4, <1>5, IntervalInduction
<1> QED BY <1>1, <1>2, <1>6

\* g is the subtrees of the last entries, by how many they are.
IsPeaked(g, length, n) ==
  g = [i \in 0 .. n |->
         IF i = 0 THEN <<>>
         ELSE <<[start |-> length - i, span |-> greatestSpan(i)]>> \o g[i - greatestSpan(i)]]

\* The loop of peakSpans.
LEMMA PeakedExists ==
  ASSUME NEW length, NEW n \in Nat
  PROVE  \E g : IsPeaked(g, length, n)
<1> DEFINE Step(i, x) == <<[start |-> length - i, span |-> greatestSpan(i)]>> \o x
           T == {k \in Nat : \E g : IsPeaked(g, length, k)}
<1>1. 0 \in T
  <2>1. IsPeaked([i \in 0 .. 0 |-> <<>>], length, 0)
    BY DEF IsPeaked
  <2> QED BY <2>1
<1>2. ASSUME NEW k \in T PROVE k + 1 \in T
  <2>1. PICK g : IsPeaked(g, length, k)
    OBVIOUS
  <2> DEFINE h == [i \in 0 .. (k + 1) |->
                     IF i = k + 1 THEN IF i = 0 THEN <<>> ELSE Step(i, g[i - greatestSpan(i)])
                     ELSE g[i]]
  <2>2. \A i \in 0 .. k : g[i] = IF i = 0 THEN <<>> ELSE Step(i, g[i - greatestSpan(i)])
    BY <2>1 DEF IsPeaked
  <2> HIDE DEF Step
  <2>3. /\ h[k + 1] = IF k + 1 = 0 THEN <<>> ELSE Step(k + 1, g[(k + 1) - greatestSpan((k + 1))])
        /\ \A i \in 0 .. k : h[i] = g[i]
    OBVIOUS
  <2>4. h = [i \in 0 .. (k + 1) |-> h[i]]
    OBVIOUS
  <2> HIDE DEF h
  <2>5. ASSUME NEW i \in 0 .. (k + 1)
        PROVE  h[i] = IF i = 0 THEN <<>> ELSE Step(i, h[i - greatestSpan(i)])
    <3>1. i # 0 => i - greatestSpan(i) \in 0 .. (i - 1)
      BY GreatestSpan
    <3>2. i # 0 => i - greatestSpan(i) \in 0 .. k
      BY <3>1
    <3>3. CASE i = k + 1
      BY <2>3, <3>2, <3>3
    <3>4. CASE i # k + 1
      <4>1. i \in 0 .. k
        BY <3>4
      <4> QED BY <2>2, <2>3, <3>2, <4>1
    <3> QED BY <3>3, <3>4
  <2>6. h = [i \in 0 .. (k + 1) |-> IF i = 0 THEN <<>> ELSE Step(i, h[i - greatestSpan(i)])]
    BY <2>4, <2>5
  <2>7. IsPeaked(h, length, k + 1)
    BY <2>6 DEF IsPeaked, Step
  <2> QED BY <2>7
<1>3. T = Nat
  <2>1. T \in SUBSET Nat
    OBVIOUS
  <2> HIDE DEF T
  <2> QED BY <1>1, <1>2, <2>1, SetInduction
<1> QED BY <1>3

\* A sequence with one more element at its front.
LEMMA Consed ==
  ASSUME NEW S, NEW s \in Seq(S), NEW x
  PROVE  /\ <<x>> \o s \in Seq(S \cup {x})
         /\ <<x>> \o s = [i \in 1 .. Len(s) + 1 |-> IF i = 1 THEN x ELSE s[i - 1]]
         /\ Len(<<x>> \o s) = Len(s) + 1
         /\ (<<x>> \o s)[1] = x
         /\ \A i \in 1 .. Len(s) : (<<x>> \o s)[i + 1] = s[i]
<1>1. s \in Seq(S \cup {x}) /\ <<x>> \in Seq(S \cup {x}) /\ Len(<<x>>) = 1 /\ <<x>>[1] = x
  OBVIOUS
<1> DEFINE y == <<x>>
<1> HIDE DEF y
<1>2. y \o s \in Seq(S \cup {x}) /\ Len(y \o s) = Len(s) + 1 /\ Len(s) \in Nat
  BY <1>1 DEF y
<1>3. \A i \in 1 .. Len(s) + 1 : (y \o s)[i] = IF i = 1 THEN x ELSE s[i - 1]
  BY <1>1 DEF y
<1>4. y \o s = [i \in 1 .. Len(s) + 1 |-> IF i = 1 THEN x ELSE s[i - 1]]
  <2> DEFINE z == y \o s
             l == Len(s) + 1
  <2>1. z \in Seq(S \cup {x}) /\ Len(z) = l
    BY <1>2
  <2> HIDE DEF z
  <2>2. z = [i \in 1 .. l |-> z[i]]
    BY <2>1
  <2>3. \A i \in 1 .. l : z[i] = IF i = 1 THEN x ELSE s[i - 1]
    BY <1>3 DEF z
  <2> HIDE DEF l
  <2>4. z = [i \in 1 .. l |-> IF i = 1 THEN x ELSE s[i - 1]]
    BY <2>2, <2>3
  <2> QED BY <2>4 DEF z, l
<1>5. \A i \in 1 .. Len(s) : (y \o s)[i + 1] = s[i]
  BY <1>2, <1>3
<1> QED BY <1>2, <1>3, <1>4, <1>5 DEF y

\* Subtrees of decreasing spans that lie end to end are the ones peakSpans finds.
LEMMA PeakSpansAre ==
  ASSUME NEW n \in Nat, NEW spans \in Seq(Powers), Decreasing(spans),
         NEW st \in [1 .. Len(spans) + 1 -> Nat], st[1] = 0, st[Len(spans) + 1] = n,
         \A i \in 1 .. Len(spans) : st[i + 1] = st[i] + spans[i]
  PROVE  /\ peakSpans(n) = [i \in 1 .. Len(spans) |-> [start |-> st[i], span |-> spans[i]]]
         /\ \A j \in 1 .. Len(spans) + 1 : st[j] <= n
<1> DEFINE k == Len(spans)
           Left(j) == n - st[j]
           Peak(j) == [start |-> st[j], span |-> spans[j]]
           g == CHOOSE h : IsPeaked(h, n, n)
           Rest(j) == [i \in 1 .. k + 1 - j |-> Peak(i + j - 1)]
<1>1. k \in Nat /\ \A j \in 1 .. k : spans[j] \in Powers /\ spans[j] \in Nat /\ spans[j] >= 1
  BY PowersDouble
<1>2. peakSpans(n) = g[n]
  BY DEF peakSpans, IsPeaked
<1>3. IsPeaked(g, n, n)
  <2>1. \E h : IsPeaked(h, n, n)
    BY PeakedExists
  <2> QED BY <2>1
<1> HIDE DEF g
<1>4. /\ \A i \in 1 .. k : st[i + 1] = st[i] + spans[i]
      /\ \A i, j \in 1 .. k : i < j => spans[j] < spans[i]
      /\ st[k + 1] = n
      /\ \A j \in 1 .. k + 1 : st[j] \in Nat
  BY DEF Decreasing
<1> HIDE DEF k
<1> DEFINE Short(j) == Left(j) \in Nat /\ (j > 1 => Left(j) < spans[j - 1])
           T == {t \in 0 .. k : Short(k + 1 - t)}
<1>5. 0 \in T
  <2>1. Left(k + 1) = 0
    BY <1>4
  <2>2. k + 1 > 1 => k \in 1 .. k
    BY <1>1
  <2> QED BY <1>1, <2>1, <2>2
<1>6. ASSUME NEW t \in 0 .. (k - 1), t \in T PROVE t + 1 \in T
  <2> DEFINE j == k - t
  <2>1. j \in 1 .. k /\ k + 1 - (t + 1) = j /\ k + 1 - t = j + 1 /\ j + 1 > 1 /\ j + 1 - 1 = j
    BY <1>1
  <2> HIDE DEF j
  <2>2. Left(j + 1) \in Nat /\ Left(j + 1) < spans[j]
    BY <1>6, <2>1
  <2>3. Left(j) = spans[j] + Left(j + 1)
    <3>1. st[j + 1] = st[j] + spans[j] /\ st[j] \in Nat /\ spans[j] \in Nat /\ st[j + 1] \in Nat
      BY <1>1, <1>4, <2>1
    <3> QED BY <3>1
  <2>4. ASSUME j > 1 PROVE Left(j) < spans[j - 1]
    <3>1. j - 1 \in 1 .. k /\ j - 1 < j
      BY <1>1, <2>1, <2>4
    <3>2. spans[j] < spans[j - 1] /\ spans[j] \in Powers /\ spans[j - 1] \in Powers
      BY <1>1, <1>4, <2>1, <3>1
    <3>3. 2 * spans[j] <= spans[j - 1]
      BY <3>2, PowersApart
    <3>4. spans[j] \in Nat /\ spans[j - 1] \in Nat
      BY <1>1, <2>1, <3>1
    <3> HIDE DEF Left
    <3> QED BY <2>2, <2>3, <3>3, <3>4
  <2>5. Left(j) \in Nat
    <3> HIDE DEF Left
    <3> QED BY <1>1, <2>1, <2>2, <2>3
  <2>6. Short(k + 1 - (t + 1))
    <3> HIDE DEF Left
    <3> QED BY <2>1, <2>4, <2>5
  <2> QED BY <1>1, <2>6
<1>7. \A t \in 0 .. k : t \in T
  <2> HIDE DEF T
  <2> QED BY <1>1, <1>5, <1>6, IntervalInduction
<1>8. ASSUME NEW j \in 1 .. k + 1 PROVE Short(j)
  <2>1. k + 1 - j \in 0 .. k /\ k + 1 - (k + 1 - j) = j
    BY <1>1
  <2>2. k + 1 - j \in T
    BY <1>7, <2>1
  <2> DEFINE t == k + 1 - j
  <2>3. Short(k + 1 - t)
    BY <2>2
  <2> QED BY <2>1, <2>3
<1>9. ASSUME NEW j \in 1 .. k
      PROVE  greatestSpan(Left(j)) = spans[j] /\ Left(j) \in 1 .. n /\ Left(j) - spans[j] = Left(j + 1)
             /\ n - Left(j) = st[j]
  <2>1. j \in 1 .. k + 1 /\ j + 1 \in 1 .. k + 1 /\ j + 1 > 1 /\ j + 1 - 1 = j
    BY <1>1
  <2>2. Left(j + 1) \in Nat /\ Left(j + 1) < spans[j] /\ Left(j) \in Nat
    <3>1. Short(j + 1) /\ Short(j)
      BY <1>8, <2>1
    <3> HIDE DEF Left
    <3> QED BY <2>1, <3>1
  <2>3. st[j + 1] = st[j] + spans[j] /\ st[j] \in Nat /\ st[j + 1] \in Nat /\ spans[j] \in Powers
        /\ spans[j] \in Nat /\ spans[j] >= 1
    BY <1>1, <1>4, <2>1
  <2>4. Left(j) - spans[j] = Left(j + 1) /\ n - Left(j) = st[j] /\ Left(j) <= n
    BY <2>3
  <2>5. spans[j] <= Left(j) /\ Left(j) < 2 * spans[j] /\ Left(j) \in 1 .. n
    <3> HIDE DEF Left
    <3> QED BY <2>2, <2>3, <2>4
  <2> HIDE DEF Left
  <2> QED BY <2>2, <2>3, <2>4, <2>5, GreatestSpanUnique
<1> DEFINE U == {t \in 0 .. k : g[Left(k + 1 - t)] = Rest(k + 1 - t)}
<1>10. 0 \in U
  <2>1. k + 1 - 0 = k + 1 /\ Left(k + 1) = 0
    BY <1>1, <1>4
  <2>2. g[0] = <<>>
    BY <1>3 DEF IsPeaked
  <2>3. Rest(k + 1) = <<>>
    <3>1. 1 .. k + 1 - (k + 1) = {}
      BY <1>1
    <3>2. Rest(k + 1) = [i \in {} |-> Peak(i + (k + 1) - 1)]
      BY <3>1
    <3> QED BY <3>2
  <2> HIDE DEF Left, Rest
  <2> QED BY <1>1, <2>1, <2>2, <2>3
<1>11. ASSUME NEW t \in 0 .. (k - 1), t \in U PROVE t + 1 \in U
  <2> DEFINE j == k - t
  <2>1. j \in 1 .. k /\ k + 1 - (t + 1) = j /\ k + 1 - t = j + 1 /\ k + 1 - (j + 1) = k - j
        /\ k - j \in Nat /\ k + 1 - j = (k - j) + 1
    BY <1>1
  <2> HIDE DEF j
  <2>2. g[Left(j + 1)] = Rest(j + 1)
    BY <1>11, <2>1
  <2>3. g[Left(j)] = <<Peak(j)>> \o Rest(j + 1)
    <3> HIDE DEF Left, Rest
    <3>1. Left(j) \in 0 .. n /\ Left(j) # 0 /\ greatestSpan(Left(j)) = spans[j]
          /\ Left(j) - greatestSpan(Left(j)) = Left(j + 1) /\ n - Left(j) = st[j]
      BY <1>9, <2>1
    <3>2. g[Left(j)] = <<[start |-> n - Left(j), span |-> greatestSpan(Left(j))]>>
                         \o g[Left(j) - greatestSpan(Left(j))]
      BY <1>3, <3>1 DEF IsPeaked
    <3> QED BY <2>2, <3>1, <3>2
  <2>4. Rest(j + 1) = [i \in 1 .. k - j |-> Peak(i + (j + 1) - 1)]
    BY <2>1
  <2>5. PICK S : Rest(j + 1) \in Seq(S) /\ Len(Rest(j + 1)) = k - j
    <3> DEFINE S == {Peak(i) : i \in 1 .. k}
    <3> HIDE DEF Peak
    <3> DEFINE m == k - j
               F(i) == Peak(i + (j + 1) - 1)
    <3>1. ASSUME NEW i \in 1 .. m PROVE F(i) \in S
      <4>1. i + (j + 1) - 1 \in 1 .. k
        BY <1>1, <2>1
      <4> QED BY <4>1
    <3> HIDE DEF S, Rest
    <3>2. [i \in 1 .. m |-> F(i)] \in Seq(S)
      <4>1. m \in Nat
        BY <2>1
      <4> HIDE DEF m, F
      <4>2. [i \in 1 .. m |-> F(i)] \in [1 .. m -> S]
        BY <3>1
      <4> QED BY <4>1, <4>2
    <3>3. Rest(j + 1) \in Seq(S)
      BY <2>4, <3>2
    <3>4. Len(Rest(j + 1)) = k - j
      BY <2>1, <2>4, <3>3
    <3> QED BY <3>3, <3>4
  <2>6. <<Peak(j)>> \o Rest(j + 1)
          = [i \in 1 .. (k - j) + 1 |-> IF i = 1 THEN Peak(j) ELSE Rest(j + 1)[i - 1]]
    <3> HIDE DEF Rest, Peak
    <3> QED BY <2>5, Consed
  <2>7. ASSUME NEW i \in 1 .. (k - j) + 1
        PROVE  (IF i = 1 THEN Peak(j) ELSE Rest(j + 1)[i - 1]) = Peak(i + j - 1)
    <3>1. i = 1 => i + j - 1 = j
      BY <2>1
    <3>2. i # 1 => i - 1 \in 1 .. k - j /\ (i - 1) + (j + 1) - 1 = i + j - 1
      BY <2>1
    <3> HIDE DEF Rest, Peak
    <3> QED BY <2>4, <3>1, <3>2
  <2>8. <<Peak(j)>> \o Rest(j + 1) = [i \in 1 .. (k - j) + 1 |-> Peak(i + j - 1)]
    <3> HIDE DEF Rest, Peak
    <3> QED BY <2>6, <2>7
  <2>9. Rest(j) = [i \in 1 .. (k - j) + 1 |-> Peak(i + j - 1)]
    BY <2>1
  <2> HIDE DEF Rest, Peak, Left
  <2>10. g[Left(j)] = Rest(j)
    BY <2>3, <2>8, <2>9
  <2>11. t + 1 \in 0 .. k /\ g[Left(k + 1 - (t + 1))] = Rest(k + 1 - (t + 1))
    BY <1>1, <2>1, <2>10
  <2> QED BY <2>11
<1>12. \A t \in 0 .. k : t \in U
  <2> HIDE DEF U
  <2> QED BY <1>1, <1>10, <1>11, IntervalInduction
<1>13. g[Left(1)] = Rest(1)
  <2> HIDE DEF Left, Rest
  <2>1. k \in 0 .. k /\ k + 1 - k = 1
    BY <1>1
  <2>2. g[Left(k + 1 - k)] = Rest(k + 1 - k)
    BY <1>12, <2>1
  <2> QED BY <2>1, <2>2
<1>14. Left(1) = n
  OBVIOUS
<1>15. Rest(1) = [i \in 1 .. k |-> Peak(i)]
  <2>1. k + 1 - 1 = k /\ \A i \in 1 .. k : i + 1 - 1 = i
    BY <1>1
  <2> HIDE DEF Peak
  <2> QED BY <2>1
<1>16. ASSUME NEW j \in 1 .. k + 1 PROVE st[j] <= n
  BY <1>4, <1>8
<1> QED BY <1>2, <1>13, <1>14, <1>15, <1>16 DEF k

\* The peaks that grew with a log are the subtrees a prover finds from its length
\* alone; each lies within the log, and together they cover it.
LEMMA PeaksAre ==
  ASSUME NEW entries \in Seq(Data)
  PROVE  LET peaks == peakSpans(Len(entries))
         IN  /\ \E k \in Nat : DOMAIN peaks = 1 .. k
             /\ treeOf(entries).peaks
                  = [i \in DOMAIN peaks |-> subtreeRoot(entries, peaks[i].start, peaks[i].span)]
             /\ \A i \in DOMAIN peaks :
                  /\ peaks[i].start \in Nat /\ peaks[i].span \in Powers
                  /\ peaks[i].start + peaks[i].span <= Len(entries)
             /\ \A i \in 0 .. Len(entries) - 1 : \E j \in DOMAIN peaks :
                  i >= peaks[j].start /\ i < peaks[j].start + peaks[j].span
<1> DEFINE tree == treeOf(entries)
           n == Len(entries)
           peaks == peakSpans(n)
           spans == tree.spans
           k == Len(spans)
<1>1. TreeOver(tree, entries, n) /\ n \in Nat
  BY TreeOfIs
<1> HIDE DEF tree, n
<1>2. PICK st : Tiles(tree.peaks, spans, st, entries, n)
  BY <1>1 DEF TreeOver
<1>3. Decreasing(spans)
  BY <1>1 DEF TreeOver
<1>4. PICK S : tree.peaks \in Seq(S)
  BY <1>2 DEF Tiles
<1>5. /\ spans \in Seq(Powers) /\ k \in Nat /\ Len(tree.peaks) = k
      /\ st \in [1 .. k + 1 -> Nat] /\ st[1] = 0 /\ st[k + 1] = n
      /\ \A i \in 1 .. k : st[i + 1] = st[i] + spans[i]
      /\ \A i \in 1 .. k : tree.peaks[i] = subtreeRoot(entries, st[i], spans[i])
  BY <1>2 DEF Tiles
<1> HIDE DEF spans, peaks
<1>6. /\ peaks = [i \in 1 .. k |-> [start |-> st[i], span |-> spans[i]]]
      /\ \A j \in 1 .. k + 1 : st[j] <= n
  BY <1>1, <1>3, <1>5, PeakSpansAre DEF peaks
<1>7. \A i \in 1 .. k : spans[i] \in Powers /\ spans[i] \in Nat
  BY <1>5, PowersDouble
<1> HIDE DEF k
<1>8. DOMAIN peaks = 1 .. k /\ \A i \in 1 .. k : peaks[i].start = st[i] /\ peaks[i].span = spans[i]
  BY <1>6
<1>9. tree.peaks = [i \in DOMAIN peaks |-> subtreeRoot(entries, peaks[i].start, peaks[i].span)]
  <2> DEFINE f == tree.peaks
             F(i) == subtreeRoot(entries, peaks[i].start, peaks[i].span)
  <2>1. ASSUME NEW i \in 1 .. k PROVE f[i] = F(i)
    BY <1>5, <1>8
  <2>2. f = [i \in 1 .. k |-> f[i]]
    <3> HIDE DEF f
    <3>1. f \in Seq(S) /\ Len(f) = k
      BY <1>4, <1>5 DEF f
    <3> QED BY <3>1
  <2> HIDE DEF f, F
  <2>3. f = [i \in 1 .. k |-> F(i)]
    BY <2>1, <2>2
  <2>4. f = [i \in DOMAIN peaks |-> F(i)]
    BY <1>8, <2>3
  <2> QED BY <2>4 DEF f, F
<1>10. ASSUME NEW i \in DOMAIN peaks
       PROVE  peaks[i].start \in Nat /\ peaks[i].span \in Powers /\ peaks[i].start + peaks[i].span <= n
  <2>1. i \in 1 .. k /\ i \in 1 .. k + 1 /\ i + 1 \in 1 .. k + 1
    BY <1>5, <1>8
  <2>2. st[i] \in Nat /\ st[i + 1] = st[i] + spans[i] /\ st[i + 1] <= n
    BY <1>5, <1>6, <2>1
  <2> QED BY <1>7, <1>8, <2>1, <2>2
<1>11. ASSUME NEW i \in 0 .. n - 1
       PROVE  \E j \in DOMAIN peaks : i >= peaks[j].start /\ i < peaks[j].start + peaks[j].span
  <2> DEFINE U == {j \in 1 .. k : st[j] <= i}
  <2>1. k >= 1
    <3>1. k = 0 => st[k + 1] = 0
      BY <1>5
    <3> QED BY <1>1, <1>5, <3>1
  <2>2. 1 \in U
    BY <1>5, <2>1
  <2>3. U \in SUBSET (0 .. k)
    BY <1>5
  <2>4. PICK j \in U : \A y \in U : y <= j
    <3> HIDE DEF U
    <3> QED BY <1>5, <2>2, <2>3, BoundedMax
  <2>5. j \in 1 .. k /\ st[j] <= i /\ j + 1 \in 1 .. k + 1 /\ st[j + 1] \in Nat
    BY <1>5, <2>4
  <2>6. st[j + 1] > i
    <3>1. CASE j = k
      BY <1>1, <1>5, <3>1
    <3>2. CASE j # k
      <4>1. j + 1 \in 1 .. k /\ ~(j + 1 <= j)
        BY <1>5, <2>5, <3>2
      <4>2. j + 1 \notin U
        <5> HIDE DEF U
        <5> QED BY <2>4, <4>1
      <4>3. ~(st[j + 1] <= i)
        BY <4>1, <4>2
      <4> QED BY <2>5, <4>3
    <3> QED BY <3>1, <3>2
  <2>7. st[j + 1] = st[j] + spans[j] /\ j \in DOMAIN peaks /\ peaks[j].start = st[j] /\ peaks[j].span = spans[j]
    BY <1>5, <1>8, <2>5
  <2>8. st[j] \in Nat
    BY <1>5, <2>5
  <2> QED BY <2>5, <2>6, <2>7, <2>8
<1>12. \E m \in Nat : DOMAIN peaks = 1 .. m
  BY <1>5, <1>8
<1> QED BY <1>9, <1>10, <1>11, <1>12 DEF tree, n, peaks

-----------------------------------------------------------------------------
(***************************************************************************)
(* Inclusion proofs.                                                       *)
(***************************************************************************)

\* No siblings stand beside a subtree of one leaf.
LEMMA SiblingsLeaf ==
  ASSUME NEW entries \in Seq(Data), Len(entries) >= 1, NEW i, NEW lo \in Nat
  PROVE  Siblings(entries, i, lo, 1) = <<>>
<1> DEFINE n == Len(entries)
           g == CHOOSE h : IsBelow(h, entries, i, n)
<1>1. Siblings(entries, i, lo, 1) = g[1][lo]
  BY DEF Siblings, IsBelow
<1>2. n \in Nat
  OBVIOUS
<1>3. IsBelow(g, entries, i, n)
  <2> HIDE DEF n
  <2>1. \E h : IsBelow(h, entries, i, n)
    BY <1>2, BelowExists
  <2> QED BY <2>1
<1> HIDE DEF g
<1>4. g[1] = [x \in Nat |-> <<>>]
  BY <1>2, <1>3 DEF IsBelow
<1> QED BY <1>1, <1>4

\* The sibling below a larger subtree's root is the half the leaf is not in.
LEMMA SiblingsOver ==
  ASSUME NEW entries \in Seq(Data), NEW i, NEW lo \in Nat, NEW s \in 2 .. Len(entries)
  PROVE  LET half == s \div 2
         IN  Siblings(entries, i, lo, s)
               = IF i >= lo + half
                 THEN <<[node |-> subtreeRoot(entries, lo, half), isLeft |-> TRUE]>>
                        \o Siblings(entries, i, lo + half, half)
                 ELSE <<[node |-> subtreeRoot(entries, lo + half, half), isLeft |-> FALSE]>>
                        \o Siblings(entries, i, lo, half)
<1> DEFINE n == Len(entries)
           g == CHOOSE h : IsBelow(h, entries, i, n)
           half == s \div 2
           L(x) == [node |-> subtreeRoot(entries, x, half), isLeft |-> TRUE]
           R(x) == [node |-> subtreeRoot(entries, x + half, half), isLeft |-> FALSE]
<1>1. \A y, x : Siblings(entries, i, y, x) = g[x][y]
  BY DEF Siblings, IsBelow
<1>2. n \in Nat
  OBVIOUS
<1>3. IsBelow(g, entries, i, n)
  <2> HIDE DEF n
  <2>1. \E h : IsBelow(h, entries, i, n)
    BY <1>2, BelowExists
  <2> QED BY <2>1
<1> HIDE DEF g
<1>4. s \in 1 .. n /\ s # 1
  BY <1>2
<1>5. g[s] = [x \in Nat |-> IF i >= x + half THEN <<L(x)>> \o g[half][x + half]
                            ELSE <<R(x)>> \o g[half][x]]
  BY <1>2, <1>3, <1>4 DEF IsBelow
<1> HIDE DEF L, R, half
<1>6. g[s][lo] = IF i >= lo + half THEN <<L(lo)>> \o g[half][lo + half]
                 ELSE <<R(lo)>> \o g[half][lo]
  BY <1>5
<1> QED BY <1>1, <1>6 DEF L, R, half

\* Folding no siblings.
LEMMA FoldNone == ASSUME NEW node PROVE Fold(node, <<>>) = node
<1> DEFINE g == CHOOSE h : IsFolded(h, node, <<>>, Len(<<>>))
<1>1. Fold(node, <<>>) = g[Len(<<>>)]
  BY DEF Fold, IsFolded
<1>2. Len(<<>>) = 0
  OBVIOUS
<1>3. IsFolded(g, node, <<>>, 0)
  <2>1. \E h : IsFolded(h, node, <<>>, 0)
    BY FoldedExists
  <2> QED BY <1>2, <2>1
<1> HIDE DEF g
<1>4. g[0] = node
  BY <1>3 DEF IsFolded
<1> QED BY <1>1, <1>2, <1>4

\* The sibling at the front is the last one folded.
LEMMA FoldCons ==
  ASSUME NEW S, NEW rest \in Seq(S), NEW x, NEW node
  PROVE  Fold(node, <<x>> \o rest) = Parent(Fold(node, rest), x)
<1> DEFINE m == Len(rest)
           all == <<x>> \o rest
           g == CHOOSE h : IsFolded(h, node, rest, m)
           f == CHOOSE h : IsFolded(h, node, all, Len(all))
<1>1. Fold(node, rest) = g[m]
  BY DEF Fold, IsFolded
<1>2. Fold(node, all) = f[Len(all)]
  BY DEF Fold, IsFolded
<1>3. m \in Nat /\ Len(all) = m + 1 /\ all[1] = x /\ \A i \in 1 .. m : all[i + 1] = rest[i]
  BY Consed
<1> HIDE DEF m, all
<1>4. IsFolded(g, node, rest, m)
  <2>1. \E h : IsFolded(h, node, rest, m)
    BY <1>3, FoldedExists
  <2> QED BY <2>1
<1>5. IsFolded(f, node, all, m + 1)
  <2>1. m + 1 \in Nat
    BY <1>3
  <2>2. \E h : IsFolded(h, node, all, m + 1)
    BY <2>1, FoldedExists
  <2> QED BY <1>3, <2>2
<1> HIDE DEF f, g
<1> DEFINE T == {t \in 0 .. m : f[t] = g[t]}
<1>6. 0 \in T
  <2>1. f[0] = node
    BY <1>3, <1>5 DEF IsFolded
  <2>2. g[0] = node
    BY <1>3, <1>4 DEF IsFolded
  <2> QED BY <1>3, <2>1, <2>2
<1>7. ASSUME NEW t \in 0 .. (m - 1), t \in T PROVE t + 1 \in T
  <2>1. g[t + 1] = Parent(g[t], rest[m + 1 - (t + 1)])
    <3>1. t + 1 \in 0 .. m /\ t + 1 # 0 /\ t + 1 - 1 = t
      BY <1>3
    <3> QED BY <1>4, <3>1 DEF IsFolded, m
  <2>2. f[t + 1] = Parent(f[t], all[(m + 1) + 1 - (t + 1)])
    <3>1. t + 1 \in 0 .. m + 1 /\ t + 1 # 0 /\ t + 1 - 1 = t
      BY <1>3
    <3> QED BY <1>3, <1>5, <3>1 DEF IsFolded
  <2>3. all[(m + 1) + 1 - (t + 1)] = rest[m + 1 - (t + 1)]
    <3>1. m + 1 - (t + 1) \in 1 .. m /\ (m + 1) + 1 - (t + 1) = (m + 1 - (t + 1)) + 1
      BY <1>3
    <3> QED BY <1>3, <3>1
  <2> QED BY <1>3, <1>7, <2>1, <2>2, <2>3
<1>8. \A t \in 0 .. m : t \in T
  <2> HIDE DEF T
  <2> QED BY <1>3, <1>6, <1>7, IntervalInduction
<1>9. f[m] = g[m]
  BY <1>3, <1>8
<1>10. f[m + 1] = Parent(f[m], x)
  <2>1. m + 1 \in 0 .. m + 1 /\ m + 1 # 0 /\ (m + 1) - 1 = m /\ (m + 1) + 1 - (m + 1) = 1
    BY <1>3
  <2>2. f[m + 1] = Parent(f[(m + 1) - 1], all[(m + 1) + 1 - (m + 1)])
    <3> DEFINE l == m + 1
    <3>1. l \in 0 .. l /\ l # 0 /\ Len(all) = l
      BY <1>3, <2>1
    <3> HIDE DEF l
    <3>2. f[l] = Parent(f[l - 1], all[l + 1 - l])
      BY <1>5, <3>1 DEF IsFolded, l
    <3> QED BY <3>2 DEF l
  <2> QED BY <1>3, <2>1, <2>2
<1> QED BY <1>1, <1>2, <1>3, <1>9, <1>10 DEF all

\* A node as the one who verifies a proof starts from it.
Start(d) == [hash |-> leafHash(d), index |-> 0, size |-> SizeOf[d]]

\* Two nodes cover the same: indexes aside, which a verifier does not keep.
Covers(x, y) == x.hash = y.hash /\ x.size = y.size

\* A node over nodes that cover the same covers the same.
LEMMA OverCovers ==
  ASSUME NEW x, NEW y, NEW z, NEW i, NEW j, Covers(x, y)
  PROVE  Covers(Over(x, z, i), Over(y, z, j)) /\ Covers(Over(z, x, i), Over(z, y, j))
BY DEF Covers, Over, parentHash

\* The siblings a prover finds fold up to the subtree.
LEMMA PathFolds ==
  ASSUME NEW entries \in Seq(Data), NEW s \in Powers, NEW lo \in Nat, lo + s <= Len(entries),
         NEW i \in lo .. lo + s - 1
  PROVE  /\ \E S : Siblings(entries, i, lo, s) \in Seq(S)
         /\ Covers(Fold(Start(entries[i + 1]), Siblings(entries, i, lo, s)), subtreeRoot(entries, lo, s))
<1> DEFINE n == Len(entries)
           Good(p, l, x) == /\ \E S : Siblings(entries, x, l, p) \in Seq(S)
                            /\ Covers(Fold(Start(entries[x + 1]), Siblings(entries, x, l, p)),
                                      subtreeRoot(entries, l, p))
           T == {p \in Powers : \A l \in Nat : l + p <= n => \A x \in l .. l + p - 1 : Good(p, l, x)}
<1>1. n \in Nat /\ \A p \in Powers : p \in Nat /\ p >= 1 /\ 2 * p \in Powers
  BY PowersDouble
<1>2. 1 \in T
  <2>1. SUFFICES ASSUME NEW l \in Nat, l + 1 <= n, NEW x \in l .. l + 1 - 1 PROVE Good(1, l, x)
    BY PowersDouble
  <2>2. x = l /\ n >= 1
    BY <1>1, <2>1
  <2>3. Siblings(entries, x, l, 1) = <<>>
    BY <2>2, SiblingsLeaf
  <2>4. subtreeRoot(entries, l, 1) = LeafNode(entries[l + 1], l)
    BY <2>2, SubtreeLeaf
  <2>5. Covers(Start(entries[x + 1]), LeafNode(entries[l + 1], l))
    BY <2>2 DEF Covers, Start, LeafNode
  <2>6. Fold(Start(entries[x + 1]), <<>>) = Start(entries[x + 1])
    BY FoldNone
  <2>7. <<>> \in Seq({})
    OBVIOUS
  <2> QED BY <2>3, <2>4, <2>5, <2>6, <2>7
<1>3. ASSUME NEW p \in Powers, p \in T PROVE 2 * p \in T
  <2>1. SUFFICES ASSUME NEW l \in Nat, l + 2 * p <= n, NEW x \in l .. l + 2 * p - 1 PROVE Good(2 * p, l, x)
    BY <1>1
  <2> DEFINE leaf == Start(entries[x + 1])
             left == subtreeRoot(entries, l, p)
             right == subtreeRoot(entries, l + p, p)
             whole == subtreeRoot(entries, l, 2 * p)
  <2>2. /\ p \in Nat /\ p >= 1 /\ 2 * p \in 2 .. n /\ (2 * p) \div 2 = p
        /\ l + p \in Nat /\ (l + p) + p <= n /\ l + p <= n /\ x \in Nat
    BY <1>1, <2>1
  <2>3. whole = Over(left, right, flatIndex(l, 2 * p))
    BY <2>2, SubtreeOver
  <2>4. Siblings(entries, x, l, 2 * p)
          = IF x >= l + p
            THEN <<[node |-> left, isLeft |-> TRUE]>> \o Siblings(entries, x, l + p, p)
            ELSE <<[node |-> right, isLeft |-> FALSE]>> \o Siblings(entries, x, l, p)
    <3> DEFINE w == 2 * p
               half == w \div 2
    <3>1. w \in 2 .. n /\ half = p
      BY <2>2
    <3> HIDE DEF w
    <3>2. Siblings(entries, x, l, w)
            = IF x >= l + half
              THEN <<[node |-> subtreeRoot(entries, l, half), isLeft |-> TRUE]>>
                     \o Siblings(entries, x, l + half, half)
              ELSE <<[node |-> subtreeRoot(entries, l + half, half), isLeft |-> FALSE]>>
                     \o Siblings(entries, x, l, half)
      BY <3>1, SiblingsOver
    <3> HIDE DEF half
    <3> QED BY <3>1, <3>2 DEF w
  <2>5. \A b \in Nat : b + p <= n => \A y \in b .. b + p - 1 : Good(p, b, y)
    BY <1>3
  <2> HIDE DEF left, right, whole, leaf
  <2>6. CASE x >= l + p
    <3> DEFINE rest == Siblings(entries, x, l + p, p)
               node == Fold(leaf, rest)
               sib == [node |-> left, isLeft |-> TRUE]
    <3>1. x \in (l + p) .. (l + p) + p - 1
      BY <2>1, <2>2, <2>6
    <3>2. Good(p, l + p, x)
      <4> HIDE DEF Good
      <4> QED BY <2>2, <2>5, <3>1
    <3>3. (\E S : rest \in Seq(S)) /\ Covers(node, right)
      BY <3>2 DEF leaf, right
    <3>4. PICK S : rest \in Seq(S)
      BY <3>3
    <3>5. Siblings(entries, x, l, 2 * p) = <<sib>> \o rest
      BY <2>4, <2>6
    <3>6. sib.isLeft = TRUE /\ sib.node = left
      OBVIOUS
    <3> HIDE DEF rest, sib, node
    <3>7. <<sib>> \o rest \in Seq(S \cup {sib})
      BY <3>4, Consed
    <3>8. Fold(leaf, <<sib>> \o rest) = Parent(node, sib)
      BY <3>4, FoldCons DEF node
    <3>9. Parent(node, sib) = Over(left, node, 0)
      BY <3>6 DEF Parent
    <3>10. Covers(Over(left, node, 0), whole)
      BY <2>3, <3>3, OverCovers
    <3> QED BY <3>5, <3>7, <3>8, <3>9, <3>10 DEF leaf, whole
  <2>7. CASE ~(x >= l + p)
    <3> DEFINE rest == Siblings(entries, x, l, p)
               node == Fold(leaf, rest)
               sib == [node |-> right, isLeft |-> FALSE]
    <3>1. x \in l .. l + p - 1
      BY <2>1, <2>2, <2>7
    <3>2. Good(p, l, x)
      <4> HIDE DEF Good
      <4> QED BY <2>2, <2>5, <3>1
    <3>3. (\E S : rest \in Seq(S)) /\ Covers(node, left)
      BY <3>2 DEF leaf, left
    <3>4. PICK S : rest \in Seq(S)
      BY <3>3
    <3>5. Siblings(entries, x, l, 2 * p) = <<sib>> \o rest
      BY <2>4, <2>7
    <3>6. sib.isLeft = FALSE /\ sib.node = right
      OBVIOUS
    <3> HIDE DEF rest, sib, node
    <3>7. <<sib>> \o rest \in Seq(S \cup {sib})
      BY <3>4, Consed
    <3>8. Fold(leaf, <<sib>> \o rest) = Parent(node, sib)
      BY <3>4, FoldCons DEF node
    <3>9. Parent(node, sib) = Over(node, right, 0)
      BY <3>6 DEF Parent
    <3>10. Covers(Over(node, right, 0), whole)
      BY <2>3, <3>3, OverCovers
    <3> QED BY <3>5, <3>7, <3>8, <3>9, <3>10 DEF leaf, whole
  <2> QED BY <2>6, <2>7
<1>4. \A p \in Powers : p \in T
  <2> HIDE DEF T
  <2> QED BY <1>2, <1>3, PowersInduction
<1>5. s \in T
  BY <1>4
<1> QED BY <1>5

\* What a prover makes of a log: the peaks it grew with, and siblings.
LEMMA ProofShape ==
  ASSUME NEW entries \in Seq(Data), NEW i \in 0 .. Len(entries) - 1
  PROVE  LET proof == proveInclusion(entries, i)
         IN  /\ proof.roots = treeOf(entries).peaks
             /\ \E S : proof.siblings \in Seq(S)
             /\ verifyInclusion(entries[i + 1], proof, root(treeOf(entries)))
<1> DEFINE n == Len(entries)
           peaks == peakSpans(n)
           j == CHOOSE c \in DOMAIN peaks : i >= peaks[c].start /\ i < peaks[c].start + peaks[c].span
           roots == [c \in DOMAIN peaks |-> subtreeRoot(entries, peaks[c].start, peaks[c].span)]
           siblings == Siblings(entries, i, peaks[j].start, peaks[j].span)
           proof == proveInclusion(entries, i)
           d == entries[i + 1]
<1>1. /\ treeOf(entries).peaks = roots
      /\ \A c \in DOMAIN peaks :
           peaks[c].start \in Nat /\ peaks[c].span \in Powers /\ peaks[c].start + peaks[c].span <= n
      /\ \E c \in DOMAIN peaks : i >= peaks[c].start /\ i < peaks[c].start + peaks[c].span
  <2>1. \A x \in 0 .. n - 1 : \E c \in DOMAIN peaks : x >= peaks[c].start /\ x < peaks[c].start + peaks[c].span
    BY PeaksAre
  <2>2. i \in 0 .. n - 1
    OBVIOUS
  <2> HIDE DEF n, peaks
  <2>3. \E c \in DOMAIN peaks : i >= peaks[c].start /\ i < peaks[c].start + peaks[c].span
    BY <2>1, <2>2
  <2> QED BY <2>3, PeaksAre DEF n, peaks
<1>2. proof = [leafIndex |-> i, leafSize |-> SizeOf[d], siblings |-> siblings, roots |-> roots, rootIndex |-> j]
  BY DEF proveInclusion
<1> HIDE DEF peaks, n
<1>3. j \in DOMAIN peaks /\ i >= peaks[j].start /\ i < peaks[j].start + peaks[j].span
  BY <1>1
<1> HIDE DEF j
<1> DEFINE lo == peaks[j].start
           s == peaks[j].span
<1>4. lo \in Nat /\ s \in Powers /\ s \in Nat /\ lo + s <= n /\ i \in Nat /\ n \in Nat
  BY <1>1, <1>3, PowersDouble DEF n
<1>5. i \in lo .. lo + s - 1
  BY <1>3, <1>4
<1>6. roots[j] = subtreeRoot(entries, lo, s) /\ j \in DOMAIN roots
  BY <1>3
<1>7. (\E S : siblings \in Seq(S)) /\ Covers(Fold(Start(d), siblings), roots[j])
  <2> HIDE DEF roots, lo, s
  <2>1. lo + s <= Len(entries)
    BY <1>4 DEF n
  <2>2. /\ \E S : Siblings(entries, i, lo, s) \in Seq(S)
        /\ Covers(Fold(Start(entries[i + 1]), Siblings(entries, i, lo, s)), subtreeRoot(entries, lo, s))
    BY <1>4, <1>5, <2>1, PathFolds
  <2> QED BY <1>6, <2>2 DEF lo, s
<1> HIDE DEF roots, siblings, proof, d
<1>8. proof.leafSize = SizeOf[d] /\ proof.siblings = siblings /\ proof.roots = roots /\ proof.rootIndex = j
  BY <1>2
<1>9. verifyInclusion(d, proof, root(treeOf(entries)))
  <2>1. Fold([hash |-> leafHash(d), index |-> 0, size |-> SizeOf[d]], proof.siblings).hash
          = proof.roots[proof.rootIndex].hash
    BY <1>7, <1>8 DEF Covers, Start
  <2>2. treeHash(proof.roots) = root(treeOf(entries))
    BY <1>1, <1>8 DEF root
  <2> QED BY <1>6, <1>8, <2>1, <2>2 DEF verifyInclusion
<1> QED BY <1>1, <1>7, <1>8, <1>9 DEF proof, d

\* Everything a prover makes of any log verifies against the tree that grew over it.
LEMMA TreesAgreeOn ==
  ASSUME log \in [Peers -> Seq(Data)]
  PROVE  TreesAgree
<1> SUFFICES ASSUME NEW p \in Peers, NEW q \in Peers
             PROVE  LET entries == log[p] \o log[q]
                        spans == peakSpans(Len(entries))
                        grown == treeOf(entries)
                    IN  /\ grown.peaks = [i \in DOMAIN spans |->
                                             subtreeRoot(entries, spans[i].start, spans[i].span)]
                        /\ \A i \in 0 .. Len(entries) - 1 :
                             verifyInclusion(entries[i + 1], proveInclusion(entries, i), root(grown))
  BY DEF TreesAgree
<1> DEFINE entries == log[p] \o log[q]
<1>1. entries \in Seq(Data)
  OBVIOUS
<1> HIDE DEF entries
<1>2. \A i \in 0 .. Len(entries) - 1 :
         verifyInclusion(entries[i + 1], proveInclusion(entries, i), root(treeOf(entries)))
  BY <1>1, ProofShape
<1> QED BY <1>1, <1>2, PeaksAre DEF entries

\* A leaf's hash is no parent's, and a parent's hash tells its children's.
LEMMA HashesTell ==
  ASSUME NEW x, NEW y, NEW u, NEW v, NEW d, NEW e, NEW i
  PROVE  /\ Over(x, y, i).hash # leafHash(d)
         /\ Over(x, y, i).hash = Over(u, v, 0).hash => x.hash = u.hash /\ y.hash = v.hash
         /\ leafHash(d) = leafHash(e) => d = e
<1>1. Over(x, y, i).hash = <<"parent", x.size + y.size, x.hash, y.hash>>
      /\ Over(u, v, 0).hash = <<"parent", u.size + v.size, u.hash, v.hash>>
  BY DEF Over, parentHash
<1>2. leafHash(d) = <<"leaf", SizeOf[d], d>> /\ leafHash(e) = <<"leaf", SizeOf[e], e>>
  BY DEF leafHash
<1> DEFINE P(a, b, c) == <<"parent", a, b, c>>
<1>3. \A a, b, c : P(a, b, c)[1] = "parent" /\ P(a, b, c)[3] = b /\ P(a, b, c)[4] = c
  OBVIOUS
<1>4. leafHash(d)[1] = "leaf" /\ leafHash(d)[3] = d /\ leafHash(e)[3] = e
  BY <1>2
<1>5. Over(x, y, i).hash = P(x.size + y.size, x.hash, y.hash)
      /\ Over(u, v, 0).hash = P(u.size + v.size, u.hash, v.hash)
  BY <1>1
<1> HIDE DEF P
<1>6. Over(x, y, i).hash[1] = "parent" /\ Over(x, y, i).hash[3] = x.hash /\ Over(x, y, i).hash[4] = y.hash
  BY <1>3, <1>5
<1>7. Over(u, v, 0).hash[3] = u.hash /\ Over(u, v, 0).hash[4] = v.hash
  BY <1>3, <1>5
<1>8. "parent" # "leaf"
  OBVIOUS
<1> QED BY <1>4, <1>6, <1>7, <1>8

\* A leaf's hash tells the leaf, and is no parent's.
LEMMA LeafTells ==
  ASSUME NEW d
  PROVE  /\ \A e : leafHash(d) = leafHash(e) => d = e
         /\ \A x, y, i : Over(x, y, i).hash # leafHash(d)
BY HashesTell

\* Only a leaf of the subtree, or of one below it, folds up to it, whatever the
\* siblings that are shown.
LEMMA FoldSound ==
  ASSUME NEW entries \in Seq(Data), NEW S, NEW siblings \in Seq(S), NEW d,
         NEW lo \in Nat, NEW s \in Powers, lo + s <= Len(entries),
         Fold(Start(d), siblings).hash = subtreeRoot(entries, lo, s).hash
  PROVE  \E i \in 1 .. Len(entries) : entries[i] = d
<1> DEFINE n == Len(entries)
           m == Len(siblings)
           g == CHOOSE h : IsFolded(h, Start(d), siblings, m)
           T == {t \in 0 .. m : \E b \in Nat, p \in Powers :
                                  b + p <= n /\ g[m - t].hash = subtreeRoot(entries, b, p).hash}
<1>1. n \in Nat /\ m \in Nat
  OBVIOUS
<1>2. Fold(Start(d), siblings) = g[m]
  BY DEF Fold, IsFolded
<1>3. IsFolded(g, Start(d), siblings, m)
  <2> HIDE DEF m
  <2>1. \E h : IsFolded(h, Start(d), siblings, m)
    BY <1>1, FoldedExists
  <2> QED BY <2>1
<1> HIDE DEF g
<1>4. 0 \in T
  <2>1. m - 0 = m /\ 0 \in 0 .. m
    BY <1>1
  <2>2. g[m].hash = subtreeRoot(entries, lo, s).hash /\ lo + s <= n
    BY <1>2
  <2> HIDE DEF m, n
  <2> QED BY <2>1, <2>2
<1>5. ASSUME NEW t \in 0 .. (m - 1), t \in T PROVE t + 1 \in T
  <2> DEFINE k == m - t
             x == siblings[m + 1 - k]
  <2>1. k \in 0 .. m /\ k # 0 /\ m - (t + 1) = k - 1 /\ t + 1 \in 0 .. m
    BY <1>1
  <2> HIDE DEF m, n
  <2>2. PICK b \in Nat, p \in Powers : b + p <= n /\ g[k].hash = subtreeRoot(entries, b, p).hash
    BY <1>5
  <2> HIDE DEF k
  <2>3. g[k] = Parent(g[k - 1], x)
    BY <1>1, <1>3, <2>1 DEF IsFolded, m
  <2> HIDE DEF x
  <2> DEFINE node == g[k - 1]
  <2>4. Parent(node, x) = Over(x.node, node, 0) \/ Parent(node, x) = Over(node, x.node, 0)
    BY DEF Parent
  <2> HIDE DEF node
  <2>5. p # 1
    <3> SUFFICES ASSUME p = 1 PROVE FALSE
      OBVIOUS
    <3>1. Len(entries) >= 1
      BY <1>1, <2>2 DEF n
    <3>2. subtreeRoot(entries, b, 1).hash = leafHash(entries[b + 1])
      BY <3>1, SubtreeLeaf DEF LeafNode
    <3> QED BY <2>2, <2>3, <2>4, <3>2, HashesTell DEF node
  <2>6. PICK q \in Powers : p = 2 * q
    BY <2>5, PowersHalve
  <2>7. q \in Nat /\ q >= 1 /\ p \in 2 .. n /\ p \div 2 = q /\ b + q \in Nat /\ b + q <= n /\ (b + q) + q <= n
    BY <1>1, <2>2, <2>6, PowersDouble
  <2> DEFINE left == subtreeRoot(entries, b, q)
             right == subtreeRoot(entries, b + q, q)
  <2>8. subtreeRoot(entries, b, p) = Over(left, right, flatIndex(b, p))
    <3>1. p \in 2 .. Len(entries)
      BY <2>7 DEF n
    <3>2. subtreeRoot(entries, b, p)
            = Over(subtreeRoot(entries, b, p \div 2), subtreeRoot(entries, b + p \div 2, p \div 2), flatIndex(b, p))
      BY <3>1, SubtreeOver
    <3> QED BY <2>7, <3>2
  <2> HIDE DEF left, right
  <2>9. node.hash = left.hash \/ node.hash = right.hash
    <3>1. Over(left, right, flatIndex(b, p)).hash = Parent(node, x).hash
      BY <2>2, <2>3, <2>8 DEF node
    <3>2. CASE Parent(node, x) = Over(x.node, node, 0)
      BY <3>1, <3>2, HashesTell
    <3>3. CASE Parent(node, x) = Over(node, x.node, 0)
      BY <3>1, <3>3, HashesTell
    <3> QED BY <2>4, <3>2, <3>3
  <2>10. g[m - (t + 1)] = node
    BY <2>1 DEF node
  <2>11. \E c \in Nat : c + q <= n /\ node.hash = subtreeRoot(entries, c, q).hash
    BY <2>7, <2>9 DEF left, right
  <2> QED BY <2>1, <2>10, <2>11
<1>6. \A t \in 0 .. m : t \in T
  <2> HIDE DEF T, m
  <2> QED BY <1>1, <1>4, <1>5, IntervalInduction
<1>7. PICK b \in Nat, p \in Powers : b + p <= n /\ g[0].hash = subtreeRoot(entries, b, p).hash
  <2> HIDE DEF m, n
  <2>1. m \in 0 .. m /\ m - m = 0
    BY <1>1
  <2> QED BY <1>6, <2>1
<1>8. g[0].hash = leafHash(d)
  <2>1. g[0] = Start(d)
    BY <1>1, <1>3 DEF IsFolded
  <2> QED BY <2>1 DEF Start
<1>9. p = 1
  <2> SUFFICES ASSUME p # 1 PROVE FALSE
    OBVIOUS
  <2>1. PICK q \in Powers : p = 2 * q
    BY PowersHalve
  <2>2. p \in 2 .. Len(entries)
    BY <1>1, <1>7, <2>1, PowersDouble
  <2>3. subtreeRoot(entries, b, p)
          = Over(subtreeRoot(entries, b, p \div 2), subtreeRoot(entries, b + p \div 2, p \div 2), flatIndex(b, p))
    BY <2>2, SubtreeOver
  <2>4. subtreeRoot(entries, b, p).hash # leafHash(d)
    BY <2>3, LeafTells
  <2> QED BY <1>7, <1>8, <2>4
<1>10. subtreeRoot(entries, b, 1).hash = leafHash(entries[b + 1])
  <2>1. Len(entries) >= 1
    BY <1>1, <1>7, <1>9
  <2> QED BY <2>1, SubtreeLeaf DEF LeafNode
<1>11. entries[b + 1] = d
  <2>1. leafHash(d) = leafHash(entries[b + 1])
    BY <1>7, <1>8, <1>9, <1>10
  <2> QED BY <2>1, LeafTells
<1>12. b + 1 \in 1 .. Len(entries)
  BY <1>1, <1>7, <1>9
<1> QED BY <1>11, <1>12

\* Whatever proof is shown, only a record of the log verifies against the root of the
\* tree that grew over it (merkle.ts verifyInclusion): the hashes are the terms that
\* were hashed, and a leaf's is never a parent's.
THEOREM InclusionIsSound ==
  ASSUME NEW entries \in Seq(Data), NEW d, NEW proof, \E S : proof.siblings \in Seq(S),
         verifyInclusion(d, proof, root(treeOf(entries)))
  PROVE  \E i \in 1 .. Len(entries) : entries[i] = d
<1> DEFINE peaks == peakSpans(Len(entries))
           j == proof.rootIndex
<1>1. PICK S : proof.siblings \in Seq(S)
  OBVIOUS
<1>2. /\ j \in DOMAIN proof.roots
      /\ Fold(Start(d), proof.siblings).hash = proof.roots[j].hash
      /\ treeHash(proof.roots) = root(treeOf(entries))
  BY DEF verifyInclusion, Start
<1>3. proof.roots = treeOf(entries).peaks
  <2> DEFINE u == proof.roots
             v == treeOf(entries).peaks
  <2>1. <<"root", u>> = <<"root", v>>
    BY <1>2 DEF treeHash, root
  <2> HIDE DEF u, v
  <2>2. u = v
    BY <2>1
  <2> QED BY <2>2 DEF u, v
<1>4. /\ treeOf(entries).peaks
           = [i \in DOMAIN peaks |-> subtreeRoot(entries, peaks[i].start, peaks[i].span)]
      /\ \A i \in DOMAIN peaks :
           /\ peaks[i].start \in Nat /\ peaks[i].span \in Powers
           /\ peaks[i].start + peaks[i].span <= Len(entries)
  BY PeaksAre
<1> HIDE DEF peaks, j
<1>5. j \in DOMAIN peaks /\ proof.roots[j] = subtreeRoot(entries, peaks[j].start, peaks[j].span)
  BY <1>2, <1>3, <1>4
<1> QED BY <1>1, <1>2, <1>4, <1>5, FoldSound

-----------------------------------------------------------------------------
(***************************************************************************)
(* The light client.                                                       *)
(***************************************************************************)

\* What a client verifies against an honest peer's claim is in that peer's log.
LEMMA VerifiedFromClaims == ASSUME ClaimsInv PROVE VerifiedIsHeld
<1> SUFFICES ASSUME NEW p \in Peers \cap DOMAIN claims, NEW document \in Documents(chosen),
                    claims[p].logLength = chosen, lightVerify(document)
             PROVE  \E i \in 1 .. chosen : log[p][i] = document.record
  BY DEF VerifiedIsHeld
<1> DEFINE n == chosen
           kept == SubSeq(log[p], 1, n)
           Held == {l \in {log[q] : q \in Peers} \cup LiarLogs : Len(l) >= n}
           Prefixes == {SubSeq(l, 1, n) : l \in Held}
<1>1. n \in Nat /\ log[p] \in Seq(Data) /\ n <= Len(log[p])
  BY DEF ClaimsInv
<1>2. claims[p].treeRoot = root(treeOf(kept))
  BY DEF ClaimsInv
<1>3. Documents(n) = {[Document(l, i) EXCEPT !.record = d] : i \in 0 .. n - 1, d \in Data, l \in Prefixes}
  BY DEF Documents
<1> HIDE DEF n
<1>4. kept \in Seq(Data) /\ Len(kept) = n /\ \A i \in 1 .. n : kept[i] = log[p][i]
  BY <1>1
<1>5. ASSUME NEW l \in Prefixes PROVE l \in Seq(Data) /\ Len(l) = n
  <2>1. PICK a \in Held : l = SubSeq(a, 1, n)
    OBVIOUS
  <2>2. a \in Seq(Data) /\ Len(a) >= n
    BY LightAssumption DEF ClaimsInv
  <2> QED BY <1>1, <2>1, <2>2
<1> HIDE DEF Prefixes, Held
<1>6. PICK i \in 0 .. n - 1, d \in Data, l \in Prefixes : document = [Document(l, i) EXCEPT !.record = d]
  BY <1>3 DEF n
<1>7. document.proof = proveInclusion(l, i) /\ document.record = d
  <2> DEFINE proof == proveInclusion(l, i)
  <2>1. Document(l, i) = [record |-> l[i + 1], logLength |-> Len(l), proof |-> proof]
    BY DEF Document
  <2> HIDE DEF proof
  <2>2. document = [record |-> d, logLength |-> Len(l), proof |-> proof]
    BY <1>6, <2>1
  <2>3. document.proof = proof /\ document.record = d
    BY <2>2
  <2> QED BY <2>3 DEF proof
<1>8. \E S : document.proof.siblings \in Seq(S)
  <2>1. i \in 0 .. Len(l) - 1 /\ l \in Seq(Data)
    BY <1>1, <1>5
  <2> QED BY <1>7, <2>1, ProofShape
<1>9. verifyInclusion(document.record, document.proof, root(treeOf(kept)))
  <2>1. claims[p].treeRoot \in rootsAt(chosen)
    BY DEF rootsAt
  <2>2. verifyNameInclusion(document, claims[p].treeRoot, chosen)
    BY <2>1 DEF lightVerify
  <2> QED BY <1>2, <2>2 DEF verifyNameInclusion
<1> HIDE DEF kept
<1>10. PICK k \in 1 .. Len(kept) : kept[k] = document.record
  BY <1>4, <1>8, <1>9, InclusionIsSound
<1> QED BY <1>4, <1>10 DEF n

\* The invariant: the ledger tells what was heard, and a claim is about a log's prefix.
LightInv == HeardInv /\ ClaimsInv

\* Nothing was heard, claimed or logged at the start.
LEMMA LightInitHolds == LightInit => LightInv
<1> SUFFICES ASSUME LightInit PROVE HeardInv /\ ClaimsInv
  BY DEF LightInv
<1>1. /\ log = [p \in Peers |-> <<>>] /\ heard = <<>> /\ claims = <<>>
      /\ ledger = [seen |-> {}, forks |-> <<>>, refused |-> 0]
  BY DEF LightInit, EmptyLedger
<1>2. /\ heard \in Seq(Stated) /\ DOMAIN heard = {} /\ DOMAIN claims = {}
      /\ ledger.seen = {} /\ ledger.forks = <<>> /\ ledger.refused = 0
  BY <1>1
<1>3. LedgerType
  <2>1. ledger.forks \in Seq(Report)
    BY <1>2
  <2> QED BY <1>1, <1>2, <2>1 DEF LedgerType
<1>4. LedgerTells /\ ForksSurface
  BY <1>2 DEF LedgerTells, ForksSurface
<1>5. ClaimsInv
  <2>1. log \in [Peers -> Seq(Data)]
    BY <1>1
  <2>2. IsFiniteSet(DOMAIN claims)
    BY <1>2, FS_EmptySet
  <2> QED BY <1>2, <2>1, <2>2 DEF ClaimsInv
<1> QED BY <1>3, <1>4, <1>5 DEF HeardInv

\* Every step keeps the invariant.
LEMMA LightNextKeeps == LightInv /\ [LightNext]_lightVars => LightInv'
<1> SUFFICES ASSUME HeardInv, ClaimsInv, [LightNext]_lightVars PROVE HeardInv' /\ ClaimsInv'
  BY DEF LightInv
<1>1. ASSUME UNCHANGED <<heard, ledger>> PROVE HeardInv'
  BY <1>1 DEF HeardInv, LedgerType, LedgerTells, FirstAt, ForksSurface
<1>2. ASSUME UNCHANGED <<log, claims>> PROVE ClaimsInv'
  BY <1>2 DEF ClaimsInv
<1>3. ASSUME NEW p \in Peers, NEW d \in Data, Accept(p, d) PROVE HeardInv' /\ ClaimsInv'
  <2>1. UNCHANGED <<heard, ledger>>
    BY <1>3 DEF Accept
  <2> QED BY <1>1, <1>3, <2>1, AcceptKeeps
<1>4. ASSUME NEW c \in Stated, Receive(c) PROVE HeardInv' /\ ClaimsInv'
  <2>1. UNCHANGED <<log, claims>>
    BY <1>4 DEF Receive
  <2> QED BY <1>2, <1>4, <2>1, ReceiveKeeps
<1>5. ASSUME NEW p \in Peers, StateCheckpoint(p) PROVE HeardInv' /\ ClaimsInv'
  <2>1. log[p] \in Seq(Data)
    BY DEF ClaimsInv
  <2>2. checkpointOf(log[p]) \in Stated
    BY <2>1 DEF Stated
  <2>3. Receive(checkpointOf(log[p]))
    BY <1>5 DEF StateCheckpoint
  <2> QED BY <1>4, <2>2, <2>3
<1>6. ASSUME LiarStates PROVE HeardInv' /\ ClaimsInv'
  BY <1>4, <1>6 DEF LiarStates, Stated
<1>7. ASSUME NEW p \in Peers \cup Liars, NEW claim, Answer(p, claim) PROVE HeardInv'
  BY <1>1, <1>7 DEF Answer
<1>8. ASSUME NEW p \in Peers, Claim(p) PROVE HeardInv' /\ ClaimsInv'
  <2> DEFINE r == root(treeOf(log[p]))
             claim == [logLength |-> Len(log[p]), treeRoot |-> r]
  <2>1. Answer(p, claim)
    BY <1>8 DEF Claim
  <2> HIDE DEF r
  <2>2. claim.logLength = Len(log[p]) /\ claim.treeRoot = r /\ claim.logLength \in Nat
    BY DEF ClaimsInv
  <2> HIDE DEF claim
  <2>3. ClaimsInv'
    BY <2>1, <2>2, AnswerKeeps DEF r
  <2>4. HeardInv'
    BY <1>7, <2>1
  <2> QED BY <2>3, <2>4
<1>9. ASSUME LiarAnswers PROVE HeardInv' /\ ClaimsInv'
  <2>1. PICK q \in Liars, c \in LiarClaims : Answer(q, c)
    BY <1>9 DEF LiarAnswers
  <2>2. q \notin Peers /\ q \in Peers \cup Liars /\ c.logLength \in Nat
    BY LightAssumption
  <2>3. ClaimsInv'
    BY <2>1, <2>2, AnswerKeeps
  <2>4. HeardInv'
    BY <1>7, <2>1, <2>2
  <2> QED BY <2>3, <2>4
<1>10. CASE UNCHANGED lightVars
  <2>1. UNCHANGED <<heard, ledger>> /\ UNCHANGED <<log, claims>>
    BY <1>10 DEF lightVars
  <2> QED BY <1>1, <1>2, <2>1
<1> QED BY <1>3, <1>5, <1>6, <1>8, <1>9, <1>10 DEF LightNext

\* The invariant is inductive.
LEMMA LightInvHolds == LightSpec => []LightInv
BY LightInitHolds, LightNextKeeps, PTL DEF LightSpec

\* Every disagreement between what peers stated at one length is reported beside
\* what was heard there first, unless the ledger counted what it turned away.
THEOREM ForksSurfaceHolds == LightSpec => []ForksSurface
<1>1. LightInv => ForksSurface
  BY DEF LightInv, HeardInv
<1> QED BY <1>1, LightInvHolds, PTL

\* Fewer liars than the quorum never push the corroborated length past every honest log.
THEOREM CorroboratedIsHeldHolds == LightSpec => []CorroboratedIsHeld
<1>1. LightInv => CorroboratedIsHeld
  BY CorroboratedFromClaims DEF LightInv
<1> QED BY <1>1, LightInvHolds, PTL

\* The peaks a tree keeps are the ones a prover computes, and every proof verifies.
THEOREM TreesAgreeHolds == LightSpec => []TreesAgree
<1>1. LightInv => TreesAgree
  BY TreesAgreeOn DEF LightInv, ClaimsInv
<1> QED BY <1>1, LightInvHolds, PTL

\* What light-verify verifies at a length an honest peer claims, that peer holds.
THEOREM VerifiedIsHeldHolds == LightSpec => []VerifiedIsHeld
<1>1. LightInv => VerifiedIsHeld
  BY VerifiedFromClaims DEF LightInv
<1> QED BY <1>1, LightInvHolds, PTL
=============================================================================
