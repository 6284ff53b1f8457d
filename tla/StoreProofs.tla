---------------------------- MODULE StoreProofs ----------------------------
(***************************************************************************)
(* Proofs about Store: type correctness, and the safety properties of the  *)
(* log file for any number of processes, names, keys and records.          *)
(***************************************************************************)
EXTENDS Store, RulesProofs

-----------------------------------------------------------------------------
(***************************************************************************)
(* Type correctness.                                                       *)
(***************************************************************************)
\* The initial state is well typed.
LEMMA InitType == Init => TypeOK
<1> SUFFICES ASSUME Init PROVE TypeOK
  OBVIOUS
<1>1. now \in Nat /\ disk \in Seq(Record) /\ DOMAIN mem = Procs
  BY DEF Init
<1>2. torn \in BOOLEAN
  BY Zenon DEF Init
<1>3. \A p \in Procs : mem[p] = NoStore("closed")
  BY DEF Init
<1>4. ASSUME NEW p \in Procs
      PROVE  /\ mem[p].phase \in Phases
             /\ mem[p].file \in Seq(Record)
             /\ mem[p].entries \in Seq(Record)
             /\ IndexOK(mem[p].names)
  <2>1. /\ mem[p].phase = "closed"
        /\ mem[p].file = << >>
        /\ mem[p].entries = << >>
        /\ mem[p].names = EmptyIndex
    BY <1>3 DEF NoStore, Memory
  <2> QED BY <2>1, EmptyIndexOK DEF Phases
<1> QED BY <1>1, <1>2, <1>4 DEF TypeOK

\* Remembering a record keeps the memory of a process well typed.
LEMMA RememberedType ==
  ASSUME NEW m, NEW r \in Record, m.phase \in Phases, m.file \in Seq(Record),
         m.entries \in Seq(Record), IndexOK(m.names)
  PROVE  /\ Remembered(m, r).phase = m.phase
         /\ Remembered(m, r).file = m.file
         /\ Remembered(m, r).entries = Append(m.entries, r)
         /\ Remembered(m, r).entries \in Seq(Record)
         /\ Remembered(m, r).names = apply(m.names, r)
         /\ IndexOK(Remembered(m, r).names)
BY ApplyType DEF Remembered, Memory

\* Every step of the store keeps the types.
LEMMA NextType == TypeOK /\ [Next]_vars => TypeOK'
<1> SUFFICES ASSUME TypeOK, [Next]_vars PROVE TypeOK'
  OBVIOUS
<1> USE DEF TypeOK
<1>1. CASE Tick
  BY <1>1 DEF Tick
<1>2. ASSUME NEW p \in Procs, ReadLog(p) PROVE TypeOK'
  BY <1>2, EmptyIndexOK DEF ReadLog, NoStore, Memory, Phases
<1>3. ASSUME NEW p \in Procs, ReplayEntry(p) PROVE TypeOK'
  <2> DEFINE r == mem[p].file[Len(mem[p].entries) + 1]
  <2>1. r \in Record
    BY <1>3 DEF ReplayEntry
  <2>2. CASE replayVerdict(mem[p]) = "accept"
    <3> HIDE DEF r
    <3>1. mem' = [mem EXCEPT ![p] = Remembered(mem[p], r)]
      BY <1>3, <2>2 DEF ReplayEntry, r
    <3>2. UNCHANGED <<now, disk, torn>>
      BY <1>3 DEF ReplayEntry
    <3> QED BY <2>1, <3>1, <3>2, RememberedType
  <2>3. CASE replayVerdict(mem[p]) # "accept"
    <3>1. mem' = [mem EXCEPT ![p] = NoStore("refused")]
      BY <1>3, <2>3 DEF ReplayEntry
    <3>2. UNCHANGED <<now, disk, torn>>
      BY <1>3 DEF ReplayEntry
    <3> QED BY <3>1, <3>2, EmptyIndexOK DEF NoStore, Memory, Phases
  <2> QED BY <2>2, <2>3
<1>4. ASSUME NEW p \in Procs, Opened(p) PROVE TypeOK'
  BY <1>4 DEF Opened, Memory, Phases
<1>5. ASSUME NEW p \in Procs, Stop(p) PROVE TypeOK'
  BY <1>5, EmptyIndexOK DEF Stop, NoStore, Memory, Phases
<1>6. ASSUME NEW p \in Procs, NEW r, AppendRecord(p, r) PROVE TypeOK'
  <2>1. r \in Record
    BY <1>6 DEF AppendRecord, Accepts
  <2> QED BY <1>6, <2>1, RememberedType DEF AppendRecord
<1>7. ASSUME NEW p \in Procs, NEW r, FailedWrite(p, r) PROVE TypeOK'
  BY <1>7 DEF FailedWrite
<1>8. ASSUME NEW p \in Procs, NEW r, CrashInAppend(p, r) PROVE TypeOK'
  <2>1. r \in Record
    BY <1>8 DEF CrashInAppend, Accepts
  <2>2. disk' \in Seq(Record) /\ now' = now
    BY <1>8, <2>1 DEF CrashInAppend
  <2>4. torn' \in BOOLEAN
    BY <1>8, Zenon DEF CrashInAppend
  <2>3. mem' = [mem EXCEPT ![p] = NoStore("closed")]
    BY <1>8 DEF CrashInAppend
  <2> QED BY <2>2, <2>3, <2>4, EmptyIndexOK DEF NoStore, Memory, Phases
<1>9. CASE UNCHANGED vars
  BY <1>9 DEF vars
<1> QED BY <1>1, <1>2, <1>3, <1>4, <1>5, <1>6, <1>7, <1>8, <1>9 DEF Next

\* Logs hold records and indexes map names to entries about them, always.
THEOREM TypeCorrect == Spec => []TypeOK
BY InitType, NextType, PTL DEF Spec

-----------------------------------------------------------------------------
(***************************************************************************)
(* The steps of the store, by what they do to the file and to a memory.    *)
(***************************************************************************)

\* The file changes only by a record that an open process accepted.
LEMMA FileStep ==
  ASSUME TypeOK, [Next]_vars
  PROVE  /\ now' \in Nat /\ now' >= now
         /\ \/ disk' = disk
            \/ \E p \in Procs, r \in Record :
                 /\ r \in Offered(disk, now)
                 /\ now' = now /\ Accepts(p, r) /\ disk' = Append(disk, r)
<1> USE DEF TypeOK
<1>1. CASE Tick
  BY <1>1 DEF Tick
<1>2. ASSUME NEW p \in Procs, ReadLog(p) \/ ReplayEntry(p) \/ Opened(p) \/ Stop(p)
      PROVE  now' = now /\ disk' = disk
  BY <1>2 DEF ReadLog, ReplayEntry, Opened, Stop
<1>3. ASSUME NEW p \in Procs, NEW r \in Offered(disk, now),
             AppendRecord(p, r) \/ FailedWrite(p, r) \/ CrashInAppend(p, r)
      PROVE  /\ now' = now
             /\ Accepts(p, r) /\ r \in Record
             /\ disk' = disk \/ disk' = Append(disk, r)
  BY <1>3 DEF AppendRecord, FailedWrite, CrashInAppend, Accepts
<1>4. CASE UNCHANGED vars
  BY <1>4 DEF vars
<1> QED BY <1>1, <1>2, <1>3, <1>4 DEF Next

\* A process starts over, starts a replay, finishes it, or remembers one record:
\* the next of the file it replays, or the one it has just written.
LEMMA MemoryStep ==
  ASSUME TypeOK, [Next]_vars, NEW p \in Procs
  PROVE  \/ mem'[p] = mem[p]
         \/ \E phase \in {"closed", "refused"} : mem'[p] = NoStore(phase)
         \/ mem'[p] = Memory("replaying", disk, << >>, EmptyIndex) /\ disk' = disk
         \/ /\ mem[p].phase = "replaying"
            /\ mem'[p] = Memory("open", << >>, mem[p].entries, mem[p].names)
            /\ disk' = disk
         \/ /\ mem[p].phase = "replaying"
            /\ Len(mem[p].entries) < Len(mem[p].file)
            /\ replayVerdict(mem[p]) = "accept"
            /\ mem'[p] = Remembered(mem[p], mem[p].file[Len(mem[p].entries) + 1])
            /\ disk' = disk
         \/ \E r \in Record : /\ Accepts(p, r)
                              /\ mem'[p] = Remembered(mem[p], r)
                              /\ disk' = Append(disk, r)
<1> USE DEF TypeOK
<1>1. CASE Tick
  BY <1>1 DEF Tick
<1>2. ASSUME NEW q \in Procs, ReadLog(q)
      PROVE  \/ mem'[p] = mem[p]
             \/ mem'[p] = NoStore("refused")
             \/ mem'[p] = Memory("replaying", disk, << >>, EmptyIndex) /\ disk' = disk
  BY <1>2 DEF ReadLog
<1>3. ASSUME NEW q \in Procs, ReplayEntry(q)
      PROVE  \/ mem'[p] = mem[p]
             \/ mem'[p] = NoStore("refused")
             \/ /\ mem[p].phase = "replaying"
                /\ Len(mem[p].entries) < Len(mem[p].file)
                /\ replayVerdict(mem[p]) = "accept"
                /\ mem'[p] = Remembered(mem[p], mem[p].file[Len(mem[p].entries) + 1])
                /\ disk' = disk
  BY <1>3 DEF ReplayEntry
<1>4. ASSUME NEW q \in Procs, Opened(q)
      PROVE  \/ mem'[p] = mem[p]
             \/ /\ mem[p].phase = "replaying"
                /\ mem'[p] = Memory("open", << >>, mem[p].entries, mem[p].names)
                /\ disk' = disk
  BY <1>4 DEF Opened
<1>5. ASSUME NEW q \in Procs, Stop(q)
      PROVE  mem'[p] = mem[p] \/ mem'[p] = NoStore("closed")
  BY <1>5 DEF Stop
<1>6. ASSUME NEW q \in Procs, NEW r, AppendRecord(q, r)
      PROVE  \/ mem'[p] = mem[p]
             \/ /\ r \in Record /\ Accepts(p, r)
                /\ mem'[p] = Remembered(mem[p], r)
                /\ disk' = Append(disk, r)
  BY <1>6 DEF AppendRecord, Accepts
<1>7. ASSUME NEW q \in Procs, NEW r, FailedWrite(q, r) \/ CrashInAppend(q, r)
      PROVE  mem'[p] = mem[p] \/ mem'[p] = NoStore("closed")
  BY <1>7 DEF FailedWrite, CrashInAppend
<1>8. CASE UNCHANGED vars
  BY <1>8 DEF vars
<1> QED BY <1>1, <1>2, <1>3, <1>4, <1>5, <1>6, <1>7, <1>8 DEF Next

\* The file only grows, and what it holds stays where it is.
LEMMA FileGrows ==
  ASSUME TypeOK, [Next]_vars
  PROVE  /\ Len(disk) <= Len(disk')
         /\ DOMAIN disk \subseteq DOMAIN disk'
         /\ \A i \in DOMAIN disk : disk'[i] = disk[i]
<1>1. CASE disk' = disk
  BY <1>1 DEF TypeOK
<1>2. ASSUME NEW r \in Record, disk' = Append(disk, r)
      PROVE  /\ Len(disk) <= Len(disk')
             /\ DOMAIN disk \subseteq DOMAIN disk'
             /\ \A i \in DOMAIN disk : disk'[i] = disk[i]
  BY <1>2 DEF TypeOK
<1> QED BY <1>1, <1>2, FileStep

-----------------------------------------------------------------------------
(***************************************************************************)
(* The memory of a process.                                                *)
(***************************************************************************)

\* The fields of a memory that holds no record.
LEMMA NoStoreFields ==
  ASSUME NEW phase
  PROVE  /\ NoStore(phase).phase = phase
         /\ NoStore(phase).entries = << >>
         /\ NoStore(phase).names = EmptyIndex
BY DEF NoStore, Memory

\* A replay stays a replay of the first entries of the file.
LEMMA ReplayKept == TypeOK /\ ReplaysTheFile /\ [Next]_vars => ReplaysTheFile'
<1> SUFFICES ASSUME TypeOK, ReplaysTheFile, [Next]_vars, NEW p \in Procs,
                    mem'[p].phase = "replaying"
             PROVE  /\ Len(mem'[p].entries) <= Len(mem'[p].file)
                    /\ \A i \in DOMAIN mem'[p].entries :
                         mem'[p].entries[i] = mem'[p].file[i]
                    /\ Len(mem'[p].file) <= Len(disk')
                    /\ \A i \in DOMAIN mem'[p].file : mem'[p].file[i] = disk'[i]
  BY DEF ReplaysTheFile
<1>0. /\ mem[p].entries \in Seq(Record) /\ mem[p].file \in Seq(Record)
      /\ disk \in Seq(Record) /\ disk' \in Seq(Record)
  BY NextType DEF TypeOK
<1>1. CASE mem'[p] = mem[p]
  <2>1. /\ Len(mem[p].entries) <= Len(mem[p].file)
        /\ \A i \in DOMAIN mem[p].entries : mem[p].entries[i] = mem[p].file[i]
        /\ Len(mem[p].file) <= Len(disk)
        /\ \A i \in DOMAIN mem[p].file : mem[p].file[i] = disk[i]
    BY <1>1 DEF ReplaysTheFile
  <2> QED BY <1>0, <1>1, <2>1, FileGrows
<1>2. CASE mem'[p] = Memory("replaying", disk, << >>, EmptyIndex) /\ disk' = disk
  BY <1>0, <1>2 DEF Memory
<1>3. CASE /\ mem[p].phase = "replaying"
           /\ Len(mem[p].entries) < Len(mem[p].file)
           /\ mem'[p] = Remembered(mem[p], mem[p].file[Len(mem[p].entries) + 1])
           /\ disk' = disk
  <2>1. /\ \A i \in DOMAIN mem[p].entries : mem[p].entries[i] = mem[p].file[i]
        /\ Len(mem[p].file) <= Len(disk)
        /\ \A i \in DOMAIN mem[p].file : mem[p].file[i] = disk[i]
    BY <1>3 DEF ReplaysTheFile
  <2>2. /\ mem'[p].file = mem[p].file
        /\ mem'[p].entries = Append(mem[p].entries, mem[p].file[Len(mem[p].entries) + 1])
    BY <1>3 DEF Remembered, Memory
  <2> QED BY <1>0, <1>3, <2>1, <2>2
<1>4. ASSUME NEW r, Accepts(p, r), mem'[p] = Remembered(mem[p], r) PROVE FALSE
  BY <1>4 DEF Accepts, Remembered, Memory
<1>5. ASSUME NEW phase \in {"closed", "refused"}, mem'[p] = NoStore(phase) PROVE FALSE
  BY <1>5, NoStoreFields
<1>6. CASE mem'[p] = Memory("open", << >>, mem[p].entries, mem[p].names)
  BY <1>6 DEF Memory
<1> QED BY <1>1, <1>2, <1>3, <1>4, <1>5, <1>6, MemoryStep

\* Memory stays in the file, in order.
LEMMA DurableKept ==
  TypeOK /\ ReplaysTheFile /\ MemoryIsDurable /\ [Next]_vars => MemoryIsDurable'
<1> DEFINE Embeds(f, log, file) ==
      /\ f \in [DOMAIN log -> DOMAIN file]
      /\ \A i \in DOMAIN f : log[i] = file[f[i]]
      /\ \A i, j \in DOMAIN f : i < j => f[i] < f[j]
<1> SUFFICES ASSUME TypeOK, ReplaysTheFile, MemoryIsDurable, [Next]_vars,
                    NEW p \in Procs
             PROVE  \E f : Embeds(f, mem'[p].entries, disk')
  BY DEF MemoryIsDurable
<1>0. /\ mem[p].entries \in Seq(Record) /\ mem[p].file \in Seq(Record)
      /\ disk \in Seq(Record) /\ disk' \in Seq(Record)
  BY NextType DEF TypeOK
<1>a. PICK f : Embeds(f, mem[p].entries, disk)
  BY DEF MemoryIsDurable
<1>1. CASE mem'[p].entries = mem[p].entries
  <2>1. Embeds(f, mem'[p].entries, disk')
    BY <1>0, <1>1, <1>a, FileGrows
  <2> QED BY <2>1
<1>2. CASE mem'[p].entries = << >>
  <2>1. Embeds([i \in {} |-> 0], mem'[p].entries, disk')
    BY <1>2
  <2> QED BY <2>1
<1>3. CASE /\ mem[p].phase = "replaying"
           /\ Len(mem[p].entries) < Len(mem[p].file)
           /\ mem'[p] = Remembered(mem[p], mem[p].file[Len(mem[p].entries) + 1])
           /\ disk' = disk
  <2>1. /\ \A i \in DOMAIN mem[p].entries : mem[p].entries[i] = mem[p].file[i]
        /\ Len(mem[p].file) <= Len(disk)
        /\ \A i \in DOMAIN mem[p].file : mem[p].file[i] = disk[i]
    BY <1>3 DEF ReplaysTheFile
  <2>2. mem'[p].entries = Append(mem[p].entries, mem[p].file[Len(mem[p].entries) + 1])
    BY <1>3 DEF Remembered, Memory
  <2>3. Embeds([i \in DOMAIN mem'[p].entries |-> i], mem'[p].entries, disk')
    BY <1>0, <1>3, <2>1, <2>2
  <2> QED BY <2>3
<1>4. ASSUME NEW r \in Record, mem'[p] = Remembered(mem[p], r), disk' = Append(disk, r)
      PROVE  \E g : Embeds(g, mem'[p].entries, disk')
  <2> DEFINE g == [i \in DOMAIN mem'[p].entries |->
                     IF i = Len(mem[p].entries) + 1 THEN Len(disk) + 1 ELSE f[i]]
  <2>1. mem'[p].entries = Append(mem[p].entries, r)
    BY <1>4 DEF Remembered, Memory
  <2>2. /\ DOMAIN mem'[p].entries = DOMAIN mem[p].entries \cup {Len(mem[p].entries) + 1}
        /\ Len(mem[p].entries) + 1 \notin DOMAIN mem[p].entries
        /\ DOMAIN mem[p].entries \subseteq Nat
        /\ \A i \in DOMAIN mem[p].entries : i < Len(mem[p].entries) + 1
        /\ DOMAIN disk' = DOMAIN disk \cup {Len(disk) + 1}
        /\ \A i \in DOMAIN disk : i \in Nat /\ i < Len(disk) + 1 /\ disk'[i] = disk[i]
        /\ disk'[Len(disk) + 1] = r
        /\ mem'[p].entries[Len(mem[p].entries) + 1] = r
        /\ \A i \in DOMAIN mem[p].entries : mem'[p].entries[i] = mem[p].entries[i]
    BY <1>0, <1>4, <2>1
  <2>3. g \in [DOMAIN mem'[p].entries -> DOMAIN disk']
    BY <1>a, <2>2
  <2>4. \A i \in DOMAIN g : mem'[p].entries[i] = disk'[g[i]]
    BY <1>a, <2>2
  <2>5. \A i, j \in DOMAIN g : i < j => g[i] < g[j]
    BY <1>a, <2>2
  <2> QED BY <2>3, <2>4, <2>5
<1>5. ASSUME NEW phase, mem'[p] = NoStore(phase) PROVE mem'[p].entries = << >>
  BY <1>5, NoStoreFields
<1>6. CASE \/ mem'[p] = mem[p]
           \/ mem'[p] = Memory("open", << >>, mem[p].entries, mem[p].names)
  BY <1>1, <1>6 DEF Memory
<1>7. CASE mem'[p] = Memory("replaying", disk, << >>, EmptyIndex)
  BY <1>2, <1>7 DEF Memory
<1> QED BY <1>2, <1>3, <1>4, <1>5, <1>6, <1>7, MemoryStep

\* The signer key that apply stores is the key that signed the record.
LEMMA SignerOfApply ==
  ASSUME NEW names, IndexOK(names), NEW r \in Record, NEW at,
         \/ r.op = "REGISTER" /\ RegisterFacts(r, at)
         \/ /\ r.op # "REGISTER"
            /\ r.name \in DOMAIN names
            /\ SuccessorFacts(names[r.name], r, at)
  PROVE  apply(names, r)[r.name].signerKey = r.sig
<1>1. CASE r.op = "REGISTER"
  BY <1>1 DEF apply, RegisterFacts
<1>2. CASE r.op = "TRANSFER"
  BY <1>2 DEF apply, SuccessorFacts
<1>3. CASE r.op # "REGISTER" /\ r.op # "TRANSFER"
  <2>1. r.sig = controllingKey(names[r.name], r.notBefore)
    BY <1>3 DEF SuccessorFacts
  <2>2. r.ownerKey = names[r.name].record.ownerKey
    BY <1>3 DEF SuccessorFacts
  <2>3. ~Unsettled(names[r.name].record, r)
    BY <1>3 DEF SuccessorFacts
  <2>4. r.sig = r.ownerKey
    BY <1>3, <2>1, <2>2, <2>3 DEF controllingKey, Unsettled
  <2> QED BY <1>3, <2>4 DEF apply
<1> QED BY <1>1, <1>2, <1>3

\* The entries of the index stay signed by the signer key kept beside them.
LEMMA SignerKept == TypeOK /\ SignerSigned /\ [Next]_vars => SignerSigned'
<1> DEFINE Signed(m) ==
      \A n \in DOMAIN m.names :
        /\ \E i \in DOMAIN m.entries : m.entries[i] = m.names[n].record
        /\ m.names[n].signerKey = m.names[n].record.sig
<1> SUFFICES ASSUME TypeOK, SignerSigned, [Next]_vars, NEW p \in Procs
             PROVE  Signed(mem'[p])
  BY DEF SignerSigned
<1>0. /\ mem[p].entries \in Seq(Record) /\ mem[p].file \in Seq(Record)
      /\ IndexOK(mem[p].names) /\ mem[p].phase \in Phases /\ now \in Nat
  BY DEF TypeOK
<1>a. Signed(mem[p])
  BY DEF SignerSigned
<1>b. ASSUME NEW r \in Record,
             apply(mem[p].names, r)[r.name].signerKey = r.sig
      PROVE  Signed(Remembered(mem[p], r))
  <2> DEFINE old == mem[p]
             new == Remembered(mem[p], r)
  <2>1. new.entries = Append(old.entries, r) /\ new.names = apply(old.names, r)
    BY DEF Remembered, Memory
  <2>2. /\ new.names[r.name].record = r
        /\ DOMAIN new.names = DOMAIN old.names \cup {r.name}
        /\ \A n \in DOMAIN old.names : n # r.name => new.names[n] = old.names[n]
    <3>1. /\ apply(mem[p].names, r)[r.name].record = r
          /\ DOMAIN apply(mem[p].names, r) = DOMAIN mem[p].names \cup {r.name}
          /\ \A n \in DOMAIN mem[p].names :
               n # r.name => apply(mem[p].names, r)[n] = mem[p].names[n]
      BY ApplyAt
    <3> HIDE DEF new
    <3> QED BY <2>1, <3>1
  <2>3. /\ Len(old.entries) + 1 \in DOMAIN new.entries
        /\ new.entries[Len(old.entries) + 1] = r
        /\ \A i \in DOMAIN old.entries :
             i \in DOMAIN new.entries /\ new.entries[i] = old.entries[i]
    BY <1>0, <2>1
  <2>4. new.names[r.name].signerKey = r.sig
    BY <1>b, <2>1
  <2> HIDE DEF new, old
  <2>5. Signed(new)
    BY <1>a, <2>2, <2>3, <2>4 DEF old
  <2> QED BY <2>5 DEF new
<1>1. CASE \/ mem'[p] = mem[p]
           \/ mem'[p] = Memory("open", << >>, mem[p].entries, mem[p].names)
  BY <1>1, <1>a DEF Memory
<1>2. CASE mem'[p] = Memory("replaying", disk, << >>, EmptyIndex)
  BY <1>2 DEF Memory, EmptyIndex
<1>3. ASSUME NEW phase, mem'[p] = NoStore(phase) PROVE Signed(mem'[p])
  BY <1>3, NoStoreFields DEF EmptyIndex
<1>4. CASE /\ mem[p].phase = "replaying"
           /\ Len(mem[p].entries) < Len(mem[p].file)
           /\ replayVerdict(mem[p]) = "accept"
           /\ mem'[p] = Remembered(mem[p], mem[p].file[Len(mem[p].entries) + 1])
  <2> DEFINE r == mem[p].file[Len(mem[p].entries) + 1]
  <2>a. r \in Record
    BY <1>0, <1>4
  <2>2. verify(mem[p].entries, mem[p].names, r, r.notBefore, FALSE) = "accept"
    BY <1>4 DEF replayVerdict
  <2> HIDE DEF r
  <2>1. r \in Record /\ r.notBefore \in Nat
    BY <2>a DEF Record
  <2>3. \/ r.op = "REGISTER" /\ RegisterFacts(r, r.notBefore)
        \/ /\ r.op # "REGISTER"
           /\ r.name \in DOMAIN mem[p].names
           /\ SuccessorFacts(mem[p].names[r.name], r, r.notBefore)
    BY <1>0, <2>1, <2>2, RegisterAccepted, SuccessorAccepted
  <2>4. apply(mem[p].names, r)[r.name].signerKey = r.sig
    BY <1>0, <2>1, <2>3, SignerOfApply
  <2>5. Signed(Remembered(mem[p], r))
    BY <1>b, <2>1, <2>4
  <2> HIDE DEF Signed
  <2> QED BY <1>4, <2>5 DEF r
<1>5. ASSUME NEW r \in Record, Accepts(p, r), mem'[p] = Remembered(mem[p], r)
      PROVE  Signed(mem'[p])
  <2>1. Accepted(appendVerdict(mem[p].entries, mem[p].names, r, now))
    BY <1>5 DEF Accepts
  <2>2. \/ r.op = "REGISTER" /\ RegisterFacts(r, now)
        \/ /\ r.op # "REGISTER"
           /\ r.name \in DOMAIN mem[p].names
           /\ SuccessorFacts(mem[p].names[r.name], r, now)
    BY <1>0, <2>1, AppendAccepted
  <2>3. apply(mem[p].names, r)[r.name].signerKey = r.sig
    BY <1>0, <2>2, SignerOfApply
  <2> QED BY <1>5, <1>b, <2>3
<1> QED BY <1>1, <1>2, <1>3, <1>4, <1>5, MemoryStep

-----------------------------------------------------------------------------
(***************************************************************************)
(* The file.                                                               *)
(***************************************************************************)

\* A record held for a name is somewhere in the file.
LEMMA HeldInFile ==
  ASSUME MemoryIsDurable, SignerSigned, NEW p \in Procs, NEW n \in DOMAIN mem[p].names
  PROVE  \E j \in DOMAIN disk : disk[j] = mem[p].names[n].record
<1>1. PICK f \in [DOMAIN mem[p].entries -> DOMAIN disk] :
        \A i \in DOMAIN f : mem[p].entries[i] = disk[f[i]]
  BY DEF MemoryIsDurable
<1>2. PICK i \in DOMAIN mem[p].entries : mem[p].entries[i] = mem[p].names[n].record
  BY DEF SignerSigned
<1> QED BY <1>1, <1>2

\* What an accepted record means for the file: a REGISTER, or a lawful successor of a
\* record of the file that is not closed.
LEMMA AcceptedIntoFile ==
  ASSUME StoreInv, NEW p \in Procs, NEW r \in Record, Accepts(p, r)
  PROVE  \/ r.op = "REGISTER" /\ RegisterFacts(r, now)
         \/ /\ r.op # "REGISTER"
            /\ \E j \in DOMAIN disk :
                 /\ Succeeds(disk[j], r)
                 /\ disk[j].op \notin {"REVOKE", "RELINQUISH"}
                 /\ r.op = "RELINQUISH" => r.notAfter = r.notBefore
                 /\ r.notBefore <= now + MAX_CLOCK_SKEW_SECONDS
                 /\ \/ r.notAfter = disk[j].notAfter
                    \/ r.notAfter <= r.notBefore + RENEWAL_WINDOW_SECONDS + TERM_SECONDS
<1>0. /\ IndexOK(mem[p].names) /\ now \in Nat /\ disk \in Seq(Record)
      /\ Accepted(appendVerdict(mem[p].entries, mem[p].names, r, now))
  BY DEF StoreInv, TypeOK, Accepts
<1>1. CASE r.op = "REGISTER"
  BY <1>0, <1>1, AppendAccepted
<1>2. CASE r.op # "REGISTER"
  <2> DEFINE held == mem[p].names[r.name]
  <2>1. r.name \in DOMAIN mem[p].names /\ SuccessorFacts(held, r, now)
    BY <1>0, <1>2, AppendAccepted
  <2>2. /\ held \in NameEntry /\ held.record \in Record
        /\ held.record.name = r.name /\ held.signerKey = held.record.sig
    BY <1>0, <2>1 DEF IndexOK, NameEntry, StoreInv, SignerSigned
  <2>3. PICK j \in DOMAIN disk : disk[j] = held.record
    BY <2>1, HeldInFile DEF StoreInv
  <2> HIDE DEF held
  <2>4. r.sig = RightfulKey(held.record, r.notBefore)
    BY <2>1, <2>2 DEF SuccessorFacts, RightfulKey, controllingKey
  <2>5. Succeeds(held.record, r)
    BY <2>1, <2>2, <2>4 DEF SuccessorFacts, Succeeds
  <2>6. held.record.op # "REVOKE"
    BY <2>1 DEF SuccessorFacts, acceptsSuccessor, lifecycleOf
  <2>7. held.record.op # "RELINQUISH"
    <3> SUFFICES ASSUME held.record.op = "RELINQUISH" PROVE FALSE
      OBVIOUS
    <3>1. held.record.notAfter = held.record.notBefore
      BY <2>3 DEF StoreInv, WellFormedFile
    <3>2. now >= held.record.notBefore /\ now < held.record.notAfter
      BY <2>1 DEF SuccessorFacts, acceptsSuccessor, lifecycleOf
    <3>3. held.record.notBefore \in Nat
      BY <2>2 DEF Record
    <3> QED BY <1>0, <3>1, <3>2, <3>3
  <2>8. /\ r.op = "RELINQUISH" => r.notAfter = r.notBefore
        /\ r.notBefore <= now + MAX_CLOCK_SKEW_SECONDS
        /\ \/ r.notAfter = held.record.notAfter
           \/ r.notAfter <= r.notBefore + RENEWAL_WINDOW_SECONDS + TERM_SECONDS
    BY <2>1 DEF SuccessorFacts
  <2> QED BY <1>2, <2>3, <2>5, <2>6, <2>7, <2>8
<1> QED BY <1>1, <1>2

\* The file stays well formed, lawful and bounded in time by one accepted record.
LEMMA FileKept ==
  StoreInv /\ [Next]_vars => WellFormedFile' /\ Custody' /\ ClosedIsFinal' /\ TermBound'
<1> SUFFICES ASSUME StoreInv, [Next]_vars
             PROVE  WellFormedFile' /\ Custody' /\ ClosedIsFinal' /\ TermBound'
  OBVIOUS
<1>0. disk \in Seq(Record) /\ now \in Nat /\ now' \in Nat /\ now' >= now
  BY FileStep DEF StoreInv, TypeOK
<1>1. CASE disk' = disk
  <2>1. WellFormedFile' /\ Custody' /\ ClosedIsFinal'
    BY <1>1 DEF StoreInv, WellFormedFile, Custody, ClosedIsFinal
  <2>2. ASSUME NEW i \in DOMAIN disk PROVE disk[i].notAfter \in Nat
    <3>1. disk[i] \in Record
      BY <1>0
    <3> QED BY <3>1 DEF Record
  <2>3. TermBound'
    BY <1>0, <1>1, <2>2, DurationsAssumption DEF StoreInv, TermBound
  <2> QED BY <2>1, <2>3
<1>2. ASSUME NEW p \in Procs, NEW r \in Record,
             now' = now, Accepts(p, r), disk' = Append(disk, r)
      PROVE  WellFormedFile' /\ Custody' /\ ClosedIsFinal' /\ TermBound'
  <2>1. /\ DOMAIN disk' = DOMAIN disk \cup {Len(disk) + 1}
        /\ disk'[Len(disk) + 1] = r
        /\ \A i \in DOMAIN disk : disk'[i] = disk[i]
        /\ DOMAIN disk = 1..Len(disk) /\ Len(disk) \in Nat
        /\ \A i \in DOMAIN disk : disk[i] \in Record
    BY <1>0, <1>2
  <2>2. \A i \in DOMAIN disk : disk[i].hash = r.hash => disk[i] = r
    BY <1>2 DEF Accepts, CollisionFree
  <2>3. \/ r.op = "REGISTER" /\ RegisterFacts(r, now)
        \/ /\ r.op # "REGISTER"
           /\ \E j \in DOMAIN disk :
                /\ Succeeds(disk[j], r)
                /\ disk[j].op \notin {"REVOKE", "RELINQUISH"}
                /\ r.op = "RELINQUISH" => r.notAfter = r.notBefore
                /\ r.notBefore <= now + MAX_CLOCK_SKEW_SECONDS
                /\ \/ r.notAfter = disk[j].notAfter
                   \/ r.notAfter <= r.notBefore + RENEWAL_WINDOW_SECONDS + TERM_SECONDS
    BY <1>2, AcceptedIntoFile
  <2>4. /\ r.op = "RELINQUISH" => r.notAfter = r.notBefore
    BY <2>3
  <2>5. WellFormedFile'
    BY <2>1, <2>2, <2>4 DEF StoreInv, WellFormedFile
  <2>6. Custody'
    <3> SUFFICES ASSUME NEW i \in DOMAIN disk', disk'[i].op # "REGISTER"
                 PROVE  \E j \in 1..(i - 1) : Succeeds(disk'[j], disk'[i])
      BY DEF Custody
    <3>1. CASE i \in DOMAIN disk
      <4>1. PICK j \in 1..(i - 1) : Succeeds(disk[j], disk[i])
        BY <2>1, <3>1 DEF StoreInv, Custody
      <4>2. j \in DOMAIN disk
        BY <2>1, <3>1
      <4> QED BY <2>1, <3>1, <4>1, <4>2
    <3>2. CASE i = Len(disk) + 1
      <4>1. PICK j \in DOMAIN disk : Succeeds(disk[j], r)
        BY <2>1, <2>3, <3>2
      <4>2. j \in 1..(i - 1)
        BY <2>1, <3>2
      <4> QED BY <2>1, <3>2, <4>1, <4>2
    <3> QED BY <2>1, <3>1, <3>2
  <2>7. ClosedIsFinal'
    <3> SUFFICES ASSUME NEW i \in DOMAIN disk', NEW j \in DOMAIN disk',
                        disk'[i].op \in {"REVOKE", "RELINQUISH"},
                        disk'[j].op # "REGISTER",
                        disk'[j].prevHash = disk'[i].hash
                 PROVE  FALSE
      BY DEF ClosedIsFinal
    <3>1. PICK k \in DOMAIN disk : disk[k].hash = disk'[j].prevHash
                                   /\ disk[k].op \notin {"REVOKE", "RELINQUISH"}
      <4>1. CASE j \in DOMAIN disk
        <5>1. PICK k \in 1..(j - 1) : Succeeds(disk[k], disk[j])
          BY <2>1, <4>1 DEF StoreInv, Custody
        <5>2. k \in DOMAIN disk
          BY <2>1, <4>1
        <5>3. disk[k].hash = disk[j].prevHash
          BY <5>1 DEF Succeeds
        <5>4. disk[k].op \notin {"REVOKE", "RELINQUISH"}
          BY <2>1, <4>1, <5>2, <5>3 DEF StoreInv, ClosedIsFinal
        <5> QED BY <2>1, <4>1, <5>2, <5>3, <5>4
      <4>2. CASE j = Len(disk) + 1
        BY <2>1, <2>3, <4>2 DEF Succeeds
      <4> QED BY <2>1, <4>1, <4>2
    <3>2. disk[k] = disk'[i]
      BY <2>1, <2>2, <3>1 DEF StoreInv, WellFormedFile
    <3> QED BY <3>1, <3>2
  <2>8. TermBound'
    <3> DEFINE Bound == now + MAX_CLOCK_SKEW_SECONDS + RENEWAL_WINDOW_SECONDS + TERM_SECONDS
    <3>1. \A i \in DOMAIN disk : disk[i].notAfter <= Bound
      BY DEF StoreInv, TermBound
    <3>2. r.notAfter \in Nat /\ r.notBefore \in Nat
      BY DEF Record
    <3>3. \/ r.notAfter <= r.notBefore + RENEWAL_WINDOW_SECONDS + TERM_SECONDS
             /\ r.notBefore <= now + MAX_CLOCK_SKEW_SECONDS
          \/ \E j \in DOMAIN disk : r.notAfter = disk[j].notAfter
      BY <2>3, <3>2, DurationsAssumption DEF RegisterFacts
    <3>4. r.notAfter <= Bound
      BY <1>0, <3>1, <3>2, <3>3, DurationsAssumption
    <3> QED BY <1>2, <2>1, <3>1, <3>4 DEF TermBound
  <2> QED BY <2>5, <2>6, <2>7, <2>8
<1> QED BY <1>1, <1>2, FileStep DEF StoreInv

-----------------------------------------------------------------------------
(***************************************************************************)
(* The theorems.                                                           *)
(***************************************************************************)

\* The invariant holds of the empty log.
LEMMA InitInv == Init => StoreInv
<1> SUFFICES ASSUME Init PROVE StoreInv
  OBVIOUS
<1>1. TypeOK
  BY InitType
<1>2. disk = << >> /\ \A p \in Procs : mem[p] = NoStore("closed")
  BY DEF Init
<1>3. \A p \in Procs : /\ mem[p].phase = "closed"
                       /\ mem[p].entries = << >>
                       /\ mem[p].names = EmptyIndex
  BY <1>2, NoStoreFields
<1>4. ReplaysTheFile
  BY <1>3 DEF ReplaysTheFile
<1>5. MemoryIsDurable
  <2>1. ASSUME NEW p \in Procs
        PROVE  \E f \in [DOMAIN mem[p].entries -> DOMAIN disk] :
                 /\ \A i \in DOMAIN f : mem[p].entries[i] = disk[f[i]]
                 /\ \A i, j \in DOMAIN f : i < j => f[i] < f[j]
    <3>1. DOMAIN mem[p].entries = {}
      BY <1>3
    <3>2. [i \in {} |-> 0] \in [DOMAIN mem[p].entries -> DOMAIN disk]
      BY <3>1
    <3> QED BY <3>1, <3>2
  <2> QED BY <2>1 DEF MemoryIsDurable
<1>6. SignerSigned
  BY <1>3 DEF SignerSigned, EmptyIndex
<1>7. WellFormedFile /\ Custody /\ ClosedIsFinal /\ TermBound
  BY <1>2 DEF WellFormedFile, Custody, ClosedIsFinal, TermBound
<1> QED BY <1>1, <1>4, <1>5, <1>6, <1>7 DEF StoreInv

\* Every step keeps the invariant.
LEMMA NextInv == StoreInv /\ [Next]_vars => StoreInv'
<1> SUFFICES ASSUME StoreInv, [Next]_vars PROVE StoreInv'
  OBVIOUS
<1>1. TypeOK' /\ ReplaysTheFile' /\ MemoryIsDurable' /\ SignerSigned'
  BY NextType, ReplayKept, DurableKept, SignerKept DEF StoreInv
<1>2. WellFormedFile' /\ Custody' /\ ClosedIsFinal' /\ TermBound'
  BY FileKept
<1> QED BY <1>1, <1>2 DEF StoreInv

\* The conjuncts of the inductive invariant hold in every reachable state.
THEOREM InvariantHolds == Spec => []StoreInv
BY InitInv, NextInv, PTL DEF Spec

\* Chain of custody: every record of the file that is not a REGISTER extends an earlier
\* one and is signed by the key entitled to extend it (verify.ts, store.ts), for any
\* number of processes that share the file.
THEOREM CustodyHolds == Spec => []Custody
BY InvariantHolds, PTL DEF StoreInv

\* No record of the file extends a REVOKE or a RELINQUISH (lifecycle.ts).
THEOREM ClosedIsFinalHolds == Spec => []ClosedIsFinal
BY InvariantHolds, PTL DEF StoreInv

\* No chain of renewals reaches past a term, the renewal window and the clock tolerance.
THEOREM TermBoundHolds == Spec => []TermBound
BY InvariantHolds, PTL DEF StoreInv

\* What a process has in memory is in the file, in order, whatever writes failed.
THEOREM MemoryIsDurableHolds == Spec => []MemoryIsDurable
BY InvariantHolds, PTL DEF StoreInv

\* apply starts a chain at a REGISTER and extends the chain held otherwise.
LEMMA RootOfApply ==
  ASSUME NEW names, NEW r \in Record, r.op = "REGISTER"
  PROVE  apply(names, r)[r.name].rootHash = r.hash
BY DEF apply

\* A step of a running process leaves an entry alone or moves the title lawfully.
LEMMA TitleStep ==
  ASSUME StoreInv, [Next]_vars, NEW p \in Procs,
         mem[p].phase = "open", mem'[p].phase = "open",
         NEW n \in DOMAIN mem[p].names
  PROVE  /\ n \in DOMAIN mem'[p].names
         /\ \/ mem'[p].names[n] = mem[p].names[n]
            \/ TitleMoves(mem[p].names[n], mem'[p].names[n], now)
<1> DEFINE old == mem[p].names
           new == mem'[p].names
<1>0. IndexOK(old) /\ now \in Nat /\ TypeOK
  BY DEF StoreInv, TypeOK
<1>1. CASE mem'[p] = mem[p]
  BY <1>1
<1>2. ASSUME NEW phase \in {"closed", "refused"}, mem'[p] = NoStore(phase)
      PROVE  FALSE
  BY <1>2, NoStoreFields
<1>3. ASSUME NEW r \in Record, Accepts(p, r), mem'[p] = Remembered(mem[p], r)
      PROVE  n \in DOMAIN new /\ (new[n] = old[n] \/ TitleMoves(old[n], new[n], now))
  <2>1. new = apply(old, r)
    BY <1>3 DEF Remembered, Memory
  <2>2. /\ DOMAIN apply(old, r) = DOMAIN old \cup {r.name}
        /\ apply(old, r)[r.name].record = r
        /\ \A m \in DOMAIN old : m # r.name => apply(old, r)[m] = old[m]
    BY ApplyAt
  <2>3. CASE n # r.name
    BY <2>1, <2>2, <2>3
  <2>4. CASE n = r.name
    <3>1. Accepted(appendVerdict(mem[p].entries, old, r, now))
      BY <1>3 DEF Accepts
    <3>2. \/ r.op # "REGISTER" /\ SuccessorFacts(old[n], r, now)
          \/ r.op = "REGISTER" /\ (isFullyReleased(old[n].record, now)
                                   \/ r.hash < old[n].rootHash)
      BY <1>0, <2>4, <3>1, AppendAccepted
    <3>3. CASE r.op # "REGISTER" /\ SuccessorFacts(old[n], r, now)
      <4>1. /\ old[n].record.name = r.name
            /\ old[n].signerKey = old[n].record.sig
        BY <1>0, <2>4 DEF IndexOK, StoreInv, SignerSigned
      <4>2. r.sig = RightfulKey(old[n].record, r.notBefore)
        BY <3>3, <4>1 DEF SuccessorFacts, RightfulKey, controllingKey
      <4>3. Succeeds(old[n].record, r) /\ r.prevHash = old[n].record.hash
        BY <3>3, <4>1, <4>2 DEF SuccessorFacts, Succeeds
      <4> QED BY <2>1, <2>2, <2>4, <4>3 DEF TitleMoves
    <3>4. CASE r.op = "REGISTER"
      <4>1. apply(old, r)[r.name].rootHash = r.hash
        BY <3>4, RootOfApply
      <4> QED BY <2>1, <2>2, <2>4, <3>2, <3>4, <4>1 DEF TitleMoves
    <3> QED BY <3>2, <3>3, <3>4
  <2> QED BY <2>3, <2>4
<1>4. CASE mem'[p] = Memory("replaying", disk, << >>, EmptyIndex)
  BY <1>4 DEF Memory
<1> QED BY <1>0, <1>1, <1>2, <1>3, <1>4, MemoryStep

\* A running process gives a name away only to a lawful successor, after its full
\* release, or to a registration with a smaller digest (append, mergeConflict).
THEOREM TitleIsDefendedHolds == Spec => TitleIsDefended
<1>1. StoreInv /\ [Next]_vars =>
        [\A p \in Procs : mem[p].phase = "open" /\ mem'[p].phase = "open" =>
           \A n \in DOMAIN mem[p].names :
             /\ n \in DOMAIN mem'[p].names
             /\ \/ mem'[p].names[n] = mem[p].names[n]
                \/ TitleMoves(mem[p].names[n], mem'[p].names[n], now)]_vars
  BY TitleStep
<1> QED BY <1>1, InvariantHolds, PTL DEF Spec, TitleIsDefended

-----------------------------------------------------------------------------
(***************************************************************************)
(* The file implements the abstract registry.                              *)
(***************************************************************************)

\* The two modules mean the same by a lawful successor.
LEMMA SameSucceeds ==
  ASSUME NEW prev, NEW r
  PROVE  Lawful!Succeeds(prev, r) <=> Succeeds(prev, r)
BY DEF Lawful!Succeeds, Succeeds, Lawful!RightfulKey, RightfulKey

\* A record an open process accepts is one the log itself makes lawful.
LEMMA AcceptedIsLawful ==
  ASSUME StoreInv, NEW p \in Procs, NEW r \in Record, Accepts(p, r)
  PROVE  Lawful!LawfulRegistration(r) \/ Lawful!LawfulExtension(r)
BY AcceptedIntoFile, SameSucceeds
   DEF RegisterFacts, Lawful!LawfulRegistration, Lawful!LawfulExtension

\* Every step of the store adds one lawful record to the file, lets time pass, or
\* leaves both alone.
LEMMA StepIsLawful ==
  StoreInv /\ [Next]_vars => [Lawful!Next]_<<now, disk>>
<1> SUFFICES ASSUME StoreInv, [Next]_vars PROVE [Lawful!Next]_<<now, disk>>
  OBVIOUS
<1>1. CASE disk' = disk
  BY <1>1, FileStep DEF StoreInv, Lawful!Next, Lawful!TimePasses
<1>2. ASSUME NEW p \in Procs, NEW r \in Record, r \in Offered(disk, now),
             now' = now, Accepts(p, r), disk' = Append(disk, r)
      PROVE  Lawful!Next
  <2>1. r \in Lawful!Record
    BY DEF Lawful!Record, Record, Lawful!Operations, Operations, Lawful!NoKey, NoKey
  <2> QED BY <1>2, <2>1, AcceptedIsLawful DEF Lawful!Next, Lawful!Enter
<1> QED BY <1>1, <1>2, FileStep DEF StoreInv

\* The file implements the abstract registry: for any number of processes, with
\* failing writes, crashes and stale indexes, it is a log to which only lawful
\* records are added (store.ts append, verify.ts).
THEOREM StoreImplementsLawfulRegistry == Spec => ImplementsLawfulRegistry
<1>1. Init => Lawful!Init
  BY DEF Init, Lawful!Init
<1>2. StoreInv /\ [Next]_vars => [Lawful!Next]_<<now, disk>>
  BY StepIsLawful
<1> QED BY <1>1, <1>2, InvariantHolds, PTL DEF Spec, ImplementsLawfulRegistry, Lawful!Spec

-----------------------------------------------------------------------------
(***************************************************************************)
(* Cancelling a transfer.                                                  *)
(***************************************************************************)

\* The index goes on holding records that parse, revoked only by a REVOKE.
LEMMA ParsedKept == TypeOK /\ IndexIsParsed /\ [Next]_vars => IndexIsParsed'
<1> DEFINE Parsed(m) ==
      \A n \in DOMAIN m.names :
        /\ parseRecord(m.names[n].record) = "parsed"
        /\ m.names[n].revoked => m.names[n].record.op = "REVOKE"
<1> SUFFICES ASSUME TypeOK, IndexIsParsed, [Next]_vars, NEW p \in Procs
             PROVE  Parsed(mem'[p])
  BY DEF IndexIsParsed, parseRecord
<1>0. /\ mem[p].entries \in Seq(Record) /\ mem[p].file \in Seq(Record)
      /\ IndexOK(mem[p].names) /\ now \in Nat
  BY DEF TypeOK
<1>a. Parsed(mem[p])
  BY DEF IndexIsParsed
<1>b. ASSUME NEW r \in Record, parseRecord(r) = "parsed",
             r.op # "REGISTER" => r.name \in DOMAIN mem[p].names /\ ~mem[p].names[r.name].revoked
      PROVE  Parsed(Remembered(mem[p], r))
  <2> DEFINE old == mem[p].names
             new == apply(old, r)
  <2>1. Remembered(mem[p], r).names = new
    BY DEF Remembered, Memory
  <2>2. new[r.name].revoked => r.op = "REVOKE"
    BY <1>0, <1>b, RevokedOfApply
  <2>3. /\ new[r.name].record = r
        /\ DOMAIN new = DOMAIN old \cup {r.name}
        /\ \A n \in DOMAIN old : n # r.name => new[n] = old[n]
    BY ApplyAt
  <2>4. \A n \in DOMAIN old : /\ parseRecord(old[n].record) = "parsed"
                              /\ old[n].revoked => old[n].record.op = "REVOKE"
    BY <1>a
  <2> HIDE DEF old, new
  <2>5. \A n \in DOMAIN new : /\ parseRecord(new[n].record) = "parsed"
                              /\ new[n].revoked => new[n].record.op = "REVOKE"
    BY <1>b, <2>2, <2>3, <2>4
  <2> QED BY <2>1, <2>5
<1>1. CASE \/ mem'[p] = mem[p]
           \/ mem'[p] = Memory("open", << >>, mem[p].entries, mem[p].names)
  BY <1>1, <1>a DEF Memory
<1>2. CASE mem'[p] = Memory("replaying", disk, << >>, EmptyIndex)
  BY <1>2 DEF Memory, EmptyIndex
<1>3. ASSUME NEW phase, mem'[p] = NoStore(phase) PROVE Parsed(mem'[p])
  BY <1>3, NoStoreFields DEF EmptyIndex
<1>4. CASE /\ mem[p].phase = "replaying"
           /\ Len(mem[p].entries) < Len(mem[p].file)
           /\ replayVerdict(mem[p]) = "accept"
           /\ mem'[p] = Remembered(mem[p], mem[p].file[Len(mem[p].entries) + 1])
  <2> DEFINE r == mem[p].file[Len(mem[p].entries) + 1]
  <2>1. r \in Record
    BY <1>0, <1>4
  <2>2. verify(mem[p].entries, mem[p].names, r, r.notBefore, FALSE) = "accept"
    BY <1>4 DEF replayVerdict
  <2>3. mem'[p] = Remembered(mem[p], r)
    BY <1>4
  <2> HIDE DEF r, Parsed
  <2>4. /\ parseRecord(r) = "parsed"
        /\ r.op # "REGISTER" => r.name \in DOMAIN mem[p].names /\ ~mem[p].names[r.name].revoked
    BY <2>1, <2>2, VerifiedIsParsed
  <2> QED BY <1>b, <2>1, <2>3, <2>4
<1>5. ASSUME NEW r \in Record, Accepts(p, r), mem'[p] = Remembered(mem[p], r)
      PROVE  Parsed(mem'[p])
  <2>1. Accepted(appendVerdict(mem[p].entries, mem[p].names, r, now))
    BY <1>5 DEF Accepts
  <2>2. /\ parseRecord(r) = "parsed"
        /\ r.op # "REGISTER" => r.name \in DOMAIN mem[p].names /\ ~mem[p].names[r.name].revoked
    BY <1>0, <2>1, AppendedIsParsed
  <2> HIDE DEF Parsed
  <2> QED BY <1>5, <1>b, <2>2
<1> HIDE DEF Parsed
<1> QED BY <1>1, <1>2, <1>3, <1>4, <1>5, MemoryStep

\* verify accepts the TRANSFER by which a transferor takes its name back.
LEMMA CancelAccepted ==
  ASSUME TypeOK, IndexIsParsed, NEW p \in Procs, NEW n \in DOMAIN mem[p].names,
         Cancellable(mem[p].names[n]),
         now + SETTLEMENT_SECONDS <= mem[p].names[n].record.notAfter
  PROVE  CancelVerdict(mem[p], n) = "accept"
<1> DEFINE held == mem[p].names[n]
           prev == held.record
           r == CancelOf(held)
<1>1. /\ held \in NameEntry /\ prev \in Record /\ prev.name = n /\ now \in Nat
  BY DEF TypeOK, IndexOK, NameEntry
<1>2. parseRecord(prev) = "parsed" /\ (held.revoked => prev.op = "REVOKE")
  BY DEF IndexIsParsed
<1>3. /\ prev.op = "TRANSFER" /\ prev.ownerKey # held.signerKey /\ prev.seq < MAX_SEQ
      /\ now >= prev.notBefore + MIN_INTERVAL_SECONDS
      /\ now < prev.notBefore + SETTLEMENT_SECONDS
      /\ now + SETTLEMENT_SECONDS <= prev.notAfter
  BY DEF Cancellable
<1>4. CancelVerdict(mem[p], n) = verify(mem[p].entries, mem[p].names, r, now, FALSE)
  BY DEF CancelVerdict
<1> HIDE DEF held
<1>5. /\ r.op = "TRANSFER" /\ r.name = n /\ r.suite = prev.suite /\ r.pow = prev.pow
      /\ r.notAfter = prev.notAfter /\ r.ownerKey = held.signerKey
      /\ r.seq = prev.seq + 1 /\ r.notBefore = now /\ r.prevHash = prev.hash
      /\ r.sig = held.signerKey /\ r.coSig = held.signerKey
  BY <1>1, <1>3 DEF CancelOf, Record
<1> HIDE DEF r
<1>6. /\ prev.seq \in Nat /\ prev.notBefore \in Nat /\ prev.notAfter \in Nat
      /\ prev.suite \in Nat /\ held.signerKey \in Keys
      /\ held.signerKey # NoKey
  BY <1>1, NoKeyAssumption DEF NameEntry, Record
<1> USE DurationsAssumption, DifficultyAssumption
<1>7. parseRecord(r) = "parsed"
  <2>1. prev.suite \in ActiveSuites /\ prev.pow = NoPow
    BY <1>2, <1>3 DEF parseRecord, NeedsPow
  <2> QED BY <1>1, <1>3, <1>5, <1>6, <2>1 DEF parseRecord, NeedsPow
<1>8. verifyOperation(mem[p].entries, prev, r) = "accept"
  BY <1>1, <1>3, <1>5, <1>6 DEF verifyOperation
<1>9. clockVerdict(r, now) = "timely"
  BY <1>1, <1>5 DEF clockVerdict
<1>10. acceptsSuccessor(prev, now, r.op)
  BY <1>1, <1>3, <1>5, <1>6 DEF acceptsSuccessor, lifecycleOf
<1>11. controllingKey(held, r.notBefore) = held.signerKey
  BY <1>3, <1>5 DEF controllingKey
<1>12. ~Unsettled(prev, r)
  BY <1>5 DEF Unsettled
<1>13. ~held.revoked
  BY <1>2, <1>3
<1>14. verifySuccessor(mem[p].entries, held, r, now) = "accept"
  BY <1>1, <1>3, <1>5, <1>6, <1>8, <1>9, <1>10, <1>11, <1>12, <1>13 DEF verifySuccessor
<1>15. verify(mem[p].entries, mem[p].names, r, now, FALSE) = "accept"
  BY <1>5, <1>7, <1>14 DEF verify, held
<1> QED BY <1>4, <1>15

\* A pending transfer can be taken back for as long as the term left lets the way back
\* settle (verify.ts, settlement), whatever any recipient does meanwhile.
THEOREM TransferorCanCancelHolds == Spec => []TransferorCanCancel
<1>1. Init => IndexIsParsed
  <2> SUFFICES ASSUME Init, NEW p \in Procs PROVE DOMAIN mem[p].names = {}
    BY DEF IndexIsParsed
  <2>1. mem[p] = NoStore("closed")
    BY DEF Init
  <2> QED BY <2>1, NoStoreFields DEF EmptyIndex
<1>2. TypeOK /\ IndexIsParsed => TransferorCanCancel
  BY CancelAccepted DEF TransferorCanCancel
<1> QED BY <1>1, <1>2, TypeCorrect, ParsedKept, PTL DEF Spec
=============================================================================
