------------------------------- MODULE Store -------------------------------
(***************************************************************************)
(* The append-only log of store.ts and the processes that hold it open.    *)
(*                                                                         *)
(* A process (a run of the command line: sync, register, update, ...)      *)
(* opens the log by replaying the file, keeps the entries and the index of *)
(* names in memory, and appends the records it is offered.  Nothing locks  *)
(* the file, so two processes may hold it open at once, each with the      *)
(* memory it built when it opened.                                         *)
(*                                                                         *)
(* append writes to the file before it changes memory.  A write can fail   *)
(* with nothing or with part of an entry on disk, and the process goes on  *)
(* (onRecords counts the record as rejected and takes the next one); a     *)
(* process can also stop between or in the middle of the two.              *)
(*                                                                         *)
(* The store of this module has no equivocation recorder attached.         *)
(***************************************************************************)
EXTENDS RegistryRules

CONSTANTS
  Procs,                  \* processes that share the log file
  Offered(_, _),          \* records offered when the file holds a log at a time
  MaxTime,                \* bound: last second of the clock
  MaxLog                  \* bound: entries in the file

VARIABLES
  now,                    \* the clock, in seconds
  disk,                   \* the entries of the log file, in order
  torn,                   \* whether part of an entry is in the file as well
  mem                     \* the memory of each process

vars == <<now, disk, torn, mem>>

\* A process is closed (no store), replaying the file it read, open, or was
\* refused (Store.open threw).
Phases == {"closed", "replaying", "open", "refused"}

Memory(phase, file, entries, names) ==
  [phase |-> phase, file |-> file, entries |-> entries, names |-> names]

NoStore(phase) == Memory(phase, << >>, << >>, EmptyIndex)

-----------------------------------------------------------------------------
Init ==
  /\ now = 0
  /\ disk = << >>
  /\ torn = FALSE
  /\ mem = [p \in Procs |-> NoStore("closed")]

Tick ==
  /\ now < MaxTime
  /\ now' = now + 1
  /\ UNCHANGED <<disk, torn, mem>>

\* Store.open reads the whole file; unframe throws when an entry is cut short.
ReadLog(p) ==
  /\ mem[p].phase = "closed"
  /\ mem' = [mem EXCEPT ![p] =
               IF torn THEN NoStore("refused")
                       ELSE Memory("replaying", disk, << >>, EmptyIndex)]
  /\ UNCHANGED <<now, disk, torn>>

\* The verdict Store.open asks for on the next entry: at the entry's own time,
\* against the entries before it, and without the merge path of append.
replayVerdict(m) ==
  LET r == m.file[Len(m.entries) + 1]
  IN  verify(m.entries, m.names, r, r.notBefore, FALSE)

\* apply, on the memory of a process.
Remembered(m, r) ==
  Memory(m.phase, m.file, Append(m.entries, r), apply(m.names, r))

ReplayEntry(p) ==
  /\ mem[p].phase = "replaying"
  /\ Len(mem[p].entries) < Len(mem[p].file)
  /\ mem' = [mem EXCEPT ![p] =
               IF replayVerdict(mem[p]) = "accept"
               THEN Remembered(mem[p], mem[p].file[Len(mem[p].entries) + 1])
               ELSE NoStore("refused")]
  /\ UNCHANGED <<now, disk, torn>>

Opened(p) ==
  /\ mem[p].phase = "replaying"
  /\ Len(mem[p].entries) = Len(mem[p].file)
  /\ mem' = [mem EXCEPT ![p] = Memory("open", << >>, mem[p].entries, mem[p].names)]
  /\ UNCHANGED <<now, disk, torn>>

\* No two records have one digest (SHA-256 is taken to be collision free).
CollisionFree(r) == \A i \in DOMAIN disk : disk[i].hash = r.hash => disk[i] = r

\* A record that append, or its merge path, accepts.
Accepts(p, r) ==
  /\ mem[p].phase = "open"
  /\ Len(disk) < MaxLog
  /\ r \in Record
  /\ CollisionFree(r)
  /\ Accepted(appendVerdict(mem[p].entries, mem[p].names, r, now))

\* append: write, then apply.  A rejected or duplicate record changes nothing.
AppendRecord(p, r) ==
  /\ Accepts(p, r)
  /\ disk' = Append(disk, r)
  /\ mem' = [mem EXCEPT ![p] = Remembered(mem[p], r)]
  /\ UNCHANGED <<now, torn>>

\* Mutant: memory is changed although nothing was written.
FailedWriteApplied(p, r) ==
  /\ Accepts(p, r)
  /\ mem' = [mem EXCEPT ![p] = Remembered(mem[p], r)]
  /\ UNCHANGED <<now, disk, torn>>

\* write throws: memory is as it was, the file may hold part of the entry.
FailedWrite(p, r) ==
  /\ Accepts(p, r)
  /\ torn' = TRUE
  /\ UNCHANGED <<now, disk, mem>>

\* The process ends during append, with part or all of the entry written.
CrashInAppend(p, r) ==
  /\ Accepts(p, r)
  /\ \/ disk' = Append(disk, r) /\ UNCHANGED torn
     \/ torn' = TRUE /\ UNCHANGED disk
  /\ mem' = [mem EXCEPT ![p] = NoStore("closed")]
  /\ UNCHANGED now

\* The process ends: it was refused, interrupted or is done.
Stop(p) ==
  /\ mem[p].phase # "closed"
  /\ mem' = [mem EXCEPT ![p] = NoStore("closed")]
  /\ UNCHANGED <<now, disk, torn>>

Next ==
  \/ Tick
  \/ \E p \in Procs :
       \/ ReadLog(p)
       \/ ReplayEntry(p)
       \/ Opened(p)
       \/ Stop(p)
       \/ \E r \in Offered(disk, now) :
            \/ AppendRecord(p, r)
            \/ FailedWrite(p, r)
            \/ CrashInAppend(p, r)

Spec == Init /\ [][Next]_vars

-----------------------------------------------------------------------------
(***************************************************************************)
(* Properties                                                              *)
(***************************************************************************)

\* Logs hold records, and the memory of a process is a log and an index.
TypeOK ==
  /\ now \in Nat
  /\ disk \in Seq(Record)
  /\ torn \in BOOLEAN
  /\ DOMAIN mem = Procs
  /\ \A p \in Procs :
       /\ mem[p].phase \in Phases
       /\ mem[p].file \in Seq(Record)
       /\ mem[p].entries \in Seq(Record)
       /\ IndexOK(mem[p].names)

\* Chain of custody (verify.ts with the signerKey that store.ts keeps): every
\* record of the log file that is not a REGISTER extends an earlier record of the
\* file and is signed by the key entitled to extend it, whatever processes wrote
\* the two, and ownership moves only to a key that countersigned.
Custody ==
  \A i \in DOMAIN disk : disk[i].op # "REGISTER" =>
    \E j \in 1..(i - 1) : Succeeds(disk[j], disk[i])

\* REVOKE and RELINQUISH end a chain (lifecycle.ts): no later record of the file
\* extends one, by whichever process it was written.
ClosedIsFinal ==
  \A i, j \in DOMAIN disk :
    disk[i].op \in {"REVOKE", "RELINQUISH"} /\ disk[j].op # "REGISTER" =>
      disk[j].prevHash # disk[i].hash

\* Renewals cannot pile up (verify.ts, the renewal window): no chain of records,
\* however long, holds a name for longer than a term, the renewal window and the
\* clock tolerance from now.
TermBound ==
  \A i \in DOMAIN disk :
    disk[i].notAfter <=
      now + MAX_CLOCK_SKEW_SECONDS + RENEWAL_WINDOW_SECONDS + TERM_SECONDS

\* append writes before it applies: what a process has in memory is in the file,
\* in the same order, so nothing it answered from is lost when it ends.
MemoryIsDurable ==
  \A p \in Procs :
    \E f \in [DOMAIN mem[p].entries -> DOMAIN disk] :
      /\ \A i \in DOMAIN f : mem[p].entries[i] = disk[f[i]]
      /\ \A i, j \in DOMAIN f : i < j => f[i] < f[j]

\* Store.open replays the file it read, in order, and the file only grows meanwhile.
ReplaysTheFile ==
  \A p \in Procs : mem[p].phase = "replaying" =>
    /\ Len(mem[p].entries) <= Len(mem[p].file)
    /\ \A i \in DOMAIN mem[p].entries : mem[p].entries[i] = mem[p].file[i]
    /\ Len(mem[p].file) <= Len(disk)
    /\ \A i \in DOMAIN mem[p].file : mem[p].file[i] = disk[i]

\* The index speaks of records of the log, and the signer key it keeps beside a
\* record (NameEntry.current.signerKey) is the key that signed the record.
SignerSigned ==
  \A p \in Procs : \A n \in DOMAIN mem[p].names :
    /\ \E i \in DOMAIN mem[p].entries : mem[p].entries[i] = mem[p].names[n].record
    /\ mem[p].names[n].signerKey = mem[p].names[n].record.sig

\* Records of the file with one digest are one record, and a RELINQUISH ends at once.
WellFormedFile ==
  /\ \A i, j \in DOMAIN disk : disk[i].hash = disk[j].hash => disk[i] = disk[j]
  /\ \A i \in DOMAIN disk :
       disk[i].op = "RELINQUISH" => disk[i].notAfter = disk[i].notBefore

\* The inductive invariant of the proofs.
StoreInv ==
  /\ TypeOK
  /\ ReplaysTheFile
  /\ MemoryIsDurable
  /\ SignerSigned
  /\ WellFormedFile
  /\ Custody
  /\ ClosedIsFinal
  /\ TermBound

\* What lets a process replace the record it holds for a name.
TitleMoves(held, next, at) ==
  \/ next.record.prevHash = held.record.hash /\ Succeeds(held.record, next.record)
  \/ next.record.op = "REGISTER" /\ isFullyReleased(held.record, at)
  \/ next.record.op = "REGISTER" /\ next.rootHash < held.rootHash

\* A running process replaces the record it holds for a name only by a lawful
\* successor, after the name was fully released, or by a registration with a
\* smaller digest than the one its chain descends from (append, mergeConflict).
TitleIsDefended ==
  [][\A p \in Procs : mem[p].phase = "open" /\ mem'[p].phase = "open" =>
       \A n \in DOMAIN mem[p].names :
         /\ n \in DOMAIN mem'[p].names
         /\ \/ mem'[p].names[n] = mem[p].names[n]
            \/ TitleMoves(mem[p].names[n], mem'[p].names[n], now)]_vars

\* Store.open (and the tests "a reopened store ..."): a log that append wrote, and
\* that no crash cut short, opens again.
Reopens == \A p \in Procs : mem[p].phase = "refused" => torn

\* Steps in which process p, running, gives name n to another registration although
\* the record it held was not yet fully released.
Displaced(p, n) ==
  /\ mem[p].phase = "open" /\ mem'[p].phase = "open"
  /\ n \in DOMAIN mem[p].names
  /\ mem'[p].names[n].rootHash # mem[p].names[n].rootHash
  /\ ~isFullyReleased(mem[p].names[n].record, now)

\* The REGISTER that the chain a process holds for a name descends from.
ChainRoot(m, n) ==
  CHOOSE r \in {m.entries[i] : i \in DOMAIN m.entries} : r.hash = m.names[n].rootHash

\* REGISTRY.md, "A late claim is not a concurrent claim": a registration dated more
\* than MAX_BACKDATE_SECONDS after the incumbent's never displaces it.
LateClaimIsRefused ==
  [][\A p \in Procs : \A n \in Names : Displaced(p, n) =>
       mem'[p].names[n].record.notBefore <=
         ChainRoot(mem[p], n).notBefore + MAX_BACKDATE_SECONDS]_vars

\* REGISTRY.md, "Equivocation is not a race": the key that registered a name never
\* displaces its own registration.
OwnRegistrationStands ==
  [][\A p \in Procs : \A n \in Names : Displaced(p, n) =>
       mem'[p].names[n].record.ownerKey # ChainRoot(mem[p], n).ownerKey]_vars

\* The TRANSFER by which the transferor takes a pending transfer back, dated now.
CancelOf(held) ==
  [held.record EXCEPT !.hash = held.record.hash + 1, !.ownerKey = held.signerKey,
     !.seq = held.record.seq + 1, !.notBefore = now, !.prevHash = held.record.hash,
     !.sig = held.signerKey, !.coSig = held.signerKey]

\* A transfer to another key is pending and a successor may be dated now.
Cancellable(held) ==
  /\ held.record.op = "TRANSFER"
  /\ held.record.ownerKey # held.signerKey
  /\ held.record.seq < MAX_SEQ
  /\ now >= held.record.notBefore + MIN_INTERVAL_SECONDS
  /\ now < held.record.notBefore + SETTLEMENT_SECONDS

CancelVerdict(m, n) == verify(m.entries, m.names, CancelOf(m.names[n]), now, FALSE)

\* Settlement (verify.ts): while a transfer settles, a TRANSFER back is accepted for
\* as long as the term left is enough for it to settle; no step of the recipient, or
\* of an earlier recipient, takes this away.
TransferorCanCancel ==
  \A p \in Procs : mem[p].phase = "open" =>
    \A n \in DOMAIN mem[p].names :
      /\ Cancellable(mem[p].names[n])
      /\ now + SETTLEMENT_SECONDS <= mem[p].names[n].record.notAfter
      => CancelVerdict(mem[p], n) = "accept"

\* What a process holds for a name is a record that parses, and it holds the name for
\* revoked only by a REVOKE: what TransferorCanCancel rests on.
IndexIsParsed ==
  \A p \in Procs : \A n \in DOMAIN mem[p].names :
    /\ parseRecord(mem[p].names[n].record) = "parsed"
    /\ mem[p].names[n].revoked => mem[p].names[n].record.op = "REVOKE"

\* REGISTRY.md, "Cancellation is a TRANSFER back": stated of every pending transfer.
EveryTransferIsCancellable ==
  \A p \in Procs : mem[p].phase = "open" =>
    \A n \in DOMAIN mem[p].names :
      Cancellable(mem[p].names[n]) => CancelVerdict(mem[p], n) = "accept"

\* The registry the file is an implementation of.
Lawful == INSTANCE LawfulRegistry WITH log <- disk

\* The file, whatever processes share it, crash or hold a stale index, is a log to
\* which only lawful records are ever added (store.ts append, verify.ts).
ImplementsLawfulRegistry == Lawful!Spec
=============================================================================
