--------------------------- MODULE RepositoryJournal ---------------------------
(***************************************************************************)
(* How a transaction of the central repository reaches the disk (state.py, *)
(* protocol.py RepositoryCommitter) and what a crash, an exception or a    *)
(* spoilt processes.json leaves of it.  A process (the manager or a        *)
(* control client) writes one file per step, each atomically (atomic.py);  *)
(* between any two steps it may die or raise, and another process may read *)
(* the repository without the lock.                                        *)
(*                                                                         *)
(* The in-process lock of a StateStore keeps the threads of one process    *)
(* apart, so a process is one actor.  A rebuild reads the record files in  *)
(* one step; prunes are not modelled here (they move run files themselves).*)
(***************************************************************************)
EXTENDS CentralState

CONSTANTS Processes,
          Settings  \* who uses the repository, what may happen to processes.json

ASSUME RevisionAssumption == MaxRevision \in Nat
ASSUME SettingsAssumption ==
  Settings \subseteq [users : SUBSET Processes,  \* the processes there are
                     fragile : BOOLEAN,          \* processes.json may be spoilt
                     initialised : BOOLEAN]      \* it was there before all else
ASSUME AbsenceAssumption == None \notin Keys \cup Sessions \cup Processes

VARIABLES pending,     \* processes.pending.json
          main,        \* processes.json
          backup,      \* processes.backup.json
          runFile,     \* run directories: process.json
          sessionFile, \* sessions/<id>.json
          lock,        \* holder of the repository file lock
          pc,
          tx,          \* what a process is writing
          seen,        \* per process, the revision it last read or committed
          users, fragile

files == <<pending, main, backup, runFile, sessionFile>>
setting == <<users, fragile>>
vars == <<files, lock, pc, tx, seen, setting>>

Missing == [rev |-> -1]    \* no such file
Damaged == [rev |-> -2]    \* a file that is not valid JSON or not a valid state
NoTx == [run |-> None, session |-> None, delete |-> None, state |-> Missing]

Readable(file) == file.rev >= 0

\* A transaction replaces at most one run file and one session file, and deletes
\* at most one session file.
Tx(state, k, i, gone) == [run |-> k, session |-> i, delete |-> gone, state |-> state]

Transactions(s) ==
  {Tx(WithRun(s, k, i), k, i, None) : k \in Keys, i \in Open(s) \cup {None}}
  \cup {Tx(WithSession(s, i), None, i, None) : i \in Sessions \ s.tombstones}
  \cup {Tx(WithoutSession(s, i), None, None, i) : i \in Open(s)}

Pcs == {"idle", "recover", "open", "pending", "run", "session", "backup", "main",
        "delete", "unlink", "peeked", "read", "repair"}
File == Central \cup {Missing, Damaged}
TxRecord == [run : Keys \cup {None}, session : Sessions \cup {None},
             delete : Sessions \cup {None}, state : Central]

TypeOK ==
  /\ pending \in TxRecord \cup {NoTx}
  /\ main \in File /\ backup \in File \ {Damaged}
  /\ runFile \in [Keys -> 0..MaxRevision]
  /\ sessionFile \in [Sessions -> 0..MaxRevision]
  /\ lock \in Processes \cup {None}
  /\ pc \in [Processes -> Pcs]
  /\ tx \in [Processes -> TxRecord \cup {NoTx}]
  /\ seen \in [Processes -> 0..MaxRevision]
  /\ users \subseteq Processes /\ fragile \in BOOLEAN

Init ==
  /\ pending = NoTx /\ backup = Missing
  /\ \E s \in Settings : /\ users = s.users /\ fragile = s.fragile
                        /\ main = IF s.initialised THEN Empty ELSE Missing
  /\ runFile = [k \in Keys |-> 0]
  /\ sessionFile = [i \in Sessions |-> 0]
  /\ lock = None
  /\ pc = [p \in Processes |-> "idle"]
  /\ tx = [p \in Processes |-> NoTx]
  /\ seen = [p \in Processes |-> 0]

--------------------------------------------------------------------------------
(* What load() answers when there is no pending transaction. *)

\* StateRebuilder and restore_session_index
Rebuilt == [Empty EXCEPT !.run = runFile, !.session = sessionFile]

Larger(m, n) == IF m > n THEN m ELSE n

\* A backup with tombstones lends them, with its fence, to what is rebuilt; another
\* one counts only if nothing can be rebuilt.
Recovered ==
  IF main = Missing \/ ~Readable(backup) THEN Rebuilt
  ELSE IF backup.tombstones # {}
  THEN [Rebuilt EXCEPT !.tombstones = backup.tombstones, !.fence = backup.fence,
                       !.rev = Larger(backup.rev, @) + 1]
  ELSE IF \E k \in Keys : runFile[k] > 0 THEN Rebuilt
  ELSE IF \E i \in Sessions : sessionFile[i] > 0 THEN Rebuilt
  ELSE backup

--------------------------------------------------------------------------------
Goto(p, to) == pc' = [pc EXCEPT ![p] = to]
\* A step of the write sequence that holds the lock.
At(p, from, to) == pc[p] = from /\ Goto(p, to) /\ UNCHANGED <<lock, seen>>

Lock(p) ==
  /\ pc[p] = "idle" /\ lock = None
  /\ lock' = p /\ Goto(p, "recover")
  /\ UNCHANGED <<files, tx, seen>>

\* Mutant: a transaction starts from processes.json, whatever is pending.
SkipRecovery(p) == At(p, "recover", "open") /\ UNCHANGED <<tx, files>>
\* _recover_pending_transaction
Recover(p) ==
  /\ IF pending = NoTx THEN At(p, "recover", "open") /\ UNCHANGED tx
     ELSE At(p, "recover", "run") /\ tx' = [tx EXCEPT ![p] = pending]
  /\ UNCHANGED files

\* load() of a missing or spoilt processes.json, first half.
Rebuild(p, from) ==
  /\ pc[p] = from /\ ~Readable(main)
  /\ Goto(p, "repair")
  /\ tx' = [tx EXCEPT ![p] = Tx(Recovered, None, None, None)]
  /\ UNCHANGED <<files, lock, seen>>

\* ... second half: _save(backup=False).
Repair(p) ==
  /\ pc[p] = "repair"
  /\ main' = tx[p].state
  /\ IF lock = p THEN Goto(p, "open") ELSE Goto(p, "idle")
  /\ seen' = [seen EXCEPT ![p] = tx[p].state.rev]
  /\ UNCHANGED <<pending, backup, runFile, sessionFile, lock, tx>>

\* The body of the transaction loads the state and calls commit_repository ...
Commit(p) ==
  /\ At(p, "open", "pending")
  /\ Readable(main) /\ main.rev < MaxRevision
  /\ \E t \in Transactions(main) :
       t.state \in Central /\ tx' = [tx EXCEPT ![p] = t]
  /\ UNCHANGED files
\* ... or save, for what has no file of its own.
Save(p) ==
  /\ At(p, "open", "backup")
  /\ Readable(main) /\ main.rev < MaxRevision
  /\ tx' = [tx EXCEPT ![p] = Tx(WithFence(main), None, None, None)]
  /\ UNCHANGED files

\* RepositoryCommitter.commit: from here on the transaction is durable.
WritePending(p) ==
  /\ At(p, "pending", "run")
  /\ pending' = tx[p]
  /\ UNCHANGED <<main, backup, runFile, sessionFile, tx>>

\* RepositoryCommitter.apply
WriteRun(p) ==
  LET k == tx[p].run
  IN  /\ At(p, "run", "session")
      /\ runFile' = IF k = None THEN runFile ELSE [runFile EXCEPT ![k] = tx[p].state.run[k]]
      /\ UNCHANGED <<pending, main, backup, sessionFile, tx>>

\* Mutant: the pending file is removed once the records are written.
SessionThenUnlink(p) ==
  LET i == tx[p].session
  IN  /\ At(p, "session", "backup")
      /\ sessionFile' = IF i = None THEN sessionFile
                        ELSE [sessionFile EXCEPT ![i] = tx[p].state.session[i]]
      /\ pending' = NoTx
      /\ UNCHANGED <<main, backup, runFile, tx>>
WriteSession(p) ==
  LET i == tx[p].session
  IN  /\ At(p, "session", "backup")
      /\ sessionFile' = IF i = None THEN sessionFile
                        ELSE [sessionFile EXCEPT ![i] = tx[p].state.session[i]]
      /\ UNCHANGED <<pending, main, backup, runFile, tx>>

\* _save
WriteBackup(p) ==
  /\ At(p, "backup", "main")
  /\ backup' = IF Readable(main) THEN main ELSE backup
  /\ UNCHANGED <<pending, main, runFile, sessionFile, tx>>

\* Mutant: the pending file is removed before the deletion it stands for.
MainThenUnlink(p) == At(p, "main", "open") /\ main' = tx[p].state /\ pending' = NoTx
                     /\ UNCHANGED <<backup, runFile, sessionFile, tx>>
WriteMain(p) ==
  /\ At(p, "main", "delete")
  /\ main' = tx[p].state
  /\ UNCHANGED <<pending, backup, runFile, sessionFile, tx>>

DeleteSession(p) ==
  LET i == tx[p].delete
  IN  /\ At(p, "delete", "unlink")
      /\ sessionFile' = IF i = None THEN sessionFile ELSE [sessionFile EXCEPT ![i] = 0]
      /\ UNCHANGED <<pending, main, backup, runFile, tx>>

\* The pending file is removed (a save has none).
Unlink(p) ==
  /\ pc[p] = "unlink" /\ Goto(p, "open")
  /\ pending' = NoTx
  /\ seen' = [seen EXCEPT ![p] = tx[p].state.rev]
  /\ UNCHANGED <<main, backup, runFile, sessionFile, lock, tx>>

Release(p) ==
  /\ pc[p] = "open" /\ Goto(p, "idle")
  /\ lock' = None
  /\ UNCHANGED <<files, tx, seen>>

\* The process dies or an exception leaves the transaction; the system or the
\* context manager gives the lock back.
Interrupt(p) ==
  /\ pc[p] # "idle" /\ Goto(p, "idle")
  /\ lock' = IF lock = p THEN None ELSE lock
  /\ UNCHANGED <<files, tx, seen>>

--------------------------------------------------------------------------------
(* load() without the lock: get, list_records, work_summary. *)

Read(p, s) == seen' = [seen EXCEPT ![p] = s.rev] /\ Goto(p, "idle")

Peek(p) ==
  /\ pc[p] = "idle"
  /\ Goto(p, IF pending = NoTx THEN "read" ELSE "peeked")
  /\ UNCHANGED <<files, lock, tx, seen>>

\* Another process may have removed the file that was there.
ReadPending(p) ==
  /\ pc[p] = "peeked"
  /\ IF pending = NoTx THEN Goto(p, "idle") /\ UNCHANGED seen ELSE Read(p, pending.state)
  /\ UNCHANGED <<files, lock, tx>>

ReadMain(p) ==
  /\ pc[p] = "read" /\ Readable(main)
  /\ Read(p, main)
  /\ UNCHANGED <<files, lock, tx>>

\* Not the program's doing: processes.json is spoilt, while nobody writes.
\* (The backup's revision leaves room for that of what is rebuilt.)
Damage ==
  /\ fragile /\ Readable(main) /\ lock = None /\ backup.rev < MaxRevision
  /\ main' = Damaged
  /\ UNCHANGED <<pending, backup, runFile, sessionFile, lock, pc, tx, seen>>

WriteStep(p) ==
  \/ WritePending(p) \/ WriteRun(p) \/ WriteSession(p) \/ WriteBackup(p) \/ WriteMain(p)
  \/ DeleteSession(p) \/ Unlink(p)

Next ==
  /\ UNCHANGED setting
  /\ \/ \E p \in users :
          \/ Lock(p) \/ Recover(p) \/ Rebuild(p, "open") \/ Repair(p) \/ Commit(p) \/ Save(p)
          \/ WriteStep(p) \/ Release(p) \/ Interrupt(p)
          \/ Peek(p) \/ ReadPending(p) \/ ReadMain(p) \/ Rebuild(p, "read")
     \/ Damage

Spec == Init /\ [][Next]_vars

--------------------------------------------------------------------------------
\* What every load() that begins now answers.
Durable == IF pending # NoTx THEN pending.state
           ELSE IF Readable(main) THEN main ELSE Recovered

\* The six files are one value: whatever is interrupted, a transaction happens as a
\* whole or not at all, and is not lost once it happened.
Revived == {i \in Open(Durable) \ {pending.session} : sessionFile[i] = 0}
Atomic == INSTANCE AtomicRepository WITH value <- Durable, revived <- Revived
ActsAtomically == Atomic!Spec

\* No run record goes back, though processes.json is spoilt again and again; and while
\* nothing spoils it a closed session is not opened again.
CommittedStays ==
  [][/\ \A k \in Keys : Durable'.run[k] >= Durable.run[k]
     /\ fragile \/ \A i \in Durable.tombstones :
                     i \in Durable'.tombstones /\ Durable'.session[i] = 0]_vars

\* The record files always suffice to rebuild the central file: only the records
\* of the pending transaction may differ from it (a spoilt processes.json may bring
\* a closed session back from the backup, without its file).
RunFilesAgree == \A k \in Keys : k # pending.run => runFile[k] = Durable.run[k]
SessionFilesAgree ==
  \A i \in Sessions \ {pending.session, pending.delete} :
    sessionFile[i] = Durable.session[i]
FilesAgree == TypeOK /\ RunFilesAgree /\ (~fragile => SessionFilesAgree)

\* No reader goes back in time, with or without the lock, as long as nothing spoils
\* the file.
ReadsAreMonotone ==
  [][fragile \/ \A p \in Processes : seen'[p] >= seen[p]]_vars
================================================================================
