------------------------------ MODULE PruneJournal ------------------------------
(***************************************************************************)
(* Pruning of run history (process-manager, resources.py): a prune moves   *)
(* the files of a terminal run aside, replaces its record by a tombstone   *)
(* and deletes the files, each step noted in a journal of the central      *)
(* repository (pendingPrunes).  Every run start, terminal commit, session  *)
(* close and manager start runs the automatic prune, which first resumes   *)
(* all journals it finds, in whatever phase and whoever left them there.   *)
(*                                                                         *)
(* The steps of several coordinators interleave: only the repository       *)
(* transactions are atomic, the moves on disk and the checks before them   *)
(* are not.  A coordinator works on the copy of a journal it once read.    *)
(*                                                                         *)
(* Abstractions.  All runs are terminal and eligible; what the planner     *)
(* picks by age, count and bytes is any set of recorded runs, and whether  *)
(* the directory is kept, by the call or by history.deleteRunDirs, is open *)
(* for each.  A run has one journal at a time (two would claim the same    *)
(* paths, and none can be aborted), so journals are indexed by run.  The   *)
(* parents of the quarantine are left out.  The tombstones a trim removes  *)
(* are any that may go, not the oldest.                                    *)
(*                                                                         *)
(* The central state has a backup, the state of one save earlier, and a    *)
(* power loss may leave a processes.json that cannot be read: the next     *)
(* load puts a state together from the run directories, the session files  *)
(* and that backup.                                                        *)
(***************************************************************************)
EXTENDS Integers, FiniteSets

CONSTANTS Runs,             \* process keys
          Sessions,         \* sessions whose runs are gone and that are to be closed
          Threads,          \* coordinators
          MaxTombstones,    \* history.maxTombstones
          MaxPendingPrunes, \* limits.maxPendingPrunes
          MaxFaults,        \* bound: failing deletions, crashes and lost states
          None

ASSUME PruneAssumption ==
  /\ IsFiniteSet(Runs) /\ IsFiniteSet(Sessions) /\ Runs \cap Sessions = {}
  /\ None \notin Runs \cup Sessions
  /\ {MaxTombstones, MaxPendingPrunes, MaxFaults} \subseteq Nat

VARIABLES recorded,         \* runs in state["processes"]
          journals,         \* state["pendingPrunes"], by run
          stones,           \* state["tombstones"], by run or session
          retained,         \* tombstones with a retainedPath
          closing,          \* sessions still in state["sessions"]
          backup,           \* the same five of processes.json.bak
          place,            \* where the run's directory or its process.json is
          files,            \* sessions whose session file is there
          thread,           \* what each coordinator is doing
          faults

repository == <<recorded, journals, stones, retained, closing, backup>>
disk == <<place, files>>
vars == <<repository, disk, thread, faults>>

Phases == {"intent", "quarantined", "committed"}
Journal == [phase : Phases, keepRun : BOOLEAN]
NoJournal == [phase |-> "none"]
Journaled == {k \in Runs : journals[k] # NoJournal}

State == [recorded : SUBSET Runs, journals : [Runs -> Journal \cup {NoJournal}],
          stones : SUBSET (Runs \cup Sessions), retained : SUBSET Runs, closing : SUBSET Sessions]
\* What processes.json holds.
Central == [recorded |-> recorded, journals |-> journals, stones |-> stones,
            retained |-> retained, closing |-> closing]
\* No backup, or none that can be read, gives load what an empty one would.
NoBackup == [recorded |-> {}, journals |-> [k \in Runs |-> NoJournal], stones |-> {},
             retained |-> {}, closing |-> {}]
\* _save: the state that is written over becomes the backup.
Save == backup' = Central

\* "source": the run directory with its process.json; "aside": the directory,
\* its record renamed to process.pruned.json; "quarantine": the directory in tmp/prune.
Places == {"source", "aside", "quarantine", "gone"}
Target(keepRun) == IF keepRun THEN "aside" ELSE "quarantine"

\* `todo`: journals still to resume, then runs still to prune; `planned` tells
\* which; `run`, `phase` and `keepRun` are the journal in hand.
Steps == {"idle", "next", "check", "rename", "mark", "verify", "commit", "prove",
          "remove", "pop"}
Thread == [pc : Steps, todo : SUBSET Runs, planned : BOOLEAN,
           run : Runs \cup {None}, keepRun : BOOLEAN]
Idle == [pc |-> "idle", todo |-> {}, planned |-> FALSE, run |-> None, keepRun |-> FALSE]

TypeOK ==
  /\ recorded \subseteq Runs
  /\ journals \in [Runs -> Journal \cup {NoJournal}]
  /\ stones \subseteq Runs \cup Sessions
  /\ retained \subseteq Runs \cap stones
  /\ closing \subseteq Sessions
  /\ backup \in State
  /\ place \in [Runs -> Places]
  /\ files \subseteq Sessions
  /\ thread \in [Threads -> Thread]
  /\ faults \in 0..MaxFaults

\* Some runs and sessions may have gone long ago.
Init ==
  /\ recorded \in SUBSET Runs
  /\ journals = [k \in Runs |-> NoJournal]
  /\ stones = {}
  /\ retained = {}
  /\ closing \in SUBSET Sessions
  /\ backup = Central
  /\ place = [k \in Runs |-> IF k \in recorded THEN "source" ELSE "gone"]
  /\ files = closing
  /\ thread = [t \in Threads |-> Idle]
  /\ faults = 0

--------------------------------------------------------------------------------
Goto(t, pc) == thread' = [thread EXCEPT ![t].pc = pc]
\* Done with the journal in hand.
Continue(t) == thread' = [thread EXCEPT ![t].pc = "next", ![t].run = None, ![t].keepRun = FALSE]
\* An exception leaves the coordinator; nothing it wrote is undone.
Raise(t) == thread' = [thread EXCEPT ![t] = Idle]

\* Mutant: the tombstone of a prune that is not finished may go as well.
Unpinned == {}
\* Tombstones _trim_tombstones leaves alone besides the retained ones.
Pinned == Journaled

\* Mutant: a full table is never trimmed.
NeverTrimmed == {}
\* The tombstones _trim_tombstones may remove.
Trimmable == stones \ (retained \cup Pinned)

\* The tables _add_tombstone of a new id may leave: as many go as make room.
WithTombstone(id) ==
  LET excess == Cardinality(stones) + 1 - MaxTombstones
  IN  {(stones \ gone) \cup {id} :
         gone \in {g \in SUBSET Trimmable :
                    Cardinality(g) = IF excess > 0 THEN excess ELSE 0}}

\* _add_tombstone raises ResourceBudgetError when that is not enough.
RoomForTombstone == Cardinality(stones \ Trimmable) < MaxTombstones

--------------------------------------------------------------------------------
(* PruneCoordinator.run *)

\* What starts one: a run start, a terminal commit, pm_prune, a manager start.
Begin(t) ==
  /\ thread[t].pc = "idle"
  /\ thread' = [thread EXCEPT ![t].pc = "next", ![t].todo = Journaled]
  /\ UNCHANGED <<repository, disk, faults>>

\* SessionController._finalize: the session gives way to its tombstone, then
\* automatic_gc; without its file or without room the session stays and the
\* caller gets the error.
CloseSession(t, i) ==
  /\ thread[t].pc = "idle"
  /\ i \in closing \cap files
  /\ RoomForTombstone
  /\ Save
  /\ closing' = closing \ {i}
  /\ files' = files \ {i}
  /\ stones' \in WithTombstone(i)
  /\ thread' = [thread EXCEPT ![t].pc = "next", ![t].todo = Journaled]
  /\ UNCHANGED <<recorded, journals, retained, place, faults>>

StepOf(phase) ==
  CASE phase = "intent" -> "check" [] phase = "quarantined" -> "verify"
    [] phase = "committed" -> "prove"

\* The loop of recover_pending: the journal is read again, it may be gone.
ResumeJournal(t) ==
  /\ thread[t].pc = "next" /\ ~thread[t].planned
  /\ \E k \in thread[t].todo :
       thread' = [thread EXCEPT ![t] =
         IF journals[k] = NoJournal THEN [@ EXCEPT !.todo = thread[t].todo \ {k}]
         ELSE [@ EXCEPT !.pc = StepOf(journals[k].phase), !.todo = thread[t].todo \ {k},
                        !.run = k, !.keepRun = journals[k].keepRun]]
  /\ UNCHANGED <<repository, disk, faults>>

\* _plan after the recovery: it measures the directory of every candidate and
\* raises when one has been moved away.
Plan(t) ==
  /\ thread[t].pc = "next" /\ ~thread[t].planned /\ thread[t].todo = {}
  /\ \E candidates \in SUBSET recorded :
       IF candidates = {} \/ \E k \in candidates : place[k] \in {"quarantine", "gone"}
       THEN Raise(t)
       ELSE thread' = [thread EXCEPT ![t].todo = candidates, ![t].planned = TRUE]
  /\ UNCHANGED <<repository, disk, faults>>

\* The loop over the candidates with _save_intent, which is refused when the
\* record is gone, the journal is full, or another journal owns the paths.
SaveIntent(t) ==
  /\ thread[t].pc = "next" /\ thread[t].planned /\ thread[t].todo # {}
  /\ \E k \in thread[t].todo :
       IF k \in recorded /\ Cardinality(Journaled) < MaxPendingPrunes /\ journals[k] = NoJournal
       THEN \E keepRun \in BOOLEAN :
              /\ Save
              /\ journals' = [journals EXCEPT ![k] = [phase |-> "intent", keepRun |-> keepRun]]
              /\ thread' = [thread EXCEPT ![t] = [@ EXCEPT !.pc = "check", !.run = k,
                               !.keepRun = keepRun, !.todo = thread[t].todo \ {k}]]
       ELSE Raise(t) /\ UNCHANGED <<journals, backup>>
  /\ UNCHANGED <<recorded, stones, retained, closing, disk, faults>>

\* All candidates are pruned.
Finish(t) ==
  /\ thread[t].pc = "next" /\ thread[t].planned /\ thread[t].todo = {}
  /\ thread' = [thread EXCEPT ![t] = Idle]
  /\ UNCHANGED <<repository, disk, faults>>

\* What the rename takes: process.json, or the directory with whatever is in it.
Movable(t) ==
  place[thread[t].run] \in IF thread[t].keepRun THEN {"source"} ELSE {"source", "aside"}

\* Mutant: only a directory that is still in place is accepted.
MoveRepeated(t) == FALSE
\* The files were moved by someone who did not get to note it.
AlreadyMoved(t) == place[thread[t].run] = Target(thread[t].keepRun)

\* _move, its checks: the files are to be moved, or have been, or are nowhere.
CheckMove(t) ==
  /\ thread[t].pc = "check"
  /\ \/ Movable(t) /\ Goto(t, "rename")
     \/ AlreadyMoved(t) /\ Goto(t, "mark")
     \/ ~Movable(t) /\ ~AlreadyMoved(t) /\ Raise(t)
  /\ UNCHANGED <<repository, disk, faults>>

\* Mutant: a directory that is to be deleted anyway is deleted where it stands.
DeletedInPlace(t) == IF thread[t].keepRun THEN "aside" ELSE "gone"
\* Where the files are after the rename.
MovedTo(t) == Target(thread[t].keepRun)

\* _move, the rename into directories it creates; another coordinator may have
\* been faster.
Rename(t) ==
  LET k == thread[t].run
  IN  /\ thread[t].pc = "rename"
      /\ IF Movable(t)
         THEN place' = [place EXCEPT ![k] = MovedTo(t)] /\ Goto(t, "mark")
         ELSE Raise(t) /\ UNCHANGED place
      /\ UNCHANGED <<repository, files, faults>>

\* Mutant: the phase is written over whatever the journal says by now.
MarkAnyway(k) == journals[k] # NoJournal
\* _phase: the commit's validation refuses to take a committed prune back.
MarkAllowed(k) == journals[k] # NoJournal /\ journals[k].phase # "committed"

\* _phase("quarantined").
MarkQuarantined(t) ==
  LET k == thread[t].run
  IN  /\ thread[t].pc = "mark"
      /\ IF MarkAllowed(k)
         THEN /\ Save
              /\ journals' = [journals EXCEPT ![k].phase = "quarantined"]
              /\ Goto(t, "verify")
         ELSE Raise(t) /\ UNCHANGED <<journals, backup>>
      /\ UNCHANGED <<recorded, stones, retained, closing, disk, faults>>

\* _resume, before the commit: the files are where the journal says.
VerifyQuarantine(t) ==
  /\ thread[t].pc = "verify"
  /\ IF place[thread[t].run] = Target(thread[t].keepRun) THEN Goto(t, "commit") ELSE Raise(t)
  /\ UNCHANGED <<repository, disk, faults>>

\* _commit: the record gives way to the tombstone, unless another coordinator
\* has done so; without room for the tombstone the journal waits.
Commit(t) ==
  LET k == thread[t].run
      quarantined == journals[k].phase = "quarantined" /\ k \in recorded
  IN  /\ thread[t].pc = "commit"
      /\ \/ /\ journals[k].phase = "committed"
            /\ Goto(t, "prove")
            /\ UNCHANGED repository
         \/ /\ quarantined /\ RoomForTombstone
            /\ Save
            /\ recorded' = recorded \ {k}
            /\ journals' = [journals EXCEPT ![k].phase = "committed"]
            /\ stones' \in WithTombstone(k)
            /\ retained' = IF journals[k].keepRun THEN retained \cup {k} ELSE retained
            /\ Goto(t, "prove")
            /\ UNCHANGED closing
         \/ /\ journals[k].phase # "committed" /\ ~(quarantined /\ RoomForTombstone)
            /\ Raise(t)
            /\ UNCHANGED repository
      /\ UNCHANGED <<disk, faults>>

\* The record is gone and its tombstone is there.
Proven(k) == k \notin recorded /\ k \in stones

\* _resume: the central state must prove the commit before anything is deleted.
ProveCommit(t) ==
  /\ thread[t].pc = "prove"
  /\ IF Proven(thread[t].run) THEN Goto(t, "remove") ELSE Raise(t)
  /\ UNCHANGED <<repository, disk, faults>>

\* _cleanup: the quarantined directory and its parents are removed.
RemoveFiles(t) ==
  LET k == thread[t].run
  IN  /\ thread[t].pc = "remove"
      /\ place' = IF thread[t].keepRun THEN place ELSE [place EXCEPT ![k] = "gone"]
      /\ Goto(t, "pop")
      /\ UNCHANGED <<repository, files, faults>>

\* ... which fails: the journal stays for later (_phase saves it again, and
\* raises if it is gone).
RemoveFails(t) ==
  /\ thread[t].pc = "remove" /\ ~thread[t].keepRun
  /\ faults < MaxFaults /\ faults' = faults + 1
  /\ IF journals[thread[t].run] = NoJournal
     THEN Raise(t) /\ UNCHANGED backup
     ELSE Continue(t) /\ Save
  /\ UNCHANGED <<recorded, journals, stones, retained, closing, disk>>

\* _cleanup, the last transaction.
PopJournal(t) ==
  LET k == thread[t].run
  IN  /\ thread[t].pc = "pop"
      /\ IF journals[k].phase = "committed"
         THEN Save /\ journals' = [journals EXCEPT ![k] = NoJournal] /\ Continue(t)
         ELSE Raise(t) /\ UNCHANGED <<journals, backup>>
      /\ UNCHANGED <<recorded, stones, retained, closing, disk, faults>>

\* The manager with all its threads is killed.
Crash ==
  /\ \E t \in Threads : thread[t] # Idle
  /\ faults < MaxFaults /\ faults' = faults + 1
  /\ thread' = [t \in Threads |-> Idle]
  /\ UNCHANGED <<repository, disk>>

\* Mutant: a directory that was kept is read whatever its record file is called.
AnyRecordFile == {k \in Runs : place[k] \in {"source", "aside"}}
\* StateRebuilder: the runs whose directory holds a process.json.
RecordFiles == {k \in Runs : place[k] = "source"}

Rebuilt == [recorded |-> RecordFiles, journals |-> NoBackup.journals, stones |-> {},
            retained |-> {}, closing |-> files]

HasEvidence(b) == b.stones # {} \/ \E k \in Runs : b.journals[k] # NoJournal

\* merge_rebuilt_resource_evidence: journals and tombstones are the backup's,
\* and so is the record of a prune it knows as not committed.
Merged(b) ==
  [Rebuilt EXCEPT !.recorded = @ \cup {k \in Runs : b.journals[k].phase \in {"intent", "quarantined"}},
                  !.journals = b.journals, !.stones = b.stones, !.retained = b.retained]

\* JournalStore.load, of a processes.json that is not readable.
Recovered(b) ==
  IF HasEvidence(b) THEN Merged(b)
  ELSE IF RecordFiles \cup files # {} THEN Rebuilt
  ELSE b

\* A power loss ends all coordinators; the next load saves what it recovers,
\* without making a backup.
PowerLoss(state) ==
  /\ faults < MaxFaults /\ faults' = faults + 1
  /\ thread' = [t \in Threads |-> Idle]
  /\ recorded' = state.recorded
  /\ journals' = state.journals
  /\ stones' = state.stones
  /\ retained' = state.retained
  /\ closing' = state.closing
  /\ UNCHANGED disk

\* ... that leaves no processes.json, or takes the backup along.
Rebuild == PowerLoss(Recovered(NoBackup)) /\ backup' \in {backup, NoBackup}

\* ... that leaves the backup as the newest state that can be read.
Merge == PowerLoss(Recovered(backup)) /\ UNCHANGED backup

Step(t) ==
  \/ ResumeJournal(t) \/ Plan(t) \/ SaveIntent(t) \/ Finish(t)
  \/ CheckMove(t) \/ Rename(t) \/ MarkQuarantined(t)
  \/ VerifyQuarantine(t) \/ Commit(t) \/ ProveCommit(t) \/ RemoveFiles(t) \/ PopJournal(t)

Next ==
  \/ \E t \in Threads :
       \/ Begin(t)
       \/ \E i \in Sessions : CloseSession(t, i)
       \/ Step(t)
       \/ RemoveFails(t)
  \/ Crash
  \/ Rebuild
  \/ Merge

\* A coordinator that runs goes on; clients keep starting runs, and a session
\* that is closing is closed again by the sweeper.
Fairness ==
  /\ \A t \in Threads : WF_vars(Step(t)) /\ WF_vars(Begin(t))
  /\ \A i \in Sessions : SF_vars(\E t \in Threads : CloseSession(t, i))

Spec == Init /\ [][Next]_vars /\ Fairness

--------------------------------------------------------------------------------
\* A quarantined prune whose files are not where its journal says: every resume
\* raises, at this journal and before the ones after it.
Stranded(k) == journals[k].phase = "quarantined" /\ place[k] # Target(journals[k].keepRun)

\* Files are deleted last: whatever coordinators and crashes do between them, the
\* directory of a run the index knows is there (resources.py _resume, _cleanup).
\* Only load's merge of a backup older than the commit puts a run into the index
\* whose files are deleted, and then together with its stranded journal.
IndexedRunsHaveFiles ==
  [][\A k \in Runs : k \in recorded' /\ place'[k] = "gone" =>
       \/ k \in recorded /\ place[k] = "gone"
       \/ Merge /\ backup.journals[k].phase = "quarantined" /\ Stranded(k)']_vars

\* Until its files are dealt with, a committed prune keeps its tombstone, so a
\* resumed cleanup finds its evidence (resources.py _trim_tombstones, _resume).
CommittedHasEvidence ==
  TypeOK /\ \A k \in Runs : journals[k].phase = "committed" => Proven(k)

\* A prune that is finished, its journal gone and its tombstone there, is not
\* undone: not by a recovery from the run directories that were kept
\* (workflow.md:143), nor by one from the backup. A prune still journaled may
\* be, if the journal that says so comes back too (state.py load, protocol.py
\* merge_rebuilt_resource_evidence).
NeverResurrected ==
  [][\A k \in recorded' \ recorded :
       /\ ~(k \in stones /\ journals[k] = NoJournal)
       /\ HasEvidence(backup) => journals'[k] # NoJournal]_vars

\* Each step on the repository is one of its prune and session transactions.
Repo == INSTANCE RunRepository WITH
  Keys <- Runs, Services <- Runs, ServiceOf <- [k \in Runs |-> k],
  Instances <- {"manager"}, Operations <- {}, ClaimIds <- {}, Readers <- {},
  MaxActiveRuns <- 1, MaxOpenSessions <- 1, MaxSessionRecords <- Cardinality(Sessions),
  processes <- [k \in Runs |->
    IF k \in recorded THEN [status |-> "terminal", claim |-> [id |-> None], owner |-> None,
                            manager |-> "manager", evidence |-> "full"]
    ELSE [status |-> "absent"]],
  active <- [k \in Runs |-> None],
  sessions <- [i \in Sessions |->
    IF i \in closing THEN [state |-> "terminating", runKeys |-> {}, manager |-> "manager"]
    ELSE [state |-> "absent", runKeys |-> {}]],
  journals <- [k \in Runs |->
    IF journals[k] = NoJournal \/ journals[k].phase = "committed" THEN journals[k]
    ELSE [journals[k] EXCEPT !.phase = "pending"]],
  tombstones <- stones,
  issued <- Runs \cup Sessions,
  intakeFence <- [op |-> None],
  workGeneration <- Cardinality(Sessions \ closing),
  current <- [k \in Runs |-> {}]

RepositorySteps == [][Repo!Next \/ Rebuild \/ Merge]_(Repo!repoVars)

\* Every prune that was begun is finished, whichever coordinator or manager
\* died over it (execution-plan.md:597 of the control plane convergence), unless
\* the merge of an old backup has stranded one, which holds up all of them.
\* Needs a tombstone table that holds all runs.
JournalsDrain == Journaled # {} ~> Journaled = {} \/ \E k \in Runs : Stranded(k)

\* Only tombstones of runs whose files were kept, which nothing ever trims, can
\* refuse a closing session for good (resources.py:201-223), or what a recovery
\* took from an old backup: a session whose file is deleted, or a stranded
\* journal that keeps the tombstones of others pinned.
ClosingSessionsCompact ==
  \A i \in Sessions : i \in closing ~> \/ i \notin closing \cap files
                                       \/ Cardinality(retained) = MaxTombstones
                                       \/ \E r \in Runs : Stranded(r)
================================================================================
