----------------------------- MODULE RunRepository -----------------------------
(***************************************************************************)
(* The central repository of process-manager (state.py StateStore): run    *)
(* records, the active index (one run per service), session records with   *)
(* their back-references, prune journals, tombstones, the intake fence and *)
(* the work generation.                                                    *)
(*                                                                         *)
(* One action is one `with self.transaction():` block.  That a block is    *)
(* atomic although it writes several files is the subject of the module    *)
(* RepositoryJournal.                                                      *)
(*                                                                         *)
(* Abstractions.  A process key is a model value; ServiceOf is the service *)
(* part of the key.  uuid4 identifiers are never reused: `issued` holds    *)
(* those given out.  All terminal statuses are the one value "terminal".   *)
(* recordRevision and the session revision are only ever compared for      *)
(* equality with a value read earlier: `current[k]` is the set of readers  *)
(* whose remembered recordRevision still matches; the session revision     *)
(* that reserve expects is read in the same transaction.  Byte budgets     *)
(* (ResourceGovernor.measure) are left out, the counted limits are kept;   *)
(* the tombstones a trim removes are any that may go, not the oldest.      *)
(***************************************************************************)
EXTENDS Integers, FiniteSets

CONSTANTS Keys,             \* process keys (service.run-<uuid>)
          Services,
          ServiceOf,        \* [Keys -> Services]
          Sessions,         \* session ids
          Instances,        \* manager instance ids (a control client has its own)
          Operations,       \* ids of destructive manager operations
          ClaimIds,         \* ids of cleanup claims
          Readers,          \* threads that remember a recordRevision
          MaxActiveRuns,    \* limits.maxActiveRuns
          MaxOpenSessions,  \* limits.maxOpenSessions
          MaxSessionRecords,\* limits.maxSessionRecords
          MaxPendingPrunes, \* limits.maxPendingPrunes
          MaxTombstones     \* history.maxTombstones

\* "None" plays JSON null in every optional field.
CONSTANT None

ASSUME ServiceOfAssumption == ServiceOf \in [Keys -> Services]
ASSUME NoneAssumption == None \notin Keys \cup Sessions \cup ClaimIds \cup Operations
ASSUME DisjointAssumption == Keys \cap Sessions = {}
ASSUME FiniteAssumption == IsFiniteSet(Keys) /\ IsFiniteSet(Sessions)
ASSUME LimitAssumption == MaxTombstones \in Nat

VARIABLES processes,        \* state["processes"]: run records
          active,           \* state["active"]: service -> process key
          sessions,         \* state["sessions"]
          journals,         \* state["pendingPrunes"], by the run they prune
          tombstones,       \* run keys and session ids in state["tombstones"]
          retained,         \* tombstones of runs whose files were kept (retainedPath)
          issued,           \* identifiers uuid4 has returned
          intakeFence,      \* state["intakeFence"]
          workGeneration,   \* state["workGeneration"]
          current           \* readers whose remembered recordRevision is current

history == <<journals, tombstones, retained>>
repoVars == <<processes, active, sessions, journals, tombstones, retained, issued,
              intakeFence, workGeneration, current>>

ActiveStates == {"starting", "running", "terminating"}
SessionActiveStates == {"open", "terminating", "expired", "cleanup_failed"}

\* internal.owner / hostIdentity / targetIdentity: nothing yet, the owner and
\* the host, or the target as well.
Evidence == {"none", "host", "full"}

Claim == [id : ClaimIds, by : Instances, expired : BOOLEAN]
NoClaim == [id |-> None]

Record == [status : ActiveStates \cup {"terminal"},
           claim : Claim \cup {NoClaim},
           owner : Sessions \cup {None},    \* None: a persistent run
           manager : Instances,
           evidence : Evidence]
NoRecord == [status |-> "absent"]

Session == [state : SessionActiveStates, runKeys : SUBSET Keys, manager : Instances]
NoSession == [state |-> "absent", runKeys |-> {}]

\* A journal before its commit (phases intent and quarantined) and after it.
Journal == [phase : {"pending", "committed"}, keepRun : BOOLEAN]
NoJournal == [phase |-> "none"]

\* `idle` remembers the require_idle argument the fence was installed with.
Fence == [op : Operations, generation : Nat, idle : BOOLEAN]
NoFence == [op |-> None]

TypeOK ==
  /\ processes \in [Keys -> Record \cup {NoRecord}]
  /\ active \in [Services -> Keys \cup {None}]
  /\ sessions \in [Sessions -> Session \cup {NoSession}]
  /\ journals \in [Keys -> Journal \cup {NoJournal}]
  /\ tombstones \in SUBSET (Keys \cup Sessions)
  /\ retained \in SUBSET (Keys \cap tombstones)
  /\ issued \in SUBSET (Keys \cup Sessions)
  /\ intakeFence \in Fence \cup {NoFence}
  /\ workGeneration \in Nat
  /\ current \in [Keys -> SUBSET Readers]

--------------------------------------------------------------------------------
(* StateSchema.validate_state, the check every commit runs before it writes. *)

IsActive(record) == record.status \in ActiveStates

\* Every index entry points at an active record of its service, and every
\* active record is indexed.
IndexValid(p, a) ==
  /\ \A s \in Services : a[s] # None => IsActive(p[a[s]]) /\ ServiceOf[a[s]] = s
  /\ \A k \in Keys : IsActive(p[k]) => a[ServiceOf[k]] = k

\* An active run of a session is listed by that session, which is not closed;
\* a session lists active runs of its own only.
OwnershipValid(p, s) ==
  /\ \A k \in Keys : IsActive(p[k]) /\ p[k].owner # None =>
       s[p[k].owner].state \in SessionActiveStates /\ k \in s[p[k].owner].runKeys
  /\ \A i \in Sessions : \A k \in s[i].runKeys : IsActive(p[k]) /\ p[k].owner = i

\* A pending prune is bound to a terminal record without a claim, a committed
\* one to its tombstone; a tombstone never coexists with what it stands for.
ResourcesValid(p, s, prunes, stones) ==
  /\ \A k \in Keys : prunes[k].phase = "pending" =>
       p[k].status = "terminal" /\ p[k].claim = NoClaim
  /\ \A k \in Keys : prunes[k].phase = "committed" => k \in stones
  /\ \A k \in Keys \cap stones : p[k] = NoRecord
  /\ \A i \in Sessions \cap stones : s[i] = NoSession

ValidState(p, a, s, prunes, stones) ==
  /\ IndexValid(p, a)
  /\ OwnershipValid(p, s)
  /\ ResourcesValid(p, s, prunes, stones)

--------------------------------------------------------------------------------
Init ==
  /\ processes = [k \in Keys |-> NoRecord]
  /\ active = [s \in Services |-> None]
  /\ sessions = [i \in Sessions |-> NoSession]
  /\ journals = [k \in Keys |-> NoJournal]
  /\ tombstones = {}
  /\ retained = {}
  /\ issued = {}
  /\ intakeFence = NoFence
  /\ workGeneration = 0
  /\ current = [k \in Keys |-> {}]

ActiveKeys == {k \in Keys : IsActive(processes[k])}
ActiveSessionIds == {i \in Sessions : sessions[i].state \in SessionActiveStates}

\* work_summary: what a stop has to account for.
LiveWork == ActiveKeys \cup ActiveSessionIds

IntakeIgnored == TRUE
IntakeOpen == intakeFence = NoFence

\* Mutant: only the session's own manager check is left of the ownership test.
AnySessionAccepts(i, m) == sessions[i] # NoSession /\ sessions[i].manager = m
SessionAccepts(i, m) == sessions[i].state = "open" /\ sessions[i].manager = m

\* Mutant: the record does not say which manager started the run.
Unmanaged(i, m) == [status |-> "starting", claim |-> NoClaim, owner |-> i,
                    manager |-> None, evidence |-> "none"]
NewRecord(i, m) == [status |-> "starting", claim |-> NoClaim, owner |-> i,
                    manager |-> m, evidence |-> "none"]

\* StateStore.reserve: the run exists before anything is spawned for it.
Reserve(k, i, m) ==
  /\ IntakeOpen
  /\ active[ServiceOf[k]] = None
  /\ Cardinality(ActiveKeys) < MaxActiveRuns
  /\ k \notin issued /\ issued' = issued \cup {k}
  /\ i # None => SessionAccepts(i, m)
  /\ processes' = [processes EXCEPT ![k] = NewRecord(i, m)]
  /\ active' = [active EXCEPT ![ServiceOf[k]] = k]
  /\ sessions' = IF i = None THEN sessions
                 ELSE [sessions EXCEPT ![i].runKeys = @ \cup {k}]
  /\ workGeneration' = workGeneration + 1
  /\ UNCHANGED <<history, intakeFence, current>>

\* Mutant: the commit skips validate_state.
Unvalidated(k, record) == TRUE
\* validate_state accepts the central state with record k replaced.
Validated(k, record) ==
  ValidState([processes EXCEPT ![k] = record], active, sessions, journals, tombstones)

\* StateStore.update of a run that stays in ACTIVE_STATES.  `remembering` are the readers
\* that keep the returned record.
UpdateActive(k, status, evidence, claim, remembering) ==
  LET record == [processes[k] EXCEPT !.status = status, !.evidence = evidence,
                                     !.claim = claim]
  IN  /\ processes[k] # NoRecord
      /\ journals[k] = NoJournal
      /\ processes' = [processes EXCEPT ![k] = record]
      /\ workGeneration' = IF IsActive(processes[k]) THEN workGeneration
                           ELSE workGeneration + 1
      /\ current' = [current EXCEPT ![k] = remembering]
      /\ UNCHANGED <<active, sessions, history, issued, intakeFence>>
      /\ Validated(k, record)

\* Mutant: the claim of a finalizer that is gone is never taken over.
NeverTakenOver(k, inspected) == processes[k].claim = NoClaim
\* No finalizer holds the run, or its time is over and the owner was inspected.
ClaimAvailable(k, inspected) ==
  processes[k].claim # NoClaim => processes[k].claim.expired /\ inspected

\* The claim a second finalizer of the same manager is handed instead of its own.
ClaimShared(k, m) ==
  /\ processes[k].claim # NoClaim
  /\ processes[k].claim.by = m
  /\ ~processes[k].claim.expired

\* StateStore.claim_finalization, the branch that writes a new claim.
ClaimFinalization(k, id, m, inspected, remembering) ==
  /\ IsActive(processes[k])
  /\ ~ClaimShared(k, m)
  /\ ClaimAvailable(k, inspected)
  /\ UpdateActive(k, "terminating", processes[k].evidence,
                  [id |-> id, by |-> m, expired |-> FALSE], remembering)

\* The 30 second deadline of a claim passes.
ExpireClaim(k) ==
  /\ processes[k] # NoRecord /\ processes[k].claim # NoClaim
  /\ ~processes[k].claim.expired
  /\ processes' = [processes EXCEPT ![k].claim.expired = TRUE]
  /\ UNCHANGED <<active, sessions, history, issued, intakeFence, workGeneration, current>>

HoldsClaim(k, id) == processes[k].claim.id = id

\* Mutants: the terminal commit forgets the session, or the generation.
KeepsRunKey(k, i) == sessions
SameGeneration(n) == n
\* The session the run belongs to, without it.
DropRunKey(k, i) ==
  IF i = None THEN sessions ELSE [sessions EXCEPT ![i].runKeys = @ \ {k}]
NextGeneration(n) == n + 1

\* StateStore.commit_finalization with an owner that is empty and released.
CommitTerminal(k, id) ==
  LET i == processes[k].owner
  IN  /\ processes[k] # NoRecord /\ journals[k] = NoJournal
      /\ HoldsClaim(k, id)
      /\ i # None => k \in sessions[i].runKeys
      /\ processes' = [processes EXCEPT ![k].status = "terminal", ![k].claim = NoClaim]
      /\ active' = [active EXCEPT ![ServiceOf[k]] = IF @ = k THEN None ELSE @]
      /\ sessions' = DropRunKey(k, i)
      /\ workGeneration' = NextGeneration(workGeneration)
      /\ current' = [current EXCEPT ![k] = {}]
      /\ UNCHANGED <<history, issued, intakeFence>>

\* ... and with an owner that is not: the run stays active for a later finalizer.
CommitPending(k, id) ==
  /\ processes[k] # NoRecord /\ HoldsClaim(k, id)
  /\ UpdateActive(k, "terminating", processes[k].evidence, NoClaim, {})

CommitFinalization(k, id, completed) ==
  IF completed THEN CommitTerminal(k, id) ELSE CommitPending(k, id)

--------------------------------------------------------------------------------
OpenSession(i, m) ==
  /\ IntakeOpen
  /\ Cardinality({j \in Sessions : sessions[j].state = "open"}) < MaxOpenSessions
  /\ Cardinality({j \in Sessions : sessions[j] # NoSession}) < MaxSessionRecords
  /\ i \notin issued /\ issued' = issued \cup {i}
  /\ sessions' = [sessions EXCEPT ![i] =
                    [state |-> "open", runKeys |-> {}, manager |-> m]]
  /\ workGeneration' = workGeneration + 1
  /\ UNCHANGED <<processes, active, history, intakeFence, current>>

\* SessionController._set_closing and its commit.
SetClosing(i, from, to) ==
  /\ sessions[i].state \in from
  /\ sessions' = [sessions EXCEPT ![i].state = to]
  /\ UNCHANGED <<processes, active, history, issued, intakeFence, workGeneration, current>>

CloseRequest(i) == SetClosing(i, {"open", "cleanup_failed"}, "terminating")
ExpireSession(i) == SetClosing(i, {"open"}, "expired")

\* Mutant: a session is closed although it still lists runs.
AnySessionEmpty(i) == TRUE
SessionEmpty(i) == sessions[i].runKeys = {}

\* What _trim_tombstones may remove while `ids` are added.
Forgettable(ids) ==
  ((tombstones \cup ids) \ retained) \ {k \in Keys : journals[k] # NoJournal}

\* Mutant: tombstones are added without regard to their number.
Unbounded(ids) == tombstones' = tombstones \cup ids
\* ResourceGovernor._add_tombstone: older tombstones make room for the new ones
\* (`ids`, none of them known yet), and when too few of them may go it raises.
AddTombstones(ids) ==
  LET excess == Cardinality(tombstones \cup ids) - MaxTombstones
  IN  \E gone \in SUBSET Forgettable(ids) :
        /\ Cardinality(gone) = IF excess > 0 THEN excess ELSE 0
        /\ ids \ gone # {}
        /\ tombstones' = (tombstones \cup ids) \ gone

\* ResourceGovernor.compact_session: closed, replaced by a tombstone, deleted.
Compact(ids) ==
  /\ sessions' = [i \in Sessions |-> IF i \in ids THEN NoSession ELSE sessions[i]]
  /\ AddTombstones(ids)
  /\ workGeneration' = workGeneration + Cardinality(ids)
  /\ UNCHANGED <<processes, active, journals, retained, issued, intakeFence, current>>

\* The closing transaction of SessionController._finalize.
FinishSession(i) ==
  /\ sessions[i].state \in SessionActiveStates \ {"open"}
  /\ \/ SessionEmpty(i) /\ Compact({i})
     \/ ~SessionEmpty(i) /\ SetClosing(i, SessionActiveStates, "cleanup_failed")

\* close_orphaned_sessions: the sessions without a run, open ones as well, one
\* after the other under one lock; a crash or a full tombstone table stops it.
CloseOrphanedSessions ==
  \E ids \in SUBSET {i \in ActiveSessionIds : SessionEmpty(i)} :
    ids # {} /\ Compact(ids)

--------------------------------------------------------------------------------
GenerationIs(g) == workGeneration = g

\* StateStore.install_intake_fence (installing the same fence again changes nothing).
InstallFence(op, g, idle) ==
  /\ intakeFence = NoFence
  /\ GenerationIs(g)
  /\ idle => LiveWork = {}
  /\ intakeFence' = [op |-> op, generation |-> g, idle |-> idle]
  /\ UNCHANGED <<processes, active, sessions, history, issued, workGeneration, current>>

\* StateStore.clear_terminal_intake_fence once the receipt of `op` is terminal.
ClearTerminalFence(op) ==
  /\ intakeFence # NoFence /\ intakeFence.op = op
  /\ LiveWork = {}
  /\ intakeFence' = NoFence
  /\ UNCHANGED <<processes, active, sessions, history, issued, workGeneration, current>>

\* PruneCoordinator._eligible.
Eligible(k) == processes[k].status = "terminal" /\ processes[k].claim = NoClaim

\* PruneCoordinator._save_intent (a second journal for the run is refused
\* because its paths are taken).
SaveIntent(k, keepRun) ==
  /\ Eligible(k) /\ journals[k] = NoJournal
  /\ Cardinality({j \in Keys : journals[j] # NoJournal}) < MaxPendingPrunes
  /\ journals' = [journals EXCEPT ![k] = [phase |-> "pending", keepRun |-> keepRun]]
  /\ UNCHANGED <<processes, active, sessions, tombstones, retained, issued,
                 intakeFence, workGeneration, current>>

\* PruneCoordinator._commit: the record gives way to a tombstone.
CommitPrune(k) ==
  /\ journals[k].phase = "pending" /\ Eligible(k)
  /\ processes' = [processes EXCEPT ![k] = NoRecord]
  /\ journals' = [journals EXCEPT ![k].phase = "committed"]
  /\ AddTombstones({k})
  /\ retained' = IF journals[k].keepRun THEN retained \cup {k} ELSE retained
  /\ current' = [current EXCEPT ![k] = {}]
  /\ UNCHANGED <<active, sessions, issued, intakeFence, workGeneration>>

\* PruneCoordinator._cleanup: the files are gone, the journal is forgotten.
FinishPrune(k) ==
  /\ journals[k].phase = "committed"
  /\ journals' = [journals EXCEPT ![k] = NoJournal]
  /\ UNCHANGED <<processes, active, sessions, tombstones, retained, issued,
                 intakeFence, workGeneration, current>>

--------------------------------------------------------------------------------
(* Every operation, in any order, by callers that may be as late and as     *)
(* confused as they like; ManagedRuns restricts them to the real callers.   *)

RunStep ==
  \E k \in Keys :
    \/ \E i \in Sessions \cup {None}, m \in Instances : Reserve(k, i, m)
    \/ \E status \in ActiveStates, evidence \in Evidence :
         /\ processes[k] # NoRecord
         /\ UpdateActive(k, status, evidence, processes[k].claim, {})
    \/ \E id \in ClaimIds, m \in Instances, inspected \in BOOLEAN :
         ClaimFinalization(k, id, m, inspected, {})
    \/ ExpireClaim(k)
    \/ \E id \in ClaimIds, completed \in BOOLEAN : CommitFinalization(k, id, completed)
    \/ \E keepRun \in BOOLEAN : SaveIntent(k, keepRun)
    \/ CommitPrune(k)
    \/ FinishPrune(k)

SessionStep ==
  \/ \E i \in Sessions :
       \/ \E m \in Instances : OpenSession(i, m)
       \/ CloseRequest(i)
       \/ ExpireSession(i)
       \/ FinishSession(i)
  \/ CloseOrphanedSessions

FenceStep ==
  \E op \in Operations :
    \/ \E idle \in BOOLEAN, g \in 0..workGeneration : InstallFence(op, g, idle)
    \/ ClearTerminalFence(op)

Next == RunStep \/ SessionStep \/ FenceStep

Spec == Init /\ [][Next]_repoVars

--------------------------------------------------------------------------------
\* validate_state never refuses what the operations other than `update` are
\* about to commit: the index, the back-references, the prune journals and the
\* tombstones stay consistent without it (models.py, protocol.py).
StateValid == ValidState(processes, active, sessions, journals, tombstones)

\* history.maxTombstones bounds the tombstones whatever fills them.
TombstonesBounded == Cardinality(tombstones) <= MaxTombstones

\* A run that reached a terminal status never becomes active again; it can only
\* be pruned.  A start thread that lost the race against a finalizer tries
\* exactly that (manager.py _start: three unconditional updates).
TerminalIsFinal ==
  [][\A k \in Keys : processes[k].status = "terminal" =>
       processes'[k] \in {processes[k], NoRecord}]_repoVars

\* A session that is closing, expired or failed to clean up never gets another
\* run and never opens again (sessions.py reserve_run against close and sweep).
ClosingSessionDrains ==
  [][\A i \in Sessions : sessions[i].state \in SessionActiveStates \ {"open"} =>
       /\ sessions'[i].state # "open"
       /\ sessions'[i].runKeys \subseteq sessions[i].runKeys]_repoVars

\* Conditional stop compares two readings of the work generation: no run or
\* session may begin or end between them without changing it.
GenerationSeesWork ==
  [][/\ workGeneration' >= workGeneration
     /\ LiveWork' # LiveWork => workGeneration' > workGeneration]_repoVars

\* While a fence is installed work can only drain (state.py reserve, sessions.py open).
FenceDrainsWork == [][intakeFence # NoFence => LiveWork' \subseteq LiveWork]_repoVars

\* close --stop-manager-if-idle never stops someone else's work (workflow.md:72):
\* under a fence that required idleness there is none.
IdleFenceIsIdle == intakeFence # NoFence => (intakeFence.idle => LiveWork = {})

\* The fence seen from the operations that install it: until one lifts it work is
\* drained, none is admitted, and no other operation has the fence.
Intake == INSTANCE IntakeFence WITH Work <- Keys \cup Sessions, fence <- intakeFence.op,
                                    work <- LiveWork
KeepsIntake == Intake!Spec
================================================================================
