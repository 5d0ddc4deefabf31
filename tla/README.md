# Verification of dev-skills

dev-skills is a collection of agent skills; each skill is a Python program of its own under `src/skills/<skill>/scripts`.
This project specifies their stateful parts in TLA+, checks small instances with TLC, and proves the safety properties
of every model with TLAPS, for all values of its constants. Its centre is `process-manager`, the largest skill and the one in which most threads,
processes, files and crashes meet; beside it stand the execution of a planned task (executor, planner and reviewer) and
the operations of the UI verifier.

Run a check with `tlc -config <cfg> <module>`, the proofs with `tlapm <module>Proofs.tla`, eight modules, of which the
longest takes some minutes. `PROJECT.json` lists every run, the lines each definition stands for, the hazards and the
theorems.

## Inventory

| Component | State | Operations | Interacts with | Hard behaviour |
|---|---|---|---|---|
| process-manager: central repository (`state.py`, `models.py`, `resources.py`, `protocol.py`) | `processes.json`: run records, active index, sessions, prune journals, tombstones, fence, generation | one transaction per operation: reserve, update, claim, commit, open/close session, prune, fence | everything below calls it; it is shared by the manager and by control clients through one file lock | limits, stale revisions, claims that expire, back-references that must stay consistent |
| process-manager: repository journal (`state.py`, `protocol.py`, `atomic.py`) | `pending.json`, run files, session files, main file and backup | commit, load, recover, rebuild | written by every repository transaction | a crash between two of six file writes |
| process-manager: run start and finalization (`manager.py`, `run_finalization.py`, `launch.py`, `service_host.py`) | live runs in memory, run owner, host process | start, watch, stop, restart, session close, sweep, reconcile, shutdown | repository, platform owner, sessions | a stop racing a start, two finalizers, manager crash, ownership that cannot be proved empty |
| process-manager: platform owners (`platforms/`) | cgroup, Job Object or process group | create, bind, stop, inspect | finalization | members that outlive the leader, pid reuse |
| process-manager: sessions and leases (`sessions.py`) | session records, monotonic anchors | open, renew, reserve a run, close, sweep, shut down | repository, finalization | wall clock jumps, expiry racing renewal, close racing start |
| process-manager: pruning (`resources.py`) | prune journals, run directories, quarantine | plan, move, commit, clean, resume | repository, file system | crash between a rename and its journal phase, two coordinators |
| process-manager: manager lifecycle (`manager_lifecycle.py`, `manager_start.py`, `manager_state.py`, `bootstrap.py`) | operation receipt, bootstrap state, manager file | ensure, stop, restart | repository fence, control plane, process table | client crash in the middle of a stop, two clients, takeover of a dead manager |
| process-manager: control plane (`control_api.py`, `client.py`, `protocol.py`) | bounded gate, start drain, shutdown flag | request, reject, drain | manager | saturation, timeout racing the answer, shutdown racing requests |
| process-manager: logs and redaction (`logs.py`, `patterns.py`) | rotated log files, redactor buffer | write, rotate, tail, redact | run host | a secret split over two chunks |
| process-manager: configuration, probes, CLI | none | parse, probe | | none worth a model |
| complex-coding-executor | `ledger.jsonl`, `run-state.json`, attestation, archived revisions | append an event, reconcile, attest, archive, activate an amendment, final check | planner's contract, reviewer's receipts, git | commands that die or run on, evidence that is stale, work carried over a revision |
| complex-coding-planner | contract, plan review, active pointer | draft, check, approve, close the pointer | executor | coverage of criteria, acyclic stages, pointer against bundle |
| complex-coding-reviewer | preparation, dispatch, semantic result and receipt of a review | freeze, prepare, dispatch, retry, fall back, assemble, validate | executor, planner, host agents | retries, answers that come late, targets that change meanwhile |
| electron-ui-verifier | operation files and request index, run journals, reports, pending bundles | submit, run, cancel, finalize, shut down, recover | browser pages, HTTP clients | a mutation whose outcome nobody knows, crash between two files, cancel against completion |
| gitlab-pat-ops | guard of one invocation | read, guarded write | GitLab | retry of a write |
| skill-evaluation-lab | evaluation artifacts | inspect, score, report | | batch, no concurrency |
| evals, tests, docs, installer | | | | not part of the running program |

What must be true of each component:

- *repository*: index, back-references, journals and tombstones agree after any sequence of transactions; a terminal run
  and a closing session never come back; the generation and the fence account for all work.
- *repository journal*: a transaction happens as a whole or not at all, whatever is interrupted.
- *run start and finalization, owners*: a terminal record proves the owner empty; a run is replaced only then; a session
  that is to be closed gets closed.
- *sessions*: a lease never outlives its clock; a renewed one is not expired; nothing enters a session that is closing.
- *pruning*: the files of a run are removed only with its tombstone written; every interrupted prune can be resumed.
- *manager lifecycle*: a stop that is given up is resumed by the next client; at most one manager; the fence is released
  exactly when the operation is over.
- *control plane*: permits are given back once; a shutdown waits for admitted starts and flushes its own answer.
- *logs*: the redaction of a stream is the redaction of the text.
- *executor, reviewer, planner*: the run state is a function of the ledger; a receipt tells of what its reviewer read; a
  stage stays completed only on the terms it was proved on; what is accepted was reviewed as it is.
- *electron-ui-verifier*: a request runs at most once; what may have had an effect is never reported as cancelled; a
  finished run stays as it was reported.

## Modules

| Module | Models | Uses | Proofs |
|---|---|---|---|
| `IntakeFence` | what stop and restart rely on: behind the fence work drains, none is admitted, and it is lifted when none is left | | |
| `RunRepository` | the central state and each of its transactions | implements `IntakeFence` | `RunRepositoryProofs` |
| `ServiceRuns` | the promise: at most one live run per service, processes only of live runs | | `ServiceRunsProofs` |
| `ManagedRuns` | manager threads, hosts, targets, crashes, around the transactions | extends `RunRepository`, implements `ServiceRuns` and `RunRepository` | `ManagedRunsProofs` (extends `RunRepositoryProofs`) |
| `CentralState` | the values of the central state, as its files hold them | | |
| `AtomicRepository` | the repository as one value | extends `CentralState` | |
| `RepositoryJournal` | the six files behind it, one write per step | extends `CentralState`, implements `AtomicRepository` | `RepositoryJournalProofs` |
| `PruneJournal` | the prune of run history on disk: moves, phases, deletions, tombstones | its steps are steps of `RunRepository` | `PruneJournalProofs` |
| `ManagerOperation` | ensure, stop and restart of the manager process | implements `IntakeFence` | `ManagerOperationProofs` |
| `ReviewDispatch` | one review, from the frozen target to the receipt | | `ExecutionLedgerProofs` |
| `ExecutionLedger` | a managed task from its plan to its acceptance | extends `ReviewDispatch` | `ExecutionLedgerProofs` |
| `VerifierOperations` | operations and run journals of the UI verifier | | `VerifierOperationsProofs` |
| `MC...` | constants of the small instances | | |

The type invariant of a module is the first conjunct of its first invariant where it is not listed on its own.

The operators whose comment begins with "Mutant" are not part of the model: each is a plausible mistake in the definition
that follows it (a guard dropped, a field forgotten, an order swapped), and TLC finds the property named with it in
`PROJECT.json` violated when it takes the place of that definition.

### RunRepository

The variables are the fields of `processes.json`. A run record keeps its status (all terminal statuses are one), its
owner (a session or `None` for a persistent run), its manager instance, its cleanup claim and how much evidence of its
owner it holds (`none`, `host` once `hostIdentity` and `owner` are written, `full` once the target is known). One action
is one `with self.transaction()` block: `Reserve`, `UpdateActive` (the updates of a start and of `_enrich_evidence`),
`ClaimFinalization`, `CommitFinalization`, `OpenSession`, `CloseRequest`, `ExpireSession`, `FinishSession`,
`CloseOrphanedSessions`, `InstallFence`, `ClearTerminalFence`, `SaveIntent`, `CommitPrune`, `FinishPrune`. A transaction
is refused when `validate_state` refuses its result; only `update` can run into that, so `UpdateActive` has `Validated`
as a guard and `StateValid` states that no other transaction needs it. The file moves of a prune are between its
transactions and not in this module; the journal phases `intent` and `quarantined`, which the central state treats
alike, are one phase `pending`.

Callers are arbitrary here (`Next` quantifies over every argument); what holds, holds whatever threads, managers and
control clients do.

### ManagedRuns

A thread executes one call: a start (`StartRun` and the program counter values `reserved` to `running`, one step per
repository transaction or message to the host), a finalization (`lock`, `claim`, `enrich`, `clean`, `killed`, `commit`),
a session close or sweep (`CloseSession`, then `NextRun` and a finalization per run, then `FinishClose`) or the boot of a
manager (`Boot`, the same loop, `OpenGate`). `FailStart` is any exception of a start; its cleanup goes through the owner
in memory or, before there is one, through the host; `ForceOwner` is the forced stop of an owner that
is found not empty. A host is `waiting`, `spec`, `asking`, `told`, `serving`, `ending`,
`exited` along `run_host`; `alive` holds which processes of the target run. `Crash` loses the memory of the manager and
nothing else. `ExpireClaim` is the 30 s deadline of a claim: any time is late enough. `_runs` is `runs`;
`finalization_lock` and the lock by process key are `Locked`.

A finalization inspects the owner with the evidence it read, which is where cgroups and process groups differ:
`InspectCgroup`/`InspectGroup` for a later finalizer, `LiveOwnerEmpty` for the owner in memory. The backend is chosen
once, in the initial state.

### RepositoryJournal

`commit_repository` writes `processes.pending.json`, the run file, the session file, the backup, `processes.json`, deletes
a session file and unlinks the pending file; each is a step, atomic by `atomic_write_bytes`. `Interrupt` is a crash or an
exception before any of them; the next holder of the lock finishes what is pending (`Recover`). `load` without the lock
is `Peek`, `ReadPending`, `ReadMain`, and `Rebuild`/`Repair` when the file is missing or spoilt. A record is its revision.
The threads of one process are kept apart by the in-process lock of the `StateStore`, so a process is one actor.
`AtomicRepository` is refined under `value <- Durable`, what a `load` that begins now would answer, and `revived <-
Revived`, the closed sessions that a damaged file has brought back and nobody has written since (see Notes).

### PruneJournal

`PruneCoordinator.run` is `Begin` (resume what is journaled), `Plan`, `SaveIntent`, `CheckMove`/`Rename` (`_move`: the test
for the two paths and the rename are apart), `MarkQuarantined`, `VerifyQuarantine`, `Commit`, `ProveCommit` (`_resume` looks
at the quarantine before the commit and at the tombstone after it), `RemoveFiles` or `RemoveFails`, `PopJournal`; each
repository transaction is atomic, each file operation a step of its own, and a coordinator goes on with the copy of the
journal it has read. `Crash` ends all coordinators. Each save makes the state before it the `backup`, and a power loss may
leave no central state that can be read: `Rebuild` is `load` without a backup (record files that are in place come back,
journals are lost), `Merge` is `load` with one, which is one save old (`Recovered`: journals and tombstones are the backup's,
and so are the records of the prunes it knows as not committed; without such evidence what the directories hold, or else the
backup as it is). `RepositorySteps` maps all other steps onto the transactions of `RunRepository`. Whatever terminal runs the
policy picks, by age, count or size, is any set of recorded runs.

### ManagerOperation

One client holds the operation lock; `client` is its program counter through `ManagerConverger` and
`ManagerStartCoordinator`. `Checkpoints` are those of the receipt, and every write of `operation.json`, of the fence, of
`manager.json` and of `bootstrap.json` is a step, before and after which the client may be killed. `BootAdmit`,
`BootCapture`, `BootLock`, `BootClear`, `BootPublish` and `BootServe` are the launched `manager_server.py`, which asks three times for
the receipt it was started for. `resolve` is `States`: what the files and processes allow a client to conclude, where a
health request may be answered late or not at all. `late` remembers that a boot has published after the cleanup of its
receipt (see Notes). `Ids` bounds the receipts: that a new one is among them is a guard, and for the replacement of an
expired receipt one that is always met.

### ReviewDispatch and ExecutionLedger

`ReviewDispatch` has the frozen target and context, a preparation and a final dispatch per attempt (at most two), the
agent with its answer, and the receipt with what its author has read. Lenses, findings and coverage are abstracted to the
verdict derived from them. `ExecutionLedger` composes it with the contract (four contracts over two revisions), the
attestation, the ledger as its replay, the snapshot, the archive of revisions and the active pointer. An event is read
(`Event`), appended (`Append`) and saved (`Save`); archive, unlinks and the amendment event of an activation are steps of
their own. A working tree is the version of each path; `Edit` writes a new version, `Undo` puts an earlier one back, and either
may happen under a review. The digests a review freezes are those contents, so that a target which was changed and changed
back is fresh again, as in `verify_target_freshness`; the history field `restored` of a review, which no guard reads,
remembers it. `Kill` ends a command at any of them, `TimeOut` lets it run on beside the next one: this is how two commands
write one ledger. Events that change nothing are left out; the coordinator waits for its own review and its own command
unless the host gives it up; the check of an archive and the first unlink are one step; a write is never torn.

### VerifierOperations

The consumer's commands (`PrepareRun`, `Submit`, `Cancel`, `FinalizeCommand`, `Shutdown`) and the task of an operation
(`TakeLock`, `BeginStep`, `StepReturns`, `NextStep`, `FinalizeWorkflow`, `EndTask`) share one event loop, so that they interleave
only at awaits: `Idle` says that none of them is between two. Inside such a stretch each file is still a step (`WriteIndex`
after the operation file; `WriteReport`, `WritePending` and `CloseRun` after the first save of a finalization), for a crash
may come between. A task keeps the journal it has loaded in `copy` and saves that. `Interrupt` is a `CancelledError`, from
a cancellation, a shutdown or `wait_for`; `uncertain` is the history of operations with a mutation nobody knows the
outcome of. A step is an action with its flag `optional` (`continueOnFailure`, which any action may have): `Passed` is the
verdict of a report, which leaves optional steps out, and `MayContinue` says that only an optional diagnostic of a workflow the
client wrote may fail without ending the workflow. `asset` marks the workflows of the knowledge base, which end at the
first failure and are finalized without a look at their deadline.

## Runs

| Run | Instance | Shows |
|---|---|---|
| `repository` | 2 runs of one service, 1 session, 2 managers, 2 claim ids, 2 tombstones; 0.3 M states | `TypeOK`, `StateValid`, `TerminalIsFinal`, `ClosingSessionDrains`, `GenerationSeesWork`, `KeepsIntake`, `TombstonesBounded` |
| `managed_runs` | 1 run, 1 session, 2 threads, 2 successive managers, either backend, hosts killed from outside, a child in the group; threads and managers symmetric, 0.7 M states | `KeepsPromise`, `UsesRepository`, `ClosedSessionsClean` |
| `managed_closing` | 1 run, 1 session, 2 threads, 1 manager, either backend, hosts killed from outside, fairness; 0.4 M states | `UndisturbedSessionsClose` |
| `managed_group` | process groups, `NoOrphans` | violated, see Findings |
| `managed_live` | cgroup, no children, `SessionsClose` | violated, see Findings |
| `journal` | 1 run, 1 session, 3 transactions; two processes and nothing spoilt, or one process and a file spoilt at any time; 1.8 M states | `ActsAtomically`, `FilesAgree`, `ReadsAreMonotone` |
| `journal_init` | two processes, no `processes.json` yet | violated, see Findings |
| `prune` | 2 runs, 1 session, 2 coordinators, 2 tombstones, 1 fault (also a lost central state, with or without a backup), run directories deleted or kept; 0.2 M states | `IndexedRunsHaveFiles`, `CommittedHasEvidence`, `NeverResurrected`, `RepositorySteps`, `JournalsDrain`, `ClosingSessionsCompact` |
| `operation` | 2 managers, 2 commands, 2 faults (a client killed, a manager lost, a wait too short, a boot too late, an upgrade) | `FenceHasReceipt`, `CheckpointsHold`, `ServingIsNamed`, `StoppedIsStopped`, `RestartReplaces`, `WorkIsSpared`, `EnsureAndStopFinish`, `FenceLifted` |
| `operation_restart` | 1 fault, `RestartsFinish` | violated, see Findings |
| `execution` | 2 stages, 2 revisions, 2 attempts, one path edited, and put back as the fault, 1 fault, commits authorized; 0.3 M states | `ReceiptTrue`, `OneReviewer`, `EvidenceStands`, `CompletedProved`, `NothingLost`, `AcceptedWork`, `TaskEnds`, `DriftRepaired` |
| `verifier` | 2 requests on one run, one of them an asset workflow with an optional mutation, 2 operations, 1 crash; 0.2 M states | `OutcomesHonest`, `NeverReplayed`, `FinishedRunStays`, `OperationsEnd` |

Why the bounds are enough. Two runs of one service is the least that shows a replacement, and the index is per service.
Two threads share or dispute one claim, and a third would only repeat what one of them does; two claim ids are enough for
two threads, because a forgotten id is as good as a new one (a run with three finds the same states up to renaming). Two
managers make one loss and one reconciliation. `managed_runs` has one run; that a *second* run of the service meets no
process of the first is proved for all numbers of runs (`ReplacementsComeAlone`), as are all safety properties below for
all values of their bounds. The tombstone table of `repository` holds 2 so that it fills up.
Three transactions are a session opened, a run written into it and the session closed, or a damage after a closed
session. Nothing grows without a bound in `RunRepository` except `workGeneration`: every identifier is used once
(`issued`), so that the state space is finite.

`prune`: two coordinators meet on one journal, a third repeats one of them; the fault is a crash, an exception or a lost
central state, at any write, and each is resumed; that a fault of the resumption does no harm either is proved, for any
number of faults, for the safety properties. The table holds as many tombstones as there are runs, as `JournalsDrain` needs (see Notes). `operation`: the two managers are the one that is
replaced and the one that replaces it; a receipt left by a killed client is followed by one that resumes it and one that
replaces it. `execution`: the second contract carries the first stage and changes what the second is validated by and
commits, so that completed work is kept for the one and done again for the other; the stages differ in risk and in their
commit, which the user has authorized; one fault is a lost agent, a found flaw, an edit taken back or a dead command, and what two of them combine (a fallback
that finds a flaw) is not reached. `MaxVersion` and `MaxEdited` leave one path one edit: with its undoing that is the
shortest way from a content to another and back, under a review or between two. `verifier`: the first request is an
asset workflow of one optional mutation that finalizes its run, the second a workflow of an optional diagnostic, which may
fail and be passed over, and a required mutation; both use one run, as runs share nothing but the lock. The second
operation is that of the other request, or the one a repeated request creates after a crash between operation and index.

Deadlock is checked in `prune` and `verifier`. The other runs have `CHECK_DEADLOCK FALSE`: identifiers, managers,
revisions and receipts run out, and a system without work, or a task that has ended, rests.

### Fairness

`ManagedRuns` assumes weak fairness of each thread's current call (a Python thread gets to run, every wait has a timeout),
of each host process and of the claim clock, and strong fairness of the sweeper's next pass over a session that is not
open: `_sweep_loop` has a thread of its own and a rotating cursor, so a session comes up again and again, but a thread of
the model is free for it only now and then. Nobody has to boot a manager, call anything or exit on SIGTERM; the liveness
properties therefore assume that a manager finally stays up (`Settled`).

`PruneJournal`: a coordinator that has begun goes on, prunes are begun again (each start, commit and close does so), and a
closing session is closed again by the sweeper, strongly, for the same reason as above.

`ManagerOperation`: the client that holds the lock, the boot of a manager and the clock go on; each command is begun again by its user,
with the confirmation it asks for, strongly, because the lock may be taken by other commands in between. Faults are bounded, so that there is
a last one.

`ExecutionLedger`: weak fairness of one action, `Progress`: the agent, its coordinator and its reviewers do something
useful as long as there is something useful to do. It says nothing of which, and nothing of faults, edits and commands
that run on. `TaskEnds` therefore excludes what no step can mend (`Stuck`, each explained under Notes).

`VerifierOperations`: the event loop runs every ready callback in turn, a deadline passes. Strong fairness is for the tasks and the return of `cancel`, which are
ready only between two stretches of others. No page has to answer, no client has to send anything and nobody has to
start the service: `OperationsEnd` assumes that it is up again and again.

## Findings

- `managed_group` (`platforms/posix.py:105`): an owner whose process group was never bound is empty as soon as its host
  has exited. A start that fails in the handshake is committed as `start_failed` with `cleanupVerified` while a child of
  the target lives on. Once the record names the target the group is accounted for (`KeepsPromise`).
- `managed_live` (`platforms/linux.py:138`, `run_finalization.py:157`): a session close that meets a start in flight works on
  the record only. If its claim is taken over before it ends, it still removes the cgroup; the owner which the start has
  registered meanwhile reads a missing `cgroup.events` as not empty for ever, and the session stays in `cleanup_failed`
  while this manager lives. `UndisturbedSessionsClose` shows that, as long as owners can be verified, this is the only way.
- `journal_init` (`state.py:98`): a missing `processes.json` is rebuilt and saved without the repository lock; the empty
  state can overwrite the first transactions of another process.
- `operation_restart` (`manager_start.py:262`): a restart that is killed once it has begun to start the new manager, which is
  gone as well, is never finished: every further restart renews the deadline of the pending receipt, and only an
  expired one is replaced; ensure and stop answer `operation_conflict`.

### Notes

What modelling has shown and no run refutes by itself; each is a guard, a premise or an excluded case of a property named.

*Repository and prune.* A damaged `processes.json` can bring two closed sessions back from the backup; the next damage loses
both at once, which an instance with three sessions shows and the smaller one does not (`revived` in `AtomicRepository`). When no record file is left and the backup has no tombstone yet, a spoilt `processes.json` brings
the session that has just been closed back from the backup (`state.py:119`, premise of `FilesAgree`). Tombstones of kept runs
(`deleteRunDirs` false, `--keep-runs`) are never trimmed; once they fill the table no session without runs can be compacted
(exception of `ClosingSessionsCompact`) and no pending prune committed; as `recover_pending` goes through the journals in order and
stops at the first refusal, the others wait too (`JournalsDrain` needs `MaxTombstones` as large as the number of runs).

The backup of a spoilt `processes.json` is one save old, and `merge_rebuilt_resource_evidence` takes journals and records from it
without a look at the files (`protocol.py:202-227`). When the last save was the commit of a prune and its directory is deleted
already, the merge puts the record back together with its `quarantined` journal (exception of `IndexedRunsHaveFiles`): every resume
then raises at the missing quarantine (`resources.py:428-445`), the journals after it wait (`Stranded`, exception of `JournalsDrain`
and `ClosingSessionsCompact`), and the byte account of `RuntimeAccountant`, which the automatic prune and the admission
of runs and sessions need, raises as well. A backup without journals and tombstones is taken as it is when the directories
hold nothing: it may bring back a session without its file, or a run whose directory is in the quarantine with
no journal to say so.

*Manager lifecycle.* A manager that writes `manager.json` between the client's last look and its cleanup survives a
start that is noted as failed; all three commands may then refuse (`late` in the properties of `ManagerOperation`). A
client killed between the fence and the first checkpoint, whose work then ends, leaves a receipt that fails with its fence
kept, because the generation has moved (exception of `FenceLifted`). An expired ensure receipt lets `recover` stop a serving
manager with live work without the confirmation `workflow.md:45` asks for (second alternative of `WorkIsSpared`).

*Reviewer.* Freshness is a comparison of digests (`target.py:425-474`, `dispatch.py:156-173`, `assemble.py:48`). An edit that is made
and taken back while a reviewer reads leaves a valid receipt for a content its reviewer has not seen, and a stage may be
completed and a task accepted on it. `ReceiptTrue`, `EvidenceStands` and `AcceptedWork` therefore say that the target of a receipt
is what was frozen, what the stage was validated on and what is there at the end, and that its reviewer read just that unless
an edit was taken back under the review (`SawTarget`).

*Executor.* The dead ends of `Stuck`, and what leads there:
- A command that has timed out and appends beside the next one gives two events one number; the ledger is refused from
  then on (`ledger = None`).
- A `completed` that is appended by such a command after another edit leaves a terminal task that the final checker refuses.
- Events or a reconciliation after the archive, and a crash between the archive's directory and its manifest, make both
  activation and another archive impossible.
- An amendment that carries every stage can not be completed: no stage review is left as the baseline of the final one
  (`RUN_STATE_REVIEW_BASELINE_MISSING`; `execution-workflow.md:232` lets all stages be carried).
- Uncommitted changes of an earlier stage outside the paths of the next one make every review of the next one fail with
  `RUN_STATE_REVIEW_SCOPE_DRIFT`.

Besides, the code differs from its documents where no property of the model depends on it: `research_drift` always sets
`reapproval_required` and so can not be resumed (`harness_state.py:355-376`, `execution-workflow.md:174`); attempts,
validations, stage reviews and completions do not ask for the lifecycle (`execution-workflow.md:201`); a task blocked
while approved resumes as in progress without `execution_started`; the first event of a new revision need not be
`amendment_approved`, and then carried stages are lost; the carried set is only found not to be closed under
dependencies after the files were unlinked.

*UI verifier.* A client's `run_finalize` does not take the operation lock, while `append_action` waits with the journal it
has loaded. That journal is then saved over the finished run, a mutation may even begin on it, and the next finalization is
refused or leaves a report of another journal (premise `Held` of `FinishedRunStays`, equality of the steps in
`OutcomesHonest`; `workflow.md:15` promises the same product for a repeated finalize). `continueOnFailure` is accepted on every
action (`models.py:159-224`, `runs.py:302`), although `actions.md:71` keeps it to diagnostics; the workflow does stop after a
mutation that failed (`runs.py:438-443`), but the report leaves the step out (`reports.py:36-41`): it may say "passed" over an
optional mutation of unknown outcome, while the run is `aborted` and the operation `unknown`. `OutcomesHonest` allows just that. A crash between the pending bundle and
the closing save makes every later finalization fail with `pending_fingerprint_conflict`, as the new report has a new
`finalizedAt` (`WritePending`): the run stays in `finalizing`. `execute_workflow` writes `workflow` and `updatedAt` even into the
journal of a finished run (not modelled: no property reads them). A deadline noticed by a checkpoint ends as `failed` instead of
`deadline_exceeded`, and the one in `begin_mutation` leaves its step `running` in the journal (`BeginStep` with `late`).

## Proofs

Every safety property and action property of a passing run is proved for all values of the constants that satisfy the
assumptions named in the modules, any number of runs, sessions, threads, clients or amendments and any bound among them.
Those assumptions say which constants are numbers, finite or functions on what, that `None` is none of the values it stands
beside, and that name spaces are apart (a run key is no session). They are conditions of the instance, not of the
program, except `Sheltered`, below. Each module has one inductive invariant, called `IInv` (`CInv` in `RunRepositoryProofs`,
`Inv` in `ServiceRunsProofs`); it was checked by TLC on a small instance before it was proved.

| Module | Theorem | States |
|---|---|---|
| `RunRepositoryProofs` | `TypeCorrect`, `StateAlwaysValid` | `TypeOK`, `StateValid` |
| | `FinishedRunsStay`, `ClosingSessionsDrain` | `TerminalIsFinal`, `ClosingSessionDrains` |
| | `GenerationTracksWork` | `GenerationSeesWork` |
| | `IntakeIsKept` | `KeepsIntake` (refinement) |
| | `FenceHoldsWork`, `IdleStopIsIdle` | `FenceDrainsWork`, `IdleFenceIsIdle` |
| | `TombstonesStayBounded` | `TombstonesBounded` |
| `ServiceRunsProofs` | `RunsOfAServiceApart` | `OneRunPopulated` |
| `ManagedRunsProofs` | `RunsKeepTheirPromise`, `RunsUseTheRepository` | `KeepsPromise`, `UsesRepository` (refinements) |
| | `SessionsLeaveNothing`, `CgroupsLeaveNoOrphans` | `ClosedSessionsClean`; `NoOrphans` where the backend is the cgroup |
| | `ReplacementsComeAlone` | `OneRunPopulated` of the manager's runs |
| | `RepositoryStaysValid`, `FinishedRunsOfManagersStay`, `SessionsOfManagersDrain` | `StateValid`, `TerminalIsFinal`, `ClosingSessionDrains`, with threads and crashes as the callers |
| | `GenerationOfManagersTracksWork`, `TombstonesOfManagersBounded` | `GenerationSeesWork`, `TombstonesBounded`, likewise |
| | `VerifiedOwnersStayEmpty` | `VerifiedIsEmpty`: what a thread found empty is empty when it commits |
| `RepositoryJournalProofs` | `FilesSuffice`, `ReadersMoveOn` | `FilesAgree`, `ReadsAreMonotone` |
| | `TransactionsAreAtomic` | `ActsAtomically` (refinement) |
| | `CommittedIsKept` | `CommittedStays`: no run record goes back, no closed session opens again |
| `PruneJournalProofs` | `FilesGoLast`, `EvidenceStays`, `PrunedStaysPruned` | `IndexedRunsHaveFiles`, `CommittedHasEvidence`, `NeverResurrected` |
| | `PrunesAreTransactions` | `RepositorySteps` |
| | `RunDirsAreIndexed`, `TombstonesAreOfTheGone` | what is in the run directories is indexed; no tombstone is of a run or session that is there |
| `ManagerOperationProofs` | `FencesAreOwned`, `CheckpointsAreTrue`, `ServingAreNamed` | `FenceHasReceipt`, `CheckpointsHold`, `ServingIsNamed` |
| | `StopsAreComplete`, `RestartsReplace`, `WorkKept` | `StoppedIsStopped`, `RestartReplaces`, `WorkIsSpared` |
| | `OperationsKeepIntake` | `KeepsIntake`, of the clients and managers (refinement) |
| | `ManagersComeAlone`, `OneManagerServes` | one manager is alive unless a boot has escaped; one has the lock, escaped or not |
| `ExecutionLedgerProofs` | `ReceiptsAreTrue`, `ReviewersAreOne`, `EvidenceIsThere` | `ReceiptTrue`, `OneReviewer`, `EvidenceStands` |
| | `CompletedIsProved`, `NothingIsLost`, `AcceptedIsProved` | `CompletedProved`, `NothingLost`, `AcceptedWork` |
| `VerifierOperationsProofs` | `OutcomesAreHonest`, `NothingIsReplayed`, `FinishedRunsStay` | `OutcomesHonest`, `NeverReplayed`, `FinishedRunStays` |
| | `UnknownOutcomesShow`, `OperationsTakeTurns` | a mutation of unknown outcome shows in its aborted run; one operation has the lock |

### The arguments

*RunRepository.* `NextIsOperation` reduces `Next` to a dozen kinds of steps, so that each invariant has one lemma per kind. The
inductive invariant grows in three layers. `TInv` adds to `TypeOK` that every identifier in use has been issued: without it a
fresh run key could meet an old tombstone. `SInv` adds `StateValid`, which is inductive with it. `CInv` adds that only active
runs carry a claim: this is what keeps a second finalizer from committing a terminal run again, and what a prune relies
on. The action properties follow from `CInv` step by step. `KeepsIntake` is `WorkChange` (a transaction adds one run or session, with no fence, or
adds none) and what the two actions on the fence do. It says more than `FenceDrainsWork`, from which and from the guard of `InstallFence`
`IdleFenceIsIdle` follows; both are proved only.

*ServiceRuns.* The invariant is that only live runs are populated and a service has one live run; `OneRunPopulated` is not
inductive alone, because a new run starts before it is populated.

*ManagedRuns.* Every step is one of the repository's or leaves it alone (`StepUsesRepository`), so that `SInv` holds here by the
lemmas of `RunRepositoryProofs`. `MInv` adds what a thread knows where it is (`ThreadOK`), how far the host of a starting run
can be (`StartOK`), that one thread starts a run, and that each run is not begun, active, or `Spent`: its owner has no process
and never gets one. Most steps concern one thread and one run, which the frame lemmas (`OneRunMoves`, `NoRunMoves`,
`ProcessesMove`) turn into one short lemma per action. The centre is `EmptyIsSpent`: what a finalizer takes for an empty owner
is spent, whichever owner, evidence and stage of the start it looked at. With process groups this needs the exception
that `Spent` makes for an owner which was never told of its target, the one that `managed_group` is about. `PromiseStep` maps each
step to `Start`, `Populate`, `Empty`, `End` or a stutter. `VerifiedIsEmpty` follows from `Spent`: a thread that has verified an
owner goes on for several steps before it commits, and what is spent stays so. `GenerationSeesWork` and `TombstonesBounded` hold because
`RepositoryMoves` reduces every step to one of the repository's, for which `RunRepositoryProofs` has the lemma.

*RepositoryJournal.* The invariant says for each step of the writer what is written already (`WriterSound`), that a pending
transaction is not behind `processes.json`, that the record files are those of `Durable` but for what is pending, and that
neither copy of the state knows a run that has no file (`Behind`). Each write then either changes `Durable` by one transaction or
leaves it alone. `Sheltered` is the premise of these theorems: several processes share only a repository that has a
`processes.json` which nothing spoils. It is necessary, as `journal_init` shows for the other case, and the settings of
the run `journal` satisfy it. `CommittedStays` is read off the refinement: each value a step of `AtomicRepository` may commit
keeps it (`SuccessorKeeps`).

*PruneJournal.* `RunSound` relates the place of the files of a run to its record, its journal and its tombstone, and holds of the
backup as well as of the central state: what a recovery takes is consistent, but for files that are gone with a
`quarantined` journal. `Trails` says why that is the only way: until its journal is popped, a backup that still has the record of
a committed prune has it as `quarantined`, and afterwards the backup no longer has it. `ThreadSound` says what a coordinator has established
when it comes to a step and that no other coordinator can undo it, although it goes on with an old copy of the journal;
`SessionsSound` keeps tombstones and sessions apart.

*ManagerOperation.* `ReceiptSound` says what a pending receipt tells of the fence and the work at each checkpoint, `ClientSound`
what the client knows at each program counter, `ProcessSound` who holds the manager lock and is named. `BootSound` adds, unless a
boot has escaped (`late`), that one manager is alive, and is named or launched by the pending receipt. `KeepsIntake` says that the
clients and managers treat fence and work as the transactions of `RunRepository` do: both modules implement `IntakeFence`, here with the
receipt for the operation. TLC has confirmed it on the instance of `operation`, which does not list it.

*ExecutionLedger.* `ReviewSound` is about one review: what each attempt was frozen on and which agent may still answer. `LedgerSound`
says that what a ledger calls completed was proved on the terms of the plan or of the revision it was carried from;
`ArchiveSound` that an archive which is to replace the ledger says the same; and `Fits` what a command that still runs may write,
including one that was given up (`late`), whose event number makes the ledger unreadable rather than wrong.

*VerifierOperations.* `UncertainSound` says where an unknown outcome is still known to be unknown: in the task, or in the
operation, or in the journal that recovery has yet to read (`Doomed`), and `MutatingSound` that nobody has said how a mutation
in flight ended. `TaskSound` and `BegunSound` relate the task's step to the steps begun; `LockSound` and `FinalSound` say who may write a run.

### What the proofs have changed

Attempts that failed for a good reason, and what came of them:

- `RepositoryJournal`: the refinement failed for two closed sessions that come back together; `AtomicRepository` now says in
  `revived` what may be lost again (see Notes).
- `ExecutionLedger`: with more than two revisions, which the run does not have, an activation that a killed command left behind could be
  carried into a revision later than its own. `AmendmentApproved` and `ArchiveDone` have the code's comparison of revisions.
- `PruneJournal`: `CommittedHasEvidence` rests on the two checks of `_resume` that the model had as one; they are steps now. That the
  files of an indexed run are there is no invariant: once a merge has put a record without files into the index it stays. It
  is an action property now, which names that merge.
- `ManagedRuns`: guards of a `CASE` that overlapped (their order means nothing in TLA+) are an `IF`, and a thread between
  two calls remembers no evidence.
- `VerifierOperations`: the invariant needs that an operation is queued until its index is written, and that an uncertain
  one without a task says `unknown` unless the service is down.

### Only model-checked

Liveness and everything about fairness or `ENABLED`, which the proof system cannot treat: `UndisturbedSessionsClose`, `JournalsDrain`,
`ClosingSessionsCompact`, `EnsureAndStopFinish`, `FenceLifted`, `TaskEnds`, `DriftRepaired`, `OperationsEnd`. The properties of the runs that end in
a violation are refuted, not proved. No module declares a `RECURSIVE` operator.

## Not modelled

*Of the modelled components.* Readiness probes, identity checks (reused pids, foreign files), the Windows Job Object, the
grace of a SIGTERM (it obliges nobody, so a process may exit at any time or never), native systemd and launchd units,
byte budgets, a cgroup whose `rmdir` fails, a file spoilt while it is being written, a restart of the manager in the
liveness run (`managed_runs` has one, for safety). Of starts, that one which fails late reads its record again before it
takes over a claim that has expired meanwhile (`manager.py:197`, `run_finalization.py:365-368`; `ClaimRun` judges the owner by the
record the start has, and leaves the claim to other threads where that is not enough). Of
a failed manager start, that with a timeout of 0 it leaves `bootstrap.json` (`manager_start.py:402-407`; `FailClean` always
cleans). Of the merge with a backup its fence (`RepositoryJournal` has that), and the replay of a pending transaction
that makes the backup equal to the state. Of the executor the dependency gate, the schemas of evidence files,
an explicit switch of the active pointer, and edits of the plan while it is under review; of the reviewer packages, findings, lenses and the lineage of superseded
receipts. Of the UI verifier the page automation, sessions and driver, risk receipts, approval and the canonical store,
retention, retrieval, what an asset workflow records of its outcomes, and a disk that refuses a write.

*Components without a module.* The control plane, logs and redaction, and the lease clock: see Plan. `gitlab-pat-ops` is
an HTTP client with a guard per invocation; `skill-evaluation-lab` a batch pipeline without concurrent state;
configuration, probes and command lines parse and format. The largest part of the repository's Python, `evals/` and the
tests, is fixtures, graders and scenario runners around the skills: sequential scripts that compare texts and files. They
keep no state that outlives a step of theirs, and a model of them would say nothing of the program.

## Plan

1. `ControlShutdown`: request gate, start drain, shutdown accepted, flushed and run, composed with `ManagerOperation`.
2. `SessionLease` (two clocks and an anchor) and `Redaction` (the streaming redactor against the redaction of the whole
   text, over bounded inputs).
3. Approval and retention of the UI verifier, over the pending bundles of `VerifierOperations`.
4. Proofs of the safety properties of these modules. `RunRepository` and `ManagerOperation` implement one specification of
   fence and work, `IntakeFence`; a module that runs both together, with the threads of `ManagedRuns` as the work, is not
   written.
