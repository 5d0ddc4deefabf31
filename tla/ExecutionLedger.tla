---------------------------- MODULE ExecutionLedger ----------------------------
(* complex-coding-executor: a managed task from its plan to its acceptance.    *)
(* The planner writes a contract and has it reviewed; the attestation approves *)
(* it; the agent appends events to ledger.jsonl, whose replay is the state of  *)
(* the task and whose snapshot is run-state.json; reviews of each stage and of *)
(* the whole gate them; an amendment archives the ledger and begins another.   *)
(* A command is killed, or runs on after the agent has given up waiting for    *)
(* it, at any of its writes.  The ledger is represented by its replay.         *)
EXTENDS ReviewDispatch, FiniteSets

CONSTANTS Stages, Validations, Criteria, Paths,
          Contracts,    \* per revision, the contracts the planner may write
          Terms,        \* what each contract says
          Authorizations, \* what the user may say to commits
          MaxVersion,   \* versions of a path after the first
          MaxEdited,    \* paths that are not what they were at first
          MaxAttempts,  \* attempts at a stage
          MaxRevision   \* revisions of the plan

VARIABLES planReview,   \* the receipt the plan bundle keeps of its review
          attested,     \* what attestation.json approves: a plan, and commits or not
          ledger,       \* replay of ledger.jsonl, None when it cannot be read
          snapshot,     \* run-state.json: "none", "current", "behind" the ledger or
                        \* "foreign": of a ledger that is gone
          archive,      \* per revision: artifacts/amendments/revision-N
          command,      \* the command waited for, and one that is not any more
          pointer,      \* the task active-task.json names: "this", "other", "none"
          proved,       \* history: the stages completed on evidence, by their terms
          accepted      \* the final checker has passed

ASSUME BoundsAssumption ==
  /\ MaxVersion \in Nat /\ MaxEdited \in Nat /\ MaxAttempts \in Nat /\ MaxRevision \in Nat \ {0}

\* The planner chooses among contracts it knows the terms of.
ASSUME ContractsAssumption == \A r \in 1..MaxRevision : Contracts[r] \subseteq DOMAIN Terms

Plans == [rev : 1..MaxRevision, contract : DOMAIN Terms]

Scope == [kind : {"managed-plan", "stage-delta", "final-integration"},
          stage : Stages \cup {None}, attempt : Nat]

\* What the paths hold, by version.
Trees == [Paths -> Nat]

\* A plan, a working tree over its HEAD, or a commit.
Contents == Plans \cup (Trees \X Trees) \cup Trees

Target == [scope : Scope, kind : TargetKinds, content : Contents]

Context == [plan : Plans, claims : SUBSET Validations, expanded : BOOLEAN]

ReviewType == ReviewOf(Target, Context)
ReceiptType == ReceiptOf(Target, Context, Contents)

Ledger ==
  [rev : 0..MaxRevision, empty : BOOLEAN,
   life : {"approved", "in_progress", "blocked", "completed", "aborted"},
   current : Stages \cup {None}, completed : SUBSET Stages, carried : SUBSET Stages,
   reapproval : BOOLEAN, attempts : [Stages -> Nat],
   valid : [Stages -> [Validations -> Target \cup {None}]],
   reviews : [Stages -> ReceiptType \cup {None}],
   final : ReceiptType \cup {None},
   commits : SUBSET (Stages \cup {"final"}), based : BOOLEAN]

Attestation == [plan : Plans, commit : Authorizations]

ASSUME NoneAssumption ==
  None \notin Stages \cup Ledger \cup ReviewType \cup DispatchOf(Context) \cup Attestation

workVars == <<tree, head>>
taskVars == <<plan, planReview, attested, archive, pointer, accepted>>
runtimeVars == <<ledger, snapshot, proved>>
vars == <<workVars, taskVars, runtimeVars, command, dispatchVars, faults>>

contract == Terms[plan.contract]

\* Paths changed since HEAD.
uncommitted == {p \in Paths : tree[p] # head[p]}

Terminal == {"completed", "aborted"}

-------------------------------------------------------------------------------
(* The contract *)

\* Stages without a topological order: each waits for another of them.
Cyclic(c) == \E S \in SUBSET Stages \ {{}} : \A s \in S : c.dependsOn[s] \cap S # {}

\* Every criterion has a required validation, every required validation a stage.
CoverageComplete(c) ==
  /\ \A x \in Criteria : \E v \in c.required : x \in c.covers[v]
  /\ c.required \subseteq UNION {c.validations[s] : s \in Stages}

ContractValid(c) ==
  /\ ~Cyclic(c) /\ CoverageComplete(c) /\ \A s \in Stages : c.validations[s] # {}

\* What a stage depends on, directly or not.
Ancestors(c, s) ==
  {t \in Stages : \A S \in SUBSET Stages :
     (c.dependsOn[s] \subseteq S /\ \A x \in S : c.dependsOn[x] \subseteq S) => t \in S}

\* allowed_changes that are paths; a stage without any inherits its ancestors'.
StagePaths(c, s) ==
  IF c.paths[s] # {} THEN c.paths[s] ELSE UNION {c.paths[t] : t \in Ancestors(c, s)}

\* A stage with the definitions it refers to: what an amendment must leave alone.
Semantics(c, s) ==
  [stage |-> s, dependsOn |-> c.dependsOn[s], paths |-> c.paths[s], risk |-> c.risk[s],
   commit |-> c.commit[s],
   validations |-> {<<v, v \in c.required, c.covers[v]>> : v \in c.validations[s]}]

FinalPaths(c) == UNION {c.paths[s] : s \in Stages}

-------------------------------------------------------------------------------
(* Scopes and what reviews of them must show *)

PlanScope == [kind |-> "managed-plan", stage |-> None, attempt |-> 0]
FinalScope == [kind |-> "final-integration", stage |-> None, attempt |-> 0]
StageScope(s, attempt) == [kind |-> "stage-delta", stage |-> s, attempt |-> attempt]

\* The plan is reviewed strictly when it is a full one, as high risk demands.
ExpectedPolicy(scope) ==
  CASE scope.kind = "final-integration" -> "strict"
    [] scope.kind = "stage-delta" /\ contract.risk[scope.stage] = "high" -> "strict"
    [] scope.kind = "managed-plan" /\ \E s \in Stages : contract.risk[s] = "high" -> "strict"
    [] OTHER -> "conditional"

TargetKind(l, scope) ==
  CASE scope.kind = "managed-plan" -> "plan-bundle"
    [] scope.kind = "final-integration" /\ "final" \in l.commits -> "commit-range"
    [] OTHER -> "git-diff"

\* The stage's evidence.
Claims(l, s) == {v \in Validations : l.valid[s][v] # None}

\* What the brief must claim: the evidence of the stage, in the end that of all.
ScopeClaims(l, scope) ==
  CASE scope.kind = "managed-plan" -> {}
    [] scope.kind = "stage-delta" -> Claims(l, scope.stage)
    [] scope.kind = "final-integration" -> UNION {Claims(l, s) : s \in Stages}

\* Mutant: a commit range that was reviewed is good whatever HEAD is now.
ManagedTargetAnyHead(l, r, scope) ==
  /\ r.target.scope = scope /\ r.target.kind = TargetKind(l, scope)
  /\ IF scope.kind = "stage-delta" THEN uncommitted \subseteq StagePaths(contract, scope.stage)
     ELSE l.based /\ uncommitted \subseteq FinalPaths(contract)

\* The target is of the approved paths and of HEAD, no change lies outside, and the
\* final one goes back to where the stages of this revision began.
ManagedTarget(l, r, scope) ==
  /\ r.target.scope = scope /\ r.target.kind = TargetKind(l, scope)
  /\ IF scope.kind = "stage-delta" THEN uncommitted \subseteq StagePaths(contract, scope.stage)
     ELSE l.based /\ uncommitted \subseteq FinalPaths(contract)
  /\ r.target.kind = "commit-range" => r.target.content = head /\ uncommitted = {}

\* The context claims the evidence in force, and that of a stage is of this target.
ManagedContext(l, r, scope) ==
  /\ ScopeClaims(l, scope) \subseteq r.context.claims
  /\ scope.kind = "stage-delta" =>
       \A v \in Claims(l, scope.stage) : l.valid[scope.stage][v] = r.target

ReviewGate(l, r, scope) ==
  /\ r # None
  /\ ManagedTarget(l, r, scope)
  /\ ReceiptValid(r, ExpectedPolicy(scope))
  /\ ManagedContext(l, r, scope)

\* The planner's approval checker: a valid contract and a passed review of this plan.
PlannerApproves ==
  /\ ContractValid(contract) /\ planReview # None
  /\ planReview.verdict = "passed" /\ planReview.target.scope = PlanScope
  /\ ReceiptValid(planReview, ExpectedPolicy(PlanScope))

-------------------------------------------------------------------------------
(* The ledger and its commands *)

Approved == attested # None /\ attested.plan = plan
Slots == {"waited", "stray"}

EmptyLedger(rev) ==
  [rev |-> rev, empty |-> TRUE, life |-> "approved", current |-> None, completed |-> {},
   carried |-> {}, reapproval |-> FALSE, attempts |-> [s \in Stages |-> 0],
   valid |-> [s \in Stages |-> [v \in Validations |-> None]],
   reviews |-> [s \in Stages |-> None], final |-> None, commits |-> {}, based |-> FALSE]

Readable ==
  Approved /\ ledger # None /\ (ledger.empty \/ ledger.rev = plan.rev)

Replay == IF ledger.empty THEN EmptyLedger(plan.rev) ELSE ledger
Clean == snapshot = "current" \/ (ledger.empty /\ snapshot = "none")

\* A bound: a command that runs on is over before a second one after it begins.
Outlived == command["stray"] # None /\ command["stray"].late

\* The coordinator waits for its command, and for the review it has asked for.
Idle == command["waited"] = None /\ review = None /\ ~Outlived
Running(l) == l.life = "in_progress"
AllDone(l) == l.current = None /\ l.completed = Stages
FinalCommit == \E s \in Stages : contract.commit[s] = "final"

\* Mutant: a final commit is missed where none is expected.
CommitGapsWithFinal(l) ==
  ({s \in Stages : contract.commit[s] = "stage"} \cup {"final"}) \ l.commits

CommitGaps(l) ==
  ({s \in Stages : contract.commit[s] = "stage"}
     \cup (IF FinalCommit THEN {"final"} ELSE {})) \ l.commits

Command(step, new, proves) ==
  [step |-> step, new |-> new, proves |-> proves, late |-> FALSE]

Issue(c) == command' = [command EXCEPT !["waited"] = c]

\* append-event: attestation, replay and snapshot are checked, then the candidate is
\* replayed; an event that changes nothing is left out of the model.
Event(new, proves) ==
  /\ Idle /\ Readable /\ Clean /\ Replay.life \notin Terminal /\ new # Replay
  /\ Issue(Command("append", [new EXCEPT !.empty = FALSE], proves))
  /\ UNCHANGED <<workVars, taskVars, runtimeVars, dispatchVars>>

\* Another command that has read the ledger before this write is late from here on.
Proceed(k, next) ==
  command' = [j \in Slots |-> IF j = k THEN next
                              ELSE IF command[j] = None THEN None
                              ELSE [command[j] EXCEPT !.late = TRUE]]

Archived(r) == r \in DOMAIN archive /\ archive[r].dir = "done"

\* The runtime files change under an archive that was made of them.
ArchiveDrifts ==
  archive' = [r \in DOMAIN archive |->
                IF Archived(r) /\ ledger.rev <= r THEN [archive[r] EXCEPT !.same = FALSE]
                ELSE archive[r]]

\* A late command appends an event number that exists: no command reads that again.
Append(k) ==
  LET c == command[k]
  IN /\ c # None /\ c.step = "append"
     /\ IF c.late
        THEN ledger' = None /\ command' = [j \in Slots |-> None] /\ UNCHANGED proved
        ELSE /\ ledger' = c.new /\ proved' = proved \cup c.proves
             /\ Proceed(k, [c EXCEPT !.step = "save"])
     /\ ArchiveDrifts
     /\ UNCHANGED <<workVars, plan, planReview, attested, pointer, accepted, snapshot,
                    dispatchVars, faults>>

Save(k) ==
  LET c == command[k]
  IN /\ c # None /\ c.step = "save"
     /\ snapshot' = CASE ~c.late -> "current"
                      [] c.late /\ ledger.empty -> "foreign"
                      [] OTHER -> "behind"
     /\ command' = [command EXCEPT ![k] = None]
     /\ IF snapshot = "current" /\ ~c.late THEN UNCHANGED archive ELSE ArchiveDrifts
     /\ UNCHANGED <<workVars, plan, planReview, attested, pointer, accepted, ledger, proved,
                    dispatchVars, faults>>

\* Mutant: any snapshot of another event number is taken for one that is ahead.
AheadOrBehind == snapshot \in {"foreign", "behind"}

\* A snapshot ahead of the ledger is nobody's to repair.
Ahead == snapshot = "foreign" /\ ledger.empty

Reconcile ==
  /\ Idle /\ Readable /\ ~ledger.empty /\ snapshot # "current" /\ ~Ahead
  /\ Issue(Command("save", ledger, {}))
  /\ UNCHANGED <<workVars, taskVars, runtimeVars, dispatchVars, faults>>

\* The agent gives up a command that runs on, or the command is killed.
TimeOut ==
  /\ command["waited"] # None /\ command["stray"] = None /\ Fault
  /\ command' = [k \in Slots |-> IF k = "stray" THEN command["waited"] ELSE None]
  /\ UNCHANGED <<workVars, taskVars, runtimeVars, dispatchVars>>

Kill ==
  /\ command["waited"] # None /\ Fault /\ Issue(None)
  /\ UNCHANGED <<workVars, taskVars, runtimeVars, dispatchVars>>

-------------------------------------------------------------------------------
(* The events of a stage *)

ExecutionStarted ==
  /\ Idle /\ Readable /\ Replay.life = "approved"
  /\ Event([Replay EXCEPT !.life = "in_progress"], {})
  /\ UNCHANGED faults

\* A further attempt begins without the evidence of the last.
Unproved(l, s) ==
  [l EXCEPT !.valid[s] = [v \in Validations |-> None], !.reviews[s] = None]

StageStarted(s) ==
  LET l == Replay
  IN /\ Readable /\ Running(l) /\ l.current = None /\ s \notin l.completed
     /\ contract.dependsOn[s] \subseteq l.completed /\ l.attempts[s] < MaxAttempts
     /\ Event([Unproved(l, s) EXCEPT !.attempts[s] = @ + 1, !.current = s], {})
     /\ UNCHANGED faults

AttemptFailed(s) ==
  LET l == Replay
  IN /\ Readable /\ l.current = s /\ l.attempts[s] < MaxAttempts
     /\ Event([Unproved(l, s) EXCEPT !.current = None], {}) /\ Fault

StageTarget(l, s) == TargetOf(StageScope(s, l.attempts[s]), "git-diff")

\* A validation is recorded for the content it ran on; a failed one is evidence against.
RecordValidation(s, v, passed) ==
  LET l == Replay
  IN /\ Readable /\ l.current = s /\ v \in contract.validations[s]
     /\ Event([l EXCEPT !.valid[s][v] = IF passed THEN StageTarget(l, s) ELSE None,
                        !.reviews[s] = IF passed THEN @ ELSE None], {})
     /\ Judged(IF passed THEN "passed" ELSE "changes_required")

RecordStageReview(s) ==
  LET l == Replay
      scope == StageScope(s, l.attempts[s])
      passed == receipt.verdict = "passed"
  IN /\ Readable /\ l.current = s /\ ReviewGate(l, receipt, scope)
     /\ Event([l EXCEPT !.reviews[s] = IF passed THEN receipt ELSE None,
                        !.based = @ \/ passed], {})
     /\ UNCHANGED faults

StageCompleted(s) ==
  LET l == Replay
      scope == StageScope(s, l.attempts[s])
  IN /\ Readable /\ l.current = s
     /\ contract.validations[s] \cap contract.required \subseteq Claims(l, s)
     /\ l.reviews[s] # None
     /\ \A v \in Claims(l, s) : l.valid[s][v] = l.reviews[s].target
     /\ ReviewGate(l, l.reviews[s], scope)
     /\ Event([l EXCEPT !.current = None, !.completed = @ \cup {s}], {Semantics(contract, s)})
     /\ UNCHANGED faults

-------------------------------------------------------------------------------
(* The events of the task *)

Blocked ==
  /\ Readable /\ Replay.life \in {"approved", "in_progress"} /\ Fault
  /\ Event([Replay EXCEPT !.life = "blocked"], {})

Resumed ==
  /\ Readable /\ Replay.life = "blocked" /\ ~Replay.reapproval
  /\ Event([Replay EXCEPT !.life = "in_progress"], {})
  /\ UNCHANGED faults

\* amendment_requested and research_drift.
AmendmentRequested ==
  /\ Readable /\ Replay.life \in {"approved", "in_progress", "blocked"}
  /\ plan.rev < MaxRevision
  /\ Event([Replay EXCEPT !.life = "blocked", !.reapproval = TRUE], {})
  /\ UNCHANGED faults

\* The agent records a commit once, when it has left nothing uncommitted.
CommitRecorded(s) ==
  LET l == Replay
  IN /\ Readable /\ attested.commit /\ Running(l) /\ uncommitted = {}
     /\ contract.commit[s] = "stage" /\ s \in l.completed
     /\ Event([l EXCEPT !.commits = @ \cup {s}], {})
     /\ UNCHANGED faults

FinalCommitRecorded ==
  LET l == Replay
  IN /\ Readable /\ attested.commit /\ Running(l) /\ uncommitted = {}
     /\ FinalCommit /\ AllDone(l) /\ l.final # None /\ "final" \notin l.commits
     /\ Event([l EXCEPT !.commits = @ \cup {"final"}, !.final = None], {})
     /\ UNCHANGED faults

RecordFinalReview ==
  LET l == Replay
  IN /\ Readable /\ Running(l) /\ AllDone(l) /\ ReviewGate(l, receipt, FinalScope)
     /\ Event([l EXCEPT !.final = IF receipt.verdict = "passed" THEN receipt ELSE None], {})
     /\ UNCHANGED faults

Completed ==
  LET l == Replay
  IN /\ Readable /\ Running(l) /\ AllDone(l) /\ l.final # None
     /\ attested.commit => CommitGaps(l) = {}
     /\ ReviewGate(l, l.final, FinalScope)
     /\ Event([l EXCEPT !.life = "completed"], {})
     /\ UNCHANGED faults

Aborted ==
  /\ Readable /\ Fault
  /\ Event([Replay EXCEPT !.life = "aborted"], {})

FinalCheck ==
  /\ Readable /\ Idle /\ snapshot = "current" /\ ledger.life = "completed" /\ ~accepted
  /\ {s \in Stages : ledger.reviews[s] # None} \cup ledger.carried = Stages
  /\ ledger.final # None /\ ReviewGate(ledger, ledger.final, FinalScope)
  /\ IF attested.commit THEN CommitGaps(ledger) = {} ELSE ledger.commits = {}
  /\ pointer # "this"
  /\ accepted' = TRUE
  /\ UNCHANGED <<workVars, plan, planReview, attested, archive, pointer, runtimeVars, command,
                 dispatchVars, faults>>

-------------------------------------------------------------------------------
(* Plan, approval and amendment *)

\* The planner rewrites a plan that its checker or its reviewer refuses.
Replan(c) ==
  /\ c \in Contracts[plan.rev] /\ Idle /\ ~Approved
  /\ ~ContractValid(contract) \/ (planReview # None /\ planReview.verdict # "passed")
  /\ plan' = [plan EXCEPT !.contract = c] /\ planReview' = None
  /\ UNCHANGED <<workVars, attested, archive, pointer, accepted, runtimeVars, command,
                 dispatchVars, faults>>

RecordPlanReview ==
  /\ ~Approved /\ planReview = None /\ receipt # None /\ receipt.target.scope = PlanScope
  /\ ReceiptValid(receipt, ExpectedPolicy(PlanScope))
  /\ planReview' = receipt /\ receipt' = None
  /\ UNCHANGED <<workVars, plan, attested, archive, pointer, accepted, runtimeVars, command,
                 review, dispatch, agent, answer, faults>>

\* One attestation per revision; the first before any run, the next on an archive.
Attest(commit) ==
  /\ Idle /\ ~Approved /\ PlannerApproves
  /\ IF plan.rev = 1 THEN attested = None /\ ledger.empty /\ snapshot = "none"
     ELSE attested.plan.rev = plan.rev - 1 /\ Archived(plan.rev - 1)
  /\ attested' = [plan |-> plan, commit |-> commit]
  /\ UNCHANGED <<workVars, plan, planReview, archive, pointer, accepted, runtimeVars, command,
                 dispatchVars, faults>>

Amending == ledger.empty \/ Replay.reapproval

ArchiveStart ==
  /\ Idle /\ Readable /\ plan.rev < MaxRevision /\ Amending /\ archive[plan.rev].dir = "none"
  /\ archive' = [archive EXCEPT ![plan.rev].dir = "partial"]
  /\ Issue(Command("archive", ledger, {}))
  /\ UNCHANGED <<workVars, plan, planReview, attested, pointer, accepted, runtimeVars,
                 dispatchVars, faults>>

\* What the files archived say is completed: the ledger replayed on the contract, which
\* refuses the events of another revision.
Replayable == IF ledger.rev = attested.plan.rev THEN ledger.completed ELSE {}

\* The files are copied, then the manifest is written.
ArchiveDone(k) ==
  /\ command[k] # None /\ command[k].step = "archive"
  /\ archive' = [archive EXCEPT ![attested.plan.rev] =
       [dir |-> "done", completed |-> Replayable,
        contract |-> Terms[attested.plan.contract], same |-> TRUE]]
  /\ command' = [command EXCEPT ![k] = None]
  /\ UNCHANGED <<workVars, plan, planReview, attested, pointer, accepted, runtimeVars,
                 dispatchVars, faults>>

Revise(c) ==
  /\ Idle /\ Readable /\ Archived(plan.rev) /\ c \in Contracts[plan.rev + 1] /\ Amending
  /\ plan' = [rev |-> plan.rev + 1, contract |-> c] /\ planReview' = None
  /\ UNCHANGED <<workVars, attested, archive, pointer, accepted, runtimeVars, command,
                 dispatchVars, faults>>

\* Mutant: the runtime files are reset though they are not what was archived.
ResetAnyway(old) == ledger.empty \/ ledger.rev = plan.rev - 1

\* The runtime files that exist are those of the archive.
Resettable(old) == old.same /\ (ledger.empty \/ ledger.rev = plan.rev - 1)

\* Mutant: a completed stage is carried whatever has become of its terms.
CarriableByName(old) == old.completed

\* Completed in the archive, on terms this revision leaves as they were.
Carriable(old) ==
  {s \in old.completed : Semantics(old.contract, s) = Semantics(contract, s)}

DependencyClosed(carry) == \A s \in carry : contract.dependsOn[s] \subseteq carry

Amended(carry) ==
  [EmptyLedger(plan.rev) EXCEPT !.empty = FALSE, !.life = "in_progress",
                                !.completed = carry, !.carried = carry]

\* activate-amendment: the checks with the removal of the ledger; asking for a stage
\* without what it depends on is a mistake.
Activate(carry) ==
  /\ Idle /\ Approved /\ plan.rev > 1 /\ Archived(plan.rev - 1) /\ PlannerApproves
  /\ LET old == archive[plan.rev - 1]
     IN carry \subseteq Carriable(old) /\ Resettable(old)
  /\ IF DependencyClosed(carry) THEN UNCHANGED faults ELSE Fault
  /\ ledger' = EmptyLedger(0)
  /\ snapshot' = IF snapshot = "none" THEN "none" ELSE "foreign"
  /\ Proceed("waited", Command("unlink", Amended(carry), {}))
  /\ UNCHANGED <<workVars, taskVars, proved, dispatchVars>>

\* The removal of the snapshot.
Unlink(k) ==
  /\ command[k] # None /\ command[k].step = "unlink"
  /\ snapshot' = "none" /\ command' = [command EXCEPT ![k].step = "amend"]
  /\ UNCHANGED <<workVars, taskVars, ledger, proved, dispatchVars, faults>>

\* amendment_approved, the first event of the new ledger, for the revision the command
\* was called with.
AmendmentApproved(k) ==
  LET c == command[k]
      carry == c.new.carried
  IN /\ c # None /\ c.step = "amend"
     /\ command' = [command EXCEPT ![k] =
          IF /\ Readable /\ ledger.empty /\ snapshot = "none"
             /\ c.new.rev = plan.rev /\ DependencyClosed(carry)
          THEN Command("append", c.new, {}) ELSE None]
     /\ UNCHANGED <<workVars, taskVars, runtimeVars, dispatchVars, faults>>

-------------------------------------------------------------------------------
(* The work, its reviews and the active task *)

WorkPaths ==
  CASE Replay.current # None -> StagePaths(contract, Replay.current)
    [] AllDone(Replay) -> FinalPaths(contract)
    [] OTHER -> {}

\* A path is edited, or put back to what it was, also under a review at hand.
Change(p, version) ==
  /\ command["waited"] = None /\ Readable /\ Running(Replay) /\ p \in WorkPaths
  /\ WriteTree([tree EXCEPT ![p] = version])
  /\ UNCHANGED <<head, taskVars, runtimeVars, command, dispatch, agent, answer, receipt>>

Edit(p) ==
  /\ tree[p] < MaxVersion /\ Cardinality({q \in Paths : tree[q] # 0} \cup {p}) <= MaxEdited
  /\ Change(p, tree[p] + 1) /\ UNCHANGED faults

Undo(p) == (\E version \in 0..(tree[p] - 1) : Change(p, version)) /\ Fault

CommitDue(l) ==
  \/ \E s \in l.completed : contract.commit[s] = "stage" /\ s \notin l.commits
  \/ AllDone(l) /\ FinalCommit /\ (l.final # None \/ "final" \in l.commits)

GitCommit ==
  /\ Idle /\ Readable /\ attested.commit /\ Running(Replay)
  /\ uncommitted # {} /\ CommitDue(Replay)
  /\ head' = tree
  /\ UNCHANGED <<tree, taskVars, runtimeVars, command, dispatchVars, faults>>

\* What a review would replace: one that passed and that the gate still takes.
Stands(r, scope) == r # None /\ r.verdict = "passed" /\ ReviewGate(Replay, r, scope)

\* The coordinator begins a review that is wanted and that nothing stands in for.
Wanted(scope) ==
  CASE scope = PlanScope ->
         ~Approved /\ planReview = None /\ ContractValid(contract)
         /\ ~(receipt # None /\ receipt.target.scope = PlanScope
              /\ ReceiptValid(receipt, ExpectedPolicy(PlanScope)))
    [] scope = FinalScope ->
         /\ Readable /\ Running(Replay) /\ AllDone(Replay) /\ Replay.based
         /\ "final" \in Replay.commits => uncommitted = {}
         /\ ~Stands(Replay.final, FinalScope) /\ ~Stands(receipt, FinalScope)
    [] OTHER ->
         LET s == scope.stage
         IN /\ Readable /\ Replay.current = s
            /\ contract.validations[s] \cap contract.required \subseteq Claims(Replay, s)
            /\ \A v \in Claims(Replay, s) : Replay.valid[s][v] = StageTarget(Replay, s)
            /\ uncommitted \subseteq StagePaths(contract, s)
            /\ ~Stands(Replay.reviews[s], scope) /\ ~Stands(receipt, scope)

Scopes ==
  {PlanScope, FinalScope} \cup
  (IF Readable /\ Replay.current # None
   THEN {StageScope(Replay.current, Replay.attempts[Replay.current])} ELSE {})

\* Without being told to, a coordinator does not review its own work.
Review(scope, policy) ==
  /\ Idle /\ Wanted(scope)
  /\ IF policy = ExpectedPolicy(scope) THEN UNCHANGED faults ELSE Fault
  /\ StartReview(scope,
       IF scope = PlanScope THEN "plan-bundle" ELSE TargetKind(Replay, scope),
       ScopeClaims(Replay, scope), policy)
  /\ UNCHANGED <<planReview, attested, archive, pointer, accepted, runtimeVars, command>>

\* Another task takes the pointer of a task that its snapshot says is over; an explicit
\* switch, which asks for nothing, is left out.
OtherTask ==
  /\ pointer = "this" /\ ledger # None /\ snapshot = "current" /\ ledger.life \in Terminal
  /\ pointer' = "other"
  /\ UNCHANGED <<workVars, plan, planReview, attested, archive, accepted, runtimeVars, command,
                 dispatchVars, faults>>

ClosePointer ==
  /\ Readable /\ Replay.life = "completed" /\ pointer = "this" /\ pointer' = "none"
  /\ UNCHANGED <<workVars, plan, planReview, attested, archive, accepted, runtimeVars, command,
                 dispatchVars, faults>>

-------------------------------------------------------------------------------
(* Specification *)

Init ==
  /\ tree = [p \in Paths |-> 0] /\ head = tree
  /\ plan \in [rev : {1}, contract : Contracts[1]] /\ planReview = None
  /\ attested = None /\ ledger = EmptyLedger(0) /\ snapshot = "none"
  /\ archive = [r \in 1..(MaxRevision - 1) |->
                  [dir |-> "none", completed |-> {}, contract |-> None, same |-> FALSE]]
  /\ command = [k \in Slots |-> None] /\ pointer = "this"
  /\ proved = {} /\ accepted = FALSE
  /\ ReviewInit

Reviewing(A) ==
  /\ A
  /\ UNCHANGED <<planReview, attested, archive, pointer, accepted, runtimeVars, command>>

Steps(k) == Append(k) \/ Save(k) \/ ArchiveDone(k) \/ Unlink(k) \/ AmendmentApproved(k)

StageProgress(s) ==
  \/ StageStarted(s) \/ RecordStageReview(s) \/ StageCompleted(s) \/ CommitRecorded(s)
  \/ \E v \in Validations : RecordValidation(s, v, TRUE)

\* What an agent that wants the task finished does.
Progress ==
  \/ Reviewing(ReviewProgress)
  \/ \E scope \in Scopes : Review(scope, ExpectedPolicy(scope))
  \/ \E c \in DOMAIN Terms : ContractValid(Terms[c]) /\ Replan(c)
  \/ RecordPlanReview \/ \E commit \in Authorizations : Attest(commit)
  \/ (\E k \in Slots : Steps(k)) \/ Reconcile
  \/ ExecutionStarted \/ Resumed \/ \E s \in Stages : StageProgress(s)
  \/ FinalCommitRecorded \/ RecordFinalReview \/ Completed
  \/ GitCommit \/ ClosePointer \/ FinalCheck
  \/ /\ ledger # None /\ Replay.reapproval
     /\ ArchiveStart \/ \E c \in DOMAIN Terms : ContractValid(Terms[c]) /\ Revise(c)
  \/ \E carry \in SUBSET Stages : DependencyClosed(carry) /\ Activate(carry)

Next ==
  \/ Reviewing(ReviewNext)
  \/ \E scope \in Scopes, policy \in Policies : Review(scope, policy)
  \/ \E c \in DOMAIN Terms : Replan(c) \/ Revise(c)
  \/ RecordPlanReview \/ \E commit \in Authorizations : Attest(commit)
  \/ \E k \in Slots : Steps(k)
  \/ Reconcile \/ TimeOut \/ Kill
  \/ ExecutionStarted \/ Blocked \/ Resumed \/ AmendmentRequested \/ Aborted
  \/ FinalCommitRecorded \/ RecordFinalReview \/ Completed \/ FinalCheck
  \/ \E s \in Stages : StageProgress(s) \/ AttemptFailed(s)
                       \/ \E v \in Validations : RecordValidation(s, v, FALSE)
  \/ ArchiveStart \/ \E carry \in SUBSET Stages : Activate(carry)
  \/ \E p \in Paths : Edit(p) \/ Undo(p)
  \/ GitCommit \/ OtherTask \/ ClosePointer

Spec == Init /\ [][Next]_vars
FairSpec == Spec /\ WF_vars(Progress)

-------------------------------------------------------------------------------
(* Properties *)

\* Every variable has values of its type; a command that runs on was waited for.
TypeOK ==
  /\ tree \in [Paths -> 0..MaxVersion] /\ head \in [Paths -> 0..MaxVersion]
  /\ plan \in Plans
  /\ dispatch \in [Attempts -> DispatchOf(Context) \cup {None}]
  /\ agent \in [Attempts -> AgentStates]
  /\ ledger # None => /\ ledger.rev \in 0..plan.rev /\ ledger.completed \subseteq Stages
                      /\ ledger.current \in (Stages \ ledger.completed) \cup {None}
                      /\ ledger.carried \subseteq ledger.completed
  /\ snapshot \in {"none", "current", "behind", "foreign"}
  /\ \A r \in DOMAIN archive : archive[r].dir \in {"none", "partial", "done"}
  /\ \A k \in Slots : command[k] # None =>
       command[k].step \in {"append", "save", "archive", "unlink", "amend"}
  /\ pointer \in {"this", "other", "none"} /\ accepted \in BOOLEAN
  /\ faults \in 0..MaxFaults

\* A receipt that counts tells of what it names: whatever was edited in the meantime,
\* its reviewer read exactly the frozen target, unless an edit was taken back before
\* anyone compared digests; and one that claims to be independent was not written by
\* the coordinator (validate_receipt, verify_target_freshness).
ReceiptTrue ==
  /\ TypeOK
  /\ receipt # None /\ receipt.ready =>
       /\ SawTarget(receipt)
       /\ receipt.independent = (receipt.by = "agent")

\* Two agents never work at one review: the second begins when the first was closed, and
\* no more than the context is widened between them (_validate_retry_predecessor).
OneReviewer ==
  /\ \A a \in Attempts : dispatch[a] # None => dispatch[a].context.claims = review.context.claims
  /\ agent[2] # "none" => agent[1] = "closed"

\* The evidence of a completed stage is one body: its passed review and its required
\* validations are of one content, which the reviewer saw but for edits taken back under
\* it, and the reviewer of a high-risk stage was an agent
\* (apply_event on stage_completed, validate_review_gate).
EvidenceStands ==
  Readable => \A s \in ledger.completed \ ledger.carried :
    LET r == ledger.reviews[s]
    IN /\ r # None /\ r.verdict = "passed" /\ SawTarget(r)
       /\ contract.risk[s] = "high" => r.by = "agent"
       /\ \A v \in contract.validations[s] \cap contract.required :
            ledger.valid[s][v] = r.target

\* Over any number of amendments a completed stage was completed on evidence, on the very
\* terms the contract in force has for it (validate_carried_stage_semantics).
CompletedProved ==
  Readable => \A s \in ledger.completed : Semantics(contract, s) \in proved

\* A ledger is only removed when all it says of the stages is in the archive of its
\* revision, whatever a command that ran on appended after that (activate_amendment).
NothingLost ==
  [][ledger # None /\ ledger' # None /\ ledger.rev # 0 /\ ledger'.rev = 0
     => archive[ledger.rev].completed = ledger.completed /\ ledger.reapproval]_vars

\* What the final checker accepts has every stage proved on its terms, a required
\* validation for every criterion, and an independent review whose target is exactly what
\* is there now, read as it was frozen but for edits taken back meanwhile (check_final).
AcceptedWork ==
  [][accepted' /\ ~accepted =>
       LET r == ledger.final
       IN /\ \A s \in Stages : Semantics(contract, s) \in proved
          /\ \A x \in Criteria : \E s \in Stages :
               \E v \in contract.validations[s] \cap contract.required : x \in contract.covers[v]
          /\ r.by = "agent" /\ r.target.content = Content(r.target.kind) /\ SawTarget(r)
          /\ r.target.kind = "commit-range" => uncommitted = {}
          /\ attested.plan = plan]_vars

\* A snapshot that lags behind, a command having died or run on, is repaired from the
\* ledger unless that is unreadable or its revision ends (reconcile_snapshot).
DriftRepaired == (Readable /\ ~ledger.empty /\ snapshot = "behind") ~>
                   (snapshot # "behind" \/ ~Readable)

\* Where the code leaves a task without a way on: two commands wrote one event number;
\* an archive was begun and never finished; the files are not those of the archive, or
\* remain of a command that ran on; every stage is carried, which leaves the final
\* review without a baseline; changes of another stage lie uncommitted; the task was
\* completed by a command that ran on while the work was edited.
Stuck ==
  \/ ledger = None
  \/ /\ Readable /\ Replay.life = "completed"
     /\ ~ReviewGate(Replay, Replay.final, FinalScope)
  \/ \E r \in DOMAIN archive :
       \/ archive[r].dir = "partial"
       \/ /\ Archived(r) /\ ~archive[r].same
          /\ ledger.rev = r \/ (ledger.empty /\ snapshot # "none")
  \/ ledger # None /\ ledger.carried = Stages
  \/ /\ Readable /\ Replay.current # None
     /\ ~(uncommitted \subseteq StagePaths(contract, Replay.current))

\* Every task comes to its end, accepted or aborted, or to one of the dead ends above.
TaskEnds == <>[](accepted \/ (ledger # None /\ ledger.life = "aborted") \/ Stuck)
================================================================================
