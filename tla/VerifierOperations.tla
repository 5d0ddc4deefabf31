-------------------------- MODULE VerifierOperations --------------------------
(* electron-ui-verifier: mutation operations and the journals of their runs.  *)
(*                                                                            *)
(* One event loop owns the pages: a consumer dispatches the commands of the   *)
(* HTTP threads one by one, and each accepted operation is a task that waits  *)
(* for the operation lock, performs its steps and may finalize its run.       *)
(* Between two awaits the loop runs undisturbed, but a crash may fall between *)
(* two writes of one stretch, so that every write is an action of its own;    *)
(* Idle says that no stretch is in the middle.  Operation ids are the         *)
(* positions in operations.  A task keeps the journal it loaded (copy) across *)
(* its awaits and saves it back whole.                                        *)
EXTENDS Naturals, FiniteSets, Sequences

CONSTANTS Requests,      \* client request ids
          Runs,          \* prepared runs
          Payload,       \* what each request asks: its run and steps, whether they are a
                         \* workflow of the knowledge base, and autoFinalize
          HistoryLimit,  \* operation_history_limit
          MaxCrashes,    \* bound: kills of the service
          None

\* continueOnFailure makes a step of any kind optional for the report; only a diagnostic
\* may then fail and the workflow go on.
Action == [kind : {"mutation", "read", "diagnostic"}, optional : BOOLEAN]

ASSUME PayloadAssumption ==
  Payload \in [Requests -> [run : Runs, steps : Seq(Action), asset : BOOLEAN, finalize : BOOLEAN]]
ASSUME BoundsAssumption == HistoryLimit \in Nat /\ MaxCrashes \in Nat

VARIABLES
  \* on disk
  operations,  \* the operation files, in the order of their creation
  requests,    \* request index: the operation of a request, 0 if none
  journal,     \* journal of a run, None before prepare
  report,      \* report.json of a run, None if absent
  pending,     \* has the run a pending bundle?
  \* in the service
  service,     \* "down", "recovering", "up" or "stopping"
  tasks,       \* the task of an operation with its context
  submitting,  \* operation whose index is being written, 0 if none
  cancelling,  \* operation whose cancellation the consumer awaits, 0 if none
  finalizing,  \* finalization in the middle
  \* observed
  begun,       \* how often each step of a request was begun
  uncertain,   \* operations with a mutation whose outcome nobody knows
  crashes

disk == <<operations, requests, journal, report, pending>>
loop == <<tasks, submitting, cancelling, finalizing>>
vars == <<disk, service, loop, begun, uncertain, crashes>>

Ids == 1 .. HistoryLimit
OpenStates == {"queued", "running"}
FinalStates == {"succeeded", "failed", "cancelled", "deadline_exceeded", "unknown"}
Finished == {"passed", "failed", "aborted"}
\* Mutant: a failed run can be continued.
FailedToo == {"prepared", "running", "failed"}
Appendable == {"prepared", "running"}

Steps(o) == Payload[operations[o].request].steps
RunOf(o) == Payload[operations[o].request].run
Open(o) == o <= Len(operations) /\ operations[o].state \in OpenStates
Live(o) == tasks[o] # None

Operation == [request : Requests, state : OpenStates \cup FinalStates, cancelRequested : BOOLEAN]
Step == [action : Action, status : {"running", "passed", "failed", "unknown"}]
Journal == [state : Appendable \cup Finished \cup {"finalizing"}, steps : Seq(Step)]
Task == [pc : {"queued", "status", "act", "next", "finalize", "end"}, step : Nat,
         copy : Journal \cup {None},
         cancel : BOOLEAN, expired : BOOLEAN,    \* asked to stop; past its deadline
         unknown : BOOLEAN,                      \* outcome_unknown of the context
         ok : BOOLEAN,                           \* every step so far passed
         result : FinalStates \cup {None}]
Report == [passed : BOOLEAN, steps : Seq(Step)]
Finalization == [run : Runs, by : Ids \cup {0}, at : {"report", "pending", "close"}]

ASSUME NoneAssumption ==
  None \notin Requests \cup Journal \cup Task \cup FinalStates \cup Report \cup Finalization

TypeOK ==
  /\ operations \in Seq(Operation) /\ Len(operations) <= HistoryLimit
  /\ requests \in [Requests -> Ids \cup {0}]
  /\ journal \in [Runs -> Journal \cup {None}]
  /\ report \in [Runs -> Report \cup {None}]
  /\ pending \in [Runs -> BOOLEAN]
  /\ service \in {"down", "recovering", "up", "stopping"}
  /\ tasks \in [Ids -> Task \cup {None}]
  /\ submitting \in Ids \cup {0} /\ cancelling \in Ids \cup {0}
  /\ finalizing \in Finalization \cup {None}
  /\ \A q \in Requests : begun[q] \in [DOMAIN Payload[q].steps -> Nat]
  /\ uncertain \subseteq Ids /\ crashes \in 0 .. MaxCrashes

Init ==
  /\ operations = <<>> /\ requests = [q \in Requests |-> 0]
  /\ journal = [r \in Runs |-> None] /\ report = [r \in Runs |-> None]
  /\ pending = [r \in Runs |-> FALSE]
  /\ service = "down" /\ tasks = [o \in Ids |-> None]
  /\ submitting = 0 /\ cancelling = 0 /\ finalizing = None
  /\ begun = [q \in Requests |-> [n \in DOMAIN Payload[q].steps |-> 0]]
  /\ uncertain = {} /\ crashes = 0

Idle ==
  /\ service \in {"up", "stopping"} /\ submitting = 0 /\ finalizing = None
  /\ \A o \in Ids : Live(o) => tasks[o].pc \in {"queued", "status", "act"}

\* the consumer takes the next command
Serving == Idle /\ service = "up" /\ cancelling = 0

------------------------------------------------------------------------------
(* Starting, stopping, crashing                                               *)

Unfinished(j) == j # None /\ j.state \in Appendable \cup {"finalizing"}
InFlight(j) == \E n \in DOMAIN j.steps : j.steps[n].status = "running"
Unknown(steps) == [n \in DOMAIN steps |->
                     IF steps[n].status = "running" THEN [steps[n] EXCEPT !.status = "unknown"]
                     ELSE steps[n]]

RecoverRuns ==
  /\ service = "down" /\ service' = "recovering"
  /\ journal' = [r \in Runs |-> IF Unfinished(journal[r]) /\ InFlight(journal[r])
                                THEN [state |-> "aborted", steps |-> Unknown(journal[r].steps)]
                                ELSE journal[r]]
  /\ UNCHANGED <<operations, requests, report, pending, loop, begun, uncertain, crashes>>

\* Mutant: a queued operation is left queued.
RunningOnly(op) ==
  IF op.state = "running" THEN [op EXCEPT !.state = "unknown"] ELSE op

Recovered(op) ==
  CASE op.state = "queued" -> [op EXCEPT !.state = "cancelled"]
    [] op.state = "running" -> [op EXCEPT !.state = "unknown"]
    [] OTHER -> op

RecoverOperations ==
  /\ service = "recovering" /\ service' = "up"
  /\ operations' = [o \in DOMAIN operations |-> Recovered(operations[o])]
  /\ UNCHANGED <<requests, journal, report, pending, loop, begun, uncertain, crashes>>

Shutdown ==
  /\ Serving /\ service' = "stopping"
  /\ operations' = [o \in DOMAIN operations |->
                      IF Live(o) /\ Open(o) THEN [operations[o] EXCEPT !.cancelRequested = TRUE]
                      ELSE operations[o]]
  /\ tasks' = [o \in Ids |-> IF Live(o) THEN [tasks[o] EXCEPT !.cancel = TRUE] ELSE None]
  /\ UNCHANGED <<requests, journal, report, pending, submitting, cancelling, finalizing,
                 begun, uncertain, crashes>>

\* the tasks are gathered, the store recovered and the open runs aborted
Stop ==
  /\ service = "stopping" /\ \A o \in Ids : ~Live(o)
  /\ service' = "down"
  /\ operations' = [o \in DOMAIN operations |-> Recovered(operations[o])]
  /\ journal' = [r \in Runs |-> IF journal[r] # None /\ journal[r].state \in Appendable
                                THEN [journal[r] EXCEPT !.state = "aborted"] ELSE journal[r]]
  /\ UNCHANGED <<requests, report, pending, loop, begun, uncertain, crashes>>

Mutating(o) == Live(o) /\ tasks[o].pc = "act" /\ Steps(o)[tasks[o].step].kind = "mutation"

Crash ==
  /\ service # "down" /\ crashes < MaxCrashes
  /\ service' = "down" /\ crashes' = crashes + 1
  /\ tasks' = [o \in Ids |-> None] /\ submitting' = 0 /\ cancelling' = 0 /\ finalizing' = None
  /\ uncertain' = uncertain \cup {o \in Ids : Mutating(o)}
  /\ UNCHANGED <<disk, begun>>

------------------------------------------------------------------------------
(* Commands of the consumer                                                   *)

PrepareRun(r) ==
  /\ Serving /\ journal[r] = None
  /\ journal' = [journal EXCEPT ![r] = [state |-> "prepared", steps |-> <<>>]]
  /\ UNCHANGED <<operations, requests, report, pending, service, loop, begun, uncertain, crashes>>

\* A request that has an operation gets that operation back, and nothing changes.
\* Mutant: the request index is not asked.
Resubmits(q) == Len(operations) < HistoryLimit
Accepts(q) == requests[q] = 0 /\ Len(operations) < HistoryLimit

Submit(q) ==
  /\ Serving /\ Accepts(q)
  /\ operations' = Append(operations, [request |-> q, state |-> "queued", cancelRequested |-> FALSE])
  /\ submitting' = Len(operations) + 1
  /\ UNCHANGED <<requests, journal, report, pending, service, tasks, cancelling, finalizing,
                 begun, uncertain, crashes>>

WriteIndex ==
  /\ submitting # 0 /\ submitting' = 0
  /\ requests' = [requests EXCEPT ![operations[submitting].request] = submitting]
  /\ tasks' = [tasks EXCEPT ![submitting] =
                 [pc |-> "queued", step |-> 0, copy |-> None, cancel |-> FALSE, expired |-> FALSE,
                  unknown |-> FALSE, ok |-> TRUE, result |-> None]]
  /\ UNCHANGED <<operations, journal, report, pending, service, cancelling, finalizing,
                 begun, uncertain, crashes>>

Cancel(o) ==
  /\ Serving /\ Open(o) /\ Live(o)
  /\ operations' = [operations EXCEPT ![o].cancelRequested = TRUE]
  /\ tasks' = [tasks EXCEPT ![o].cancel = TRUE]
  /\ cancelling' = o
  /\ UNCHANGED <<requests, journal, report, pending, service, submitting, finalizing,
                 begun, uncertain, crashes>>

\* the task has ended, or the grace period has
CancelReturns ==
  /\ Idle /\ cancelling # 0 /\ cancelling' = 0
  /\ LET o == cancelling
         unknown == Mutating(o) \/ (Live(o) /\ tasks[o].unknown)
     IN operations' = IF Open(o)
                      THEN [operations EXCEPT ![o].state = IF unknown THEN "unknown" ELSE "cancelled"]
                      ELSE operations
  /\ UNCHANGED <<requests, journal, report, pending, service, tasks, submitting, finalizing,
                 begun, uncertain, crashes>>

------------------------------------------------------------------------------
(* The task of an operation                                                   *)

Stopped(o) == tasks[o].cancel \/ tasks[o].expired            \* checkpoint() raises
End(o, result) == [tasks[o] EXCEPT !.pc = "end", !.copy = None, !.result = result]

\* Step n of the operation, up to the session check, or what follows the last one.  A
\* workflow of the knowledge base is finalized past its deadline, too.
Continue(o, n) ==
  LET payload == Payload[operations[o].request]
      j == journal[payload.run]
  IN IF n <= Len(payload.steps) THEN
       IF ~Stopped(o) /\ j # None /\ j.state \in Appendable
       THEN [tasks[o] EXCEPT !.pc = "status", !.step = n, !.copy = j]
       ELSE End(o, "failed")
     ELSE IF payload.finalize
       THEN IF Stopped(o) /\ ~payload.asset THEN End(o, "failed")
            ELSE [tasks[o] EXCEPT !.pc = "finalize", !.copy = None]
     ELSE End(o, IF tasks[o].ok THEN "succeeded" ELSE "failed")

\* The lock goes to the oldest waiter.  A cancellation that finds the lock already
\* granted is lost in wait_for before Python 3.12: the checkpoint then raises.
TakeLock(o) ==
  /\ Idle /\ Live(o) /\ tasks[o].pc = "queued"
  /\ \A p \in Ids \ {o} : Live(p) => tasks[p].pc = "queued" /\ o < p
  /\ IF Stopped(o)
     THEN tasks' = [tasks EXCEPT ![o] = End(o, "failed")] /\ UNCHANGED operations
     ELSE /\ operations' = [operations EXCEPT ![o].state = "running"]
          /\ tasks' = [tasks EXCEPT ![o] = Continue(o, 1)]
  /\ UNCHANGED <<requests, journal, report, pending, service, submitting, cancelling, finalizing,
                 begun, uncertain, crashes>>

\* the session is stale, a binding or a risk receipt is missing, or the deadline has passed
RefuseStep(o) ==
  /\ Idle /\ Live(o) /\ tasks[o].pc = "status" /\ ~tasks[o].cancel
  /\ tasks' = [tasks EXCEPT ![o] = End(o, "failed")]
  /\ UNCHANGED <<disk, service, submitting, cancelling, finalizing, begun, uncertain, crashes>>

\* The intent is saved, then begin_mutation looks at the deadline once more (late).
BeginStep(o, late) ==
  /\ Idle /\ Live(o) /\ tasks[o].pc = "status" /\ ~Stopped(o)
  /\ LET t == tasks[o]
         action == Steps(o)[t.step]
         saved == [state |-> "running",
                   steps |-> Append(t.copy.steps, [action |-> action, status |-> "running"])]
     IN /\ late => action.kind = "mutation"
        /\ journal' = [journal EXCEPT ![RunOf(o)] = saved]
        /\ tasks' = [tasks EXCEPT ![o] = IF late THEN [End(o, "failed") EXCEPT !.expired = TRUE]
                                         ELSE [t EXCEPT !.pc = "act", !.copy = saved]]
        /\ begun' = IF late THEN begun ELSE [begun EXCEPT ![operations[o].request][t.step] = @ + 1]
  /\ UNCHANGED <<operations, requests, report, pending, service, submitting, cancelling, finalizing,
                 uncertain, crashes>>

\* The journal the task holds, with the verdict on its last step, is saved over the run's.
SaveVerdict(o, verdict, interrupted) ==
  LET j == tasks[o].copy
  IN journal' = [journal EXCEPT ![RunOf(o)] =
                   [state |-> IF interrupted \/ verdict = "unknown" THEN "aborted" ELSE j.state,
                    steps |-> [j.steps EXCEPT ![Len(j.steps)].status = verdict]]]

StepReturns(o, verdict) ==
  /\ Idle /\ Live(o) /\ tasks[o].pc = "act" /\ ~tasks[o].cancel
  /\ SaveVerdict(o, verdict, FALSE)
  /\ tasks' = [tasks EXCEPT ![o].pc = "next", ![o].ok = @ /\ verdict = "passed",
                            ![o].unknown = @ \/ verdict = "unknown"]
  /\ uncertain' = IF verdict = "unknown" /\ Mutating(o) THEN uncertain \cup {o} ELSE uncertain
  /\ UNCHANGED <<operations, requests, report, pending, service, submitting, cancelling, finalizing,
                 begun, crashes>>

\* A step that did not pass ends the workflow, unless it is an optional diagnostic of a
\* workflow that the client wrote.
MayContinue(o) ==
  LET action == Steps(o)[tasks[o].step]
  IN action.kind = "diagnostic" /\ action.optional /\ ~Payload[operations[o].request].asset

NextStep(o) ==
  /\ Live(o) /\ tasks[o].pc = "next"
  /\ LET j == tasks[o].copy
         n == tasks[o].step
         last == journal[RunOf(o)].steps[Len(j.steps)]
         goesOn == last.status = "passed" \/ MayContinue(o)
     IN tasks' = [tasks EXCEPT ![o] = Continue(o, IF goesOn THEN n + 1 ELSE Len(Steps(o)) + 1)]
  /\ UNCHANGED <<disk, service, submitting, cancelling, finalizing, begun, uncertain, crashes>>

DeadlinePasses(o) ==
  /\ Live(o) /\ ~tasks[o].expired
  /\ tasks' = [tasks EXCEPT ![o].expired = TRUE]
  /\ UNCHANGED <<disk, service, submitting, cancelling, finalizing, begun, uncertain, crashes>>

\* CancelledError at the await: the task was cancelled, or wait_for ran out of time.
Interrupt(o, result) ==
  /\ Idle /\ Live(o)
  /\ \/ result = "cancelled" /\ tasks[o].cancel
     \/ result = "deadline_exceeded" /\ tasks[o].expired
  /\ IF tasks[o].pc = "act"
     THEN /\ SaveVerdict(o, IF Mutating(o) THEN "unknown" ELSE "failed", TRUE)
          /\ tasks' = [tasks EXCEPT ![o] = [End(o, result) EXCEPT !.unknown = @ \/ Mutating(o)]]
          /\ uncertain' = IF Mutating(o) THEN uncertain \cup {o} ELSE uncertain
     ELSE /\ tasks' = [tasks EXCEPT ![o] = End(o, result)]
          /\ UNCHANGED <<journal, uncertain>>
  /\ UNCHANGED <<operations, requests, report, pending, service, submitting, cancelling, finalizing,
                 begun, crashes>>

\* transition(): a final state stays, and an unknown outcome overrides the result
\* Mutant: outcome_unknown is not asked.
ResultOnly(o) == tasks[o].result
Verdict(o) == IF tasks[o].unknown THEN "unknown" ELSE tasks[o].result

EndTask(o) ==
  /\ Live(o) /\ tasks[o].pc = "end"
  /\ operations' = IF Open(o) THEN [operations EXCEPT ![o].state = Verdict(o)] ELSE operations
  /\ tasks' = [tasks EXCEPT ![o] = None]
  /\ UNCHANGED <<requests, journal, report, pending, service, submitting, cancelling, finalizing,
                 begun, uncertain, crashes>>

------------------------------------------------------------------------------
(* Finalization of a run, by an operation or (by = 0) for a client            *)

AlreadyFinal(r) == report[r] # None /\ journal[r].state \in Finished

StartFinalize(r, by) ==
  LET j == journal[r]
  IN /\ j # None
     /\ IF AlreadyFinal(r) THEN UNCHANGED <<journal, finalizing>>
        ELSE /\ journal' = [journal EXCEPT ![r] =
                              [state |-> IF InFlight(j) \/ j.state = "aborted" THEN "aborted" ELSE "finalizing",
                               steps |-> Unknown(j.steps)]]
             /\ finalizing' = [run |-> r, by |-> by, at |-> "report"]

FinalizeCommand(r) ==
  /\ Serving /\ StartFinalize(r, 0)
  /\ UNCHANGED <<operations, requests, report, pending, service, tasks, submitting, cancelling,
                 begun, uncertain, crashes>>

Reported(r) == IF report[r].passed THEN "succeeded" ELSE "failed"

FinalizeWorkflow(o) ==
  /\ Live(o) /\ tasks[o].pc = "finalize" /\ finalizing = None
  /\ StartFinalize(RunOf(o), o)
  /\ tasks' = IF AlreadyFinal(RunOf(o)) THEN [tasks EXCEPT ![o] = End(o, Reported(RunOf(o)))] ELSE tasks
  /\ UNCHANGED <<operations, requests, report, pending, service, submitting, cancelling,
                 begun, uncertain, crashes>>

\* Mutant: a step the client called required does not count either.
PassedUnlessRunning(steps) == steps # <<>> /\ ~\E n \in DOMAIN steps : steps[n].status = "running"

\* An optional step does not count, whatever it was and however it ended.
Passed(steps) ==
  /\ steps # <<>>
  /\ \A n \in DOMAIN steps :
       \/ steps[n].status = "passed"
       \/ steps[n].status \in {"failed", "unknown"} /\ steps[n].action.optional

WriteReport ==
  /\ finalizing # None /\ finalizing.at = "report"
  /\ LET r == finalizing.run
     IN report' = [report EXCEPT ![r] = [passed |-> Passed(journal[r].steps), steps |-> journal[r].steps]]
  /\ finalizing' = [finalizing EXCEPT !.at = "pending"]
  /\ UNCHANGED <<operations, requests, journal, pending, service, tasks, submitting, cancelling,
                 begun, uncertain, crashes>>

Learnable(r) ==
  /\ report[r].passed
  /\ \E n \in DOMAIN journal[r].steps : LET s == journal[r].steps[n]
       IN s.status = "passed" /\ s.action.kind = "mutation"

\* A bundle that is already there stems from an earlier report, whose time stamp and
\* so fingerprint differ: the finalization is refused, its run stays as it is.
WritePending ==
  /\ finalizing # None /\ finalizing.at = "pending"
  /\ LET r == finalizing.run
         by == finalizing.by
     IN IF Learnable(r) /\ pending[r]
        THEN /\ finalizing' = None
             /\ tasks' = IF by = 0 THEN tasks ELSE [tasks EXCEPT ![by] = End(by, "failed")]
             /\ UNCHANGED pending
        ELSE /\ pending' = [pending EXCEPT ![r] = @ \/ Learnable(r)]
             /\ finalizing' = [finalizing EXCEPT !.at = "close"]
             /\ UNCHANGED tasks
  /\ UNCHANGED <<operations, requests, journal, report, service, submitting, cancelling,
                 begun, uncertain, crashes>>

CloseRun ==
  /\ finalizing # None /\ finalizing.at = "close" /\ finalizing' = None
  /\ LET r == finalizing.run
         by == finalizing.by
     IN /\ journal' = IF journal[r].state = "aborted" THEN journal
                      ELSE [journal EXCEPT ![r].state = IF report[r].passed THEN "passed" ELSE "failed"]
        /\ tasks' = IF by = 0 THEN tasks ELSE [tasks EXCEPT ![by] = End(by, Reported(r))]
  /\ UNCHANGED <<operations, requests, report, pending, service, submitting, cancelling,
                 begun, uncertain, crashes>>

------------------------------------------------------------------------------
Finalize == WriteReport \/ WritePending \/ CloseRun

TaskStep(o) ==
  \/ TakeLock(o) \/ NextStep(o) \/ EndTask(o) \/ FinalizeWorkflow(o)
  \/ \E result \in {"cancelled", "deadline_exceeded"} : Interrupt(o, result)

Next ==
  \/ RecoverRuns \/ RecoverOperations \/ Shutdown \/ Stop \/ Crash
  \/ \E r \in Runs : PrepareRun(r) \/ FinalizeCommand(r)
  \/ \E q \in Requests : Submit(q)
  \/ WriteIndex \/ CancelReturns \/ Finalize
  \/ \E o \in Ids :
       \/ TaskStep(o) \/ Cancel(o) \/ RefuseStep(o) \/ DeadlinePasses(o)
       \/ \E late \in BOOLEAN : BeginStep(o, late)
       \/ \E verdict \in {"passed", "failed", "unknown"} : StepReturns(o, verdict)

Spec == Init /\ [][Next]_vars

\* The event loop runs what is ready in turn and deadlines pass; no page need ever
\* answer and nobody need start the service.
Fairness ==
  /\ WF_vars(RecoverOperations) /\ WF_vars(Stop) /\ WF_vars(WriteIndex) /\ WF_vars(Finalize)
  /\ SF_vars(CancelReturns)
  /\ \A o \in Ids : SF_vars(TaskStep(o)) /\ WF_vars(DeadlinePasses(o))

FairSpec == Spec /\ Fairness

------------------------------------------------------------------------------
(* Properties                                                                 *)

\* Some mutation may or may not have happened, and the steps say so of one that the
\* client called optional.
OptionalUnknown(steps) ==
  \E n \in DOMAIN steps :
    steps[n].status = "unknown" /\ steps[n].action = [kind |-> "mutation", optional |-> TRUE]

\* An operation that has ended with anything but "unknown" has no mutation in flight
\* and none whose outcome nobody knows; neither has a run that has passed.  A report
\* that says of the journal as it stands that it passed may cover one, but then tells
\* that its outcome is unknown, and the client had called it optional
\* (operations.py:378-470, runs.py:325-395: every way out of a step; reports.py:36-41).
OutcomesHonest ==
  /\ TypeOK
  /\ \A o \in DOMAIN operations :
       operations[o].state \in FinalStates \ {"unknown"} => o \notin uncertain /\ ~Mutating(o)
  /\ \A o \in uncertain :
       LET r == RunOf(o)
       IN /\ journal[r].state # "passed"
          /\ report[r] # None /\ report[r].passed /\ report[r].steps = journal[r].steps
               => OptionalUnknown(report[r].steps)

\* No step is begun twice, however often its request is submitted and wherever the
\* service dies, and none is begun on a run with a mutation of unknown outcome
\* (operations.py:196-247 with recover; runs.py:105-127, 222-224).
NeverReplayed ==
  [][\A q \in Requests : begun'[q] # begun[q] =>
       /\ \A n \in DOMAIN begun[q] : begun'[q][n] <= 1
       /\ \A o \in uncertain : RunOf(o) # Payload[q].run]_vars

\* A task that waits holds the journal of its run and will save it.
Held(r) == \E o \in Ids : Live(o) /\ tasks[o].pc \in {"status", "act"} /\ RunOf(o) = r

\* The journal and the report of a finished run stay as they are, through later
\* submissions, finalizations, shutdowns and recoveries, unless a task was holding
\* the journal when the run was finished (runs.py:222-224, 463-467).
FinishedRunStays ==
  [][\A r \in Runs : AlreadyFinal(r) /\ finalizing = None /\ ~Held(r) =>
       journal'[r] = journal[r] /\ report'[r] = report[r]]_vars

\* While somebody keeps starting the service, every operation ends: whatever holds the
\* lock, wherever it is cancelled and wherever the service dies (operations.py:378-470).
OperationsEnd ==
  []<>(service = "up") => \A o \in Ids : Open(o) ~> ~Open(o)
==============================================================================
