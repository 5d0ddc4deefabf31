----------------------- MODULE VerifierOperationsProofs -----------------------
(* Proofs about VerifierOperations, for any requests, runs, payloads and       *)
(* bounds: an outcome nobody knows is never reported as known, no step is      *)
(* begun twice, and a finished run stays as it is.                             *)
EXTENDS VerifierOperations, SequenceTheorems, TLAPS

-------------------------------------------------------------------------------
(* The invariant *)

Request(o) == operations[o].request

\* Nothing runs in a service that is down; one that stops begins nothing more.
ServiceSound ==
  /\ service \in {"down", "recovering"} =>
       /\ \A o \in Ids : ~Live(o)
       /\ submitting = 0 /\ cancelling = 0 /\ finalizing = None
  /\ service = "stopping" => submitting = 0 /\ cancelling = 0
  /\ submitting = 0 \/ cancelling = 0
  /\ cancelling # 0 /\ Live(cancelling) => tasks[cancelling].cancel

\* The operation whose index is not written yet is the newest, and of a new request.
SubmitSound ==
  submitting # 0 =>
    /\ submitting = Len(operations) /\ ~Live(submitting)
    /\ operations[submitting].state = "queued"
    /\ requests[Request(submitting)] = 0

\* A finalization holds its run, and the operation that asked for it waits for it.
FinalSound ==
  finalizing # None =>
    LET r == finalizing.run
        by == finalizing.by
    IN /\ journal[r] # None /\ journal[r].state \in {"aborted", "finalizing"}
       /\ by = 0 => service = "up"
       /\ by # 0 => Live(by) /\ tasks[by].pc = "finalize"

\* A step was begun for a request that has its operation, and was begun once.
BegunSound ==
  /\ begun = [q \in Requests |-> begun[q]]
  /\ \A q \in Requests : \A n \in DOMAIN Payload[q].steps :
       /\ begun[q][n] <= 1
       /\ begun[q][n] # 0 => requests[q] # 0

\* The operation lock.
LockSound ==
  \A o, p \in Ids : Live(o) /\ Live(p) /\ o # p =>
    tasks[o].pc \in {"queued", "end"} \/ tasks[p].pc \in {"queued", "end"}

\* A mark in a journal of a mutation that never returned, or never said how it did.
Marked(steps) ==
  \E n \in DOMAIN steps :
    steps[n].status \in {"running", "unknown"} /\ steps[n].action.kind = "mutation"

\* The step at hand is in the journal, or the run was aborted around it.
ActSound(o) ==
  LET j == journal[RunOf(o)]
      c == tasks[o].copy
  IN /\ c # None /\ c.state = "running" /\ c.steps # <<>>
     /\ c.steps[Len(c.steps)] = [action |-> Steps(o)[tasks[o].step], status |-> "running"]
     /\ j # None /\ (j = c \/ (j.state = "aborted" /\ (Marked(c.steps) => Marked(j.steps))))

TaskSound(o) ==
  LET t == tasks[o]
      q == Request(o)
  IN Live(o) =>
       /\ o <= Len(operations) /\ requests[q] = o
       /\ t.pc = "queued" => t.step = 0
       /\ t.pc \in {"status", "act", "next"} => t.step \in DOMAIN Steps(o)
       /\ t.pc \in {"status", "act"} => t.copy # None
       /\ \A n \in DOMAIN Steps(o) :
            n > t.step \/ (n = t.step /\ t.pc = "status") => begun[q][n] = 0
       /\ t.pc = "end" => t.result # None
       /\ t.pc \in {"status", "act", "next", "finalize"} => operations[o].state # "queued"
       /\ operations[o].state \in FinalStates => t.cancel
       /\ t.pc = "act" => ActSound(o)

\* A run on which an outcome is unknown is aborted, or will be when the service starts.
Wrecked(r) == journal[r] # None /\ journal[r].state = "aborted" /\ Marked(journal[r].steps)
Doomed(r) ==
  \/ Wrecked(r)
  \/ service = "down" /\ journal[r] # None /\ Unfinished(journal[r]) /\ InFlight(journal[r])
     /\ Marked(journal[r].steps)

UncertainSound ==
  \A o \in uncertain :
    /\ o <= Len(operations) /\ operations[o].state \in {"running", "unknown"}
    /\ IF Live(o) THEN tasks[o].unknown
                  ELSE service \in {"down", "recovering"} \/ operations[o].state = "unknown"
    /\ Doomed(RunOf(o)) /\ ~Held(RunOf(o))

\* A mutation in flight is not of an operation that says how it ended.
MutatingSound ==
  \A o \in Ids : Mutating(o) => operations[o].state \in {"running", "unknown"}

ReportSound ==
  \A r \in Runs : report[r] # None =>
    journal[r] # None /\ (report[r].passed => Passed(report[r].steps))

IInv ==
  /\ TypeOK /\ ServiceSound /\ SubmitSound /\ FinalSound /\ BegunSound /\ LockSound
  /\ \A o \in Ids : TaskSound(o)
  /\ UncertainSound /\ MutatingSound /\ ReportSound

-------------------------------------------------------------------------------
(* Sequences of steps and of operations *)

Statuses == {"running", "passed", "failed", "unknown"}

LEMMA UnknownTyped ==
  ASSUME NEW steps \in Seq(Step)
  PROVE  /\ Unknown(steps) \in Seq(Step)
         /\ Marked(steps) => Marked(Unknown(steps))
<1>1. steps \in [1..Len(steps) -> Step] /\ Len(steps) \in Nat /\ DOMAIN steps = 1..Len(steps)
  BY LenProperties
<1>2. \A n \in 1..Len(steps) : [steps[n] EXCEPT !.status = "unknown"] \in Step
  BY <1>1 DEF Step
<1>3. Unknown(steps) \in [1..Len(steps) -> Step]
  BY <1>1, <1>2 DEF Unknown
<1>4. Unknown(steps) \in Seq(Step)
  BY <1>1, <1>3, SeqDef
<1>5. ASSUME NEW n \in 1..Len(steps), steps[n].status \in {"running", "unknown"}
      PROVE  Unknown(steps)[n].status = "unknown" /\ Unknown(steps)[n].action = steps[n].action
  BY <1>1, <1>5 DEF Unknown, Step
<1>6. DOMAIN Unknown(steps) = 1..Len(steps)
  BY <1>1 DEF Unknown
<1> QED BY <1>1, <1>4, <1>5, <1>6 DEF Marked

LEMMA LastTyped ==
  ASSUME NEW steps \in Seq(Step), steps # <<>>, NEW verdict \in Statuses
  PROVE  LET s == [steps EXCEPT ![Len(steps)].status = verdict]
         IN /\ s \in Seq(Step)
            /\ verdict = "unknown" /\ steps[Len(steps)].action.kind = "mutation" => Marked(s)
<1> DEFINE n == Len(steps)
           e == [steps[n] EXCEPT !.status = verdict]
           s == [steps EXCEPT ![n] = e]
<1>1. n \in 1..Len(steps)
  BY EmptySeq
<1>2. steps[n] \in Step
  BY <1>1, ElementOfSeq
<1>3. e \in Step /\ e.status = verdict /\ e.action = steps[n].action
  BY <1>2 DEF Step, Statuses
<1> HIDE DEF e
<1>4. s \in Seq(Step) /\ Len(s) = Len(steps) /\ s[n] = e
  BY <1>1, <1>3, ExceptSeq
<1>5. n \in DOMAIN s
  BY <1>1, <1>4, LenProperties
<1> HIDE DEF s
<1>6. s \in Seq(Step) /\ (verdict = "unknown" /\ steps[n].action.kind = "mutation" => Marked(s))
  BY <1>3, <1>4, <1>5 DEF Marked
<1>7. s = [steps EXCEPT ![Len(steps)].status = verdict]
  BY DEF s, e
<1> QED BY <1>6, <1>7

LEMMA BegunTyped ==
  ASSUME NEW steps \in Seq(Step), NEW action \in Action
  PROVE  LET s == Append(steps, [action |-> action, status |-> "running"])
         IN /\ s \in Seq(Step) /\ s # <<>>
            /\ s[Len(s)] = [action |-> action, status |-> "running"]
<1> DEFINE e == [action |-> action, status |-> "running"]
<1>1. e \in Step
  BY DEF Step
<1> QED BY <1>1

\* The operations are a sequence of their type, and so are their payloads.
LEMMA OperationTyped ==
  ASSUME TypeOK, NEW o \in 1..Len(operations)
  PROVE  /\ o \in Ids /\ o \in DOMAIN operations /\ operations[o] \in Operation
         /\ Request(o) \in Requests /\ RunOf(o) \in Runs /\ Steps(o) \in Seq(Action)
         /\ Payload[Request(o)].finalize \in BOOLEAN
<1>1. /\ operations \in Seq(Operation) /\ Len(operations) <= HistoryLimit
      /\ Len(operations) \in Nat /\ HistoryLimit \in Nat
  BY BoundsAssumption, LenProperties DEF TypeOK
<1>2. operations[o] \in Operation /\ o \in DOMAIN operations
  BY <1>1, ElementOfSeq, LenProperties
<1>3. Payload[operations[o].request] \in [run : Runs, steps : Seq(Action), asset : BOOLEAN, finalize : BOOLEAN]
  BY <1>2, PayloadAssumption DEF Operation
<1> QED BY <1>1, <1>2, <1>3 DEF Operation, Request, RunOf, Steps, Ids

\* One operation gets another state, or is asked to stop.
LEMMA OperationSet ==
  ASSUME TypeOK, NEW o \in 1..Len(operations), NEW op \in Operation, op.request = Request(o),
         operations' = [operations EXCEPT ![o] = op]
  PROVE  /\ operations' \in Seq(Operation) /\ Len(operations') = Len(operations)
         /\ operations'[o] = op
         /\ \A p \in 1..Len(operations) : /\ operations'[p].request = operations[p].request
                                          /\ p # o => operations'[p] = operations[p]
<1>1. operations \in Seq(Operation)
  BY DEF TypeOK
<1> QED BY <1>1, ExceptSeq DEF Request

\* All the operations that are open come to an end.
LEMMA AllRecovered ==
  ASSUME TypeOK, operations' = [o \in DOMAIN operations |-> Recovered(operations[o])]
  PROVE  /\ operations' \in Seq(Operation) /\ Len(operations') = Len(operations)
         /\ \A p \in 1..Len(operations) :
              /\ operations'[p].request = operations[p].request
              /\ operations'[p] = Recovered(operations[p])
<1>1. operations \in Seq(Operation) /\ Len(operations) \in Nat /\ DOMAIN operations = 1..Len(operations)
  BY LenProperties DEF TypeOK
<1>2. ASSUME NEW p \in 1..Len(operations)
      PROVE  /\ Recovered(operations[p]) \in Operation
             /\ Recovered(operations[p]).request = operations[p].request
  <2>1. operations[p] \in Operation
    BY <1>1, ElementOfSeq
  <2> QED BY <2>1 DEF Recovered, Operation, FinalStates
<1>3. operations' \in [1..Len(operations) -> Operation]
  BY <1>1, <1>2
<1>4. operations' \in Seq(Operation) /\ Len(operations') = Len(operations)
  BY <1>1, <1>3, SeqDef, LenProperties
<1> QED BY <1>1, <1>2, <1>4

-------------------------------------------------------------------------------
(* What a step leaves alone *)

\* A task that a step does not touch, nor its operation, nor its request, and whose run
\* it may only abort.
LEMMA TaskFrame ==
  ASSUME TypeOK, NEW p \in Ids, TaskSound(p), tasks'[p] = tasks[p],
         Len(operations) <= Len(operations'), Len(operations') \in Nat,
         p <= Len(operations) => /\ operations'[p].request = operations[p].request
                                 /\ operations'[p].state = operations[p].state,
         Live(p) => /\ requests'[Request(p)] = requests[Request(p)]
                    /\ begun'[Request(p)] = begun[Request(p)],
         Live(p) /\ tasks[p].pc = "act" =>
           LET j == journal'[RunOf(p)]
           IN \/ j = journal[RunOf(p)]
              \/ /\ j # None /\ j.state = "aborted"
                 /\ Marked(journal[RunOf(p)].steps) => Marked(j.steps)
  PROVE  TaskSound(p)'
<1> SUFFICES ASSUME Live(p) PROVE TaskSound(p)'
  BY DEF TaskSound, Live
<1>1. /\ p <= Len(operations) /\ p <= Len(operations') /\ Request(p)' = Request(p)
      /\ RunOf(p)' = RunOf(p) /\ Steps(p)' = Steps(p)
  BY LenProperties DEF TaskSound, TypeOK, Ids, Request, RunOf, Steps
<1>2. tasks[p].pc = "act" => ActSound(p) /\ ActSound(p)'
  BY <1>1 DEF TaskSound, ActSound
<1> QED BY <1>1, <1>2 DEF TaskSound, Live, Request

\* An unknown outcome stays one where nothing of its run or its task changes.
LEMMA UncertainFrame ==
  ASSUME TypeOK, UncertainSound, uncertain' = uncertain,
         Len(operations) <= Len(operations'), Len(operations') \in Nat,
         \A p \in 1..Len(operations) :
           /\ operations'[p].request = operations[p].request
           /\ operations'[p].state = operations[p].state \/ operations'[p].state = "unknown"
                \/ p \notin uncertain,
         \A p \in uncertain : Live(p)' => Live(p) /\ tasks'[p].unknown = tasks[p].unknown,
         \A p \in uncertain : ~Live(p)' => \/ ~Live(p) /\ service \in {"up", "stopping"}
                                           \/ service' \in {"down", "recovering"}
                                           \/ operations'[p].state = "unknown",
         \A p \in uncertain : Doomed(RunOf(p))' /\ ~Held(RunOf(p))'
  PROVE  UncertainSound'
<1> SUFFICES ASSUME NEW o \in uncertain
             PROVE  /\ o <= Len(operations') /\ operations'[o].state \in {"running", "unknown"}
                    /\ IF Live(o)' THEN tasks'[o].unknown
                       ELSE service' \in {"down", "recovering"} \/ operations'[o].state = "unknown"
                    /\ Doomed(RunOf(o))' /\ ~Held(RunOf(o))'
  BY DEF UncertainSound, Live
<1>1. o \in 1..Len(operations)
  BY LenProperties DEF UncertainSound, TypeOK, Ids
<1> QED BY <1>1 DEF UncertainSound, TypeOK

\* One task takes another turn, and the others wait.
LEMMA OneTask ==
  ASSUME TypeOK, NEW o \in Ids, NEW t \in Task \cup {None}, tasks' = [tasks EXCEPT ![o] = t]
  PROVE  /\ tasks' \in [Ids -> Task \cup {None}] /\ tasks'[o] = t
         /\ \A p \in Ids : p # o => tasks'[p] = tasks[p]
BY DEF TypeOK

LEMMA TaskTyped ==
  ASSUME TypeOK, NEW o \in Ids, Live(o)
  PROVE  tasks[o] \in Task /\ tasks[o] # None
BY DEF TypeOK, Live

LEMMA EndTyped ==
  ASSUME TypeOK, NEW o \in Ids, Live(o), NEW result \in FinalStates
  PROVE  /\ End(o, result) \in Task /\ End(o, result) # None
         /\ End(o, result).pc = "end" /\ End(o, result).result = result /\ result # None
         /\ End(o, result).step = tasks[o].step /\ End(o, result).cancel = tasks[o].cancel
         /\ End(o, result).unknown = tasks[o].unknown
<1>1. tasks[o] \in Task
  BY TaskTyped
<1>2. End(o, result) \in Task
  BY <1>1 DEF End, Task
<1>3. End(o, result) # None /\ result # None
  BY <1>2, NoneAssumption
<1> QED BY <1>1, <1>2, <1>3 DEF End, Task

\* Nobody gets the lock by a step that lets no task past "queued".
LEMMA LockFrame ==
  ASSUME LockSound,
         \A p \in Ids : Live(p)' /\ tasks'[p].pc \notin {"queued", "end"} =>
                        Live(p) /\ tasks[p].pc \notin {"queued", "end"}
  PROVE  LockSound'
BY DEF LockSound, Live

\* A run that nobody holds is held by nobody after a step that gives no task a journal.
LEMMA HeldFrame ==
  ASSUME TypeOK, \A p \in Ids : TaskSound(p), Len(operations) \in Nat,
         \A p \in 1..Len(operations) : operations'[p].request = operations[p].request,
         \A p \in Ids : Live(p)' /\ tasks'[p].pc \in {"status", "act"} =>
                        Live(p) /\ tasks[p].pc \in {"status", "act"},
         NEW r \in Runs, ~Held(r)
  PROVE  ~Held(r)'
<1> SUFFICES ASSUME NEW p \in Ids, Live(p)', tasks'[p].pc \in {"status", "act"}, RunOf(p)' = r
             PROVE FALSE
  BY DEF Held
<1>1. Live(p) /\ tasks[p].pc \in {"status", "act"}
  OBVIOUS
<1>2. p \in 1..Len(operations)
  BY <1>1 DEF TaskSound, Ids
<1>3. RunOf(p) = r
  BY <1>2 DEF RunOf
<1> QED BY <1>1, <1>3 DEF Held

\* An operation with a mutation in flight says no more than it said.
LEMMA MutatingFrame ==
  ASSUME TypeOK, MutatingSound, \A p \in Ids : TaskSound(p), Len(operations) \in Nat,
         \A p \in Ids : Live(p)' /\ tasks'[p].pc = "act" =>
                        Live(p) /\ tasks[p].pc = "act" /\ tasks'[p].step = tasks[p].step,
         \A p \in 1..Len(operations) :
           /\ operations'[p].request = operations[p].request
           /\ \/ operations'[p].state \in {operations[p].state, "unknown"}
              \/ ~Mutating(p)
  PROVE  MutatingSound'
<1> SUFFICES ASSUME NEW p \in Ids, Mutating(p)'
             PROVE operations'[p].state \in {"running", "unknown"}
  BY DEF MutatingSound
<1>1. Live(p)' /\ tasks'[p].pc = "act"
  BY DEF Mutating
<1>2. Live(p) /\ tasks[p].pc = "act" /\ tasks'[p].step = tasks[p].step
  BY <1>1
<1>3. p \in 1..Len(operations)
  BY <1>2 DEF TaskSound, Ids
<1>4. Steps(p)' = Steps(p)
  BY <1>3 DEF Steps
<1>5. Mutating(p)
  BY <1>2, <1>4 DEF Mutating
<1> QED BY <1>3, <1>5 DEF MutatingSound

\* What the actions above and below keep asking of the types.
LEMMA LengthTyped ==
  ASSUME TypeOK
  PROVE  /\ Len(operations) \in Nat /\ Len(operations) \in 0..HistoryLimit /\ HistoryLimit \in Nat
         /\ DOMAIN operations = 1..Len(operations)
BY BoundsAssumption, LenProperties DEF TypeOK

\* A task that holds the lock comes to its end, whatever it leaves behind.
LEMMA TaskEnds ==
  ASSUME TypeOK, \A p \in Ids : TaskSound(p), LockSound, MutatingSound,
         NEW o \in Ids, Live(o), NEW t \in Task, t.pc = "end", t.result # None,
         t.step = tasks[o].step, t.cancel = tasks[o].cancel,
         tasks' = [tasks EXCEPT ![o] = t],
         UNCHANGED <<operations, requests, begun>>,
         \A p \in Ids \ {o} : Live(p) /\ tasks[p].pc = "act" =>
           LET j == journal'[RunOf(p)]
           IN \/ j = journal[RunOf(p)]
              \/ /\ j # None /\ j.state = "aborted"
                 /\ Marked(journal[RunOf(p)].steps) => Marked(j.steps)
  PROVE  /\ tasks' \in [Ids -> Task \cup {None}] /\ tasks'[o] = t
         /\ \A p \in Ids : p # o => tasks'[p] = tasks[p]
         /\ \A p \in Ids : TaskSound(p)'
         /\ LockSound' /\ MutatingSound'
         /\ \A r \in Runs : ~Held(r) => ~Held(r)'
<1>1. /\ tasks' \in [Ids -> Task \cup {None}] /\ tasks'[o] = t
      /\ \A p \in Ids : p # o => tasks'[p] = tasks[p]
  BY OneTask
<1>2. Len(operations) \in Nat
  BY LengthTyped
<1>3. TaskSound(o)'
  <2>1. /\ o <= Len(operations) /\ requests[Request(o)] = o
        /\ \A n \in DOMAIN Steps(o) : n > tasks[o].step => begun[Request(o)][n] = 0
        /\ operations[o].state \in FinalStates => tasks[o].cancel
    BY DEF TaskSound
  <2> QED BY <1>1, <2>1 DEF TaskSound, Live, Request, Steps
<1>4. ASSUME NEW p \in Ids, p # o PROVE TaskSound(p)'
  BY <1>1, <1>2, <1>4, TaskFrame
<1>5. LockSound'
  BY <1>1, LockFrame DEF Live
<1>6. MutatingSound'
  BY <1>1, <1>2, MutatingFrame DEF Live
<1>7. ASSUME NEW r \in Runs, ~Held(r) PROVE ~Held(r)'
  BY <1>1, <1>2, <1>7, HeldFrame DEF Live
<1> QED BY <1>1, <1>3, <1>4, <1>5, <1>6, <1>7

LEMMA ContinueTyped ==
  ASSUME TypeOK, NEW o \in Ids, Live(o), o <= Len(operations), NEW n \in Nat
  PROVE  LET t == Continue(o, n)
         IN /\ t \in Task /\ t # None /\ t.pc \in {"status", "finalize", "end"}
            /\ t.cancel = tasks[o].cancel /\ t.unknown = tasks[o].unknown
            /\ t.pc # "status" => t.step = tasks[o].step
            /\ t.pc = "end" => t.result # None
            /\ t.pc = "status" => /\ t.step = n /\ n <= Len(Steps(o)) /\ t.copy # None
                                  /\ journal[RunOf(o)] # None
                                  /\ journal[RunOf(o)].state \in Appendable
<1>1. o \in 1..Len(operations)
  BY DEF Ids
<1>2. tasks[o] \in Task
  BY TaskTyped
<1>3. RunOf(o) \in Runs /\ journal[RunOf(o)] \in Journal \cup {None}
  BY <1>1, OperationTyped DEF TypeOK
<1> DEFINE j == journal[RunOf(o)]
           a == [tasks[o] EXCEPT !.pc = "status", !.step = n, !.copy = j]
           f == [tasks[o] EXCEPT !.pc = "finalize", !.copy = None]
<1>4. a \in Task /\ a.pc = "status" /\ a.cancel = tasks[o].cancel /\ a.unknown = tasks[o].unknown
      /\ a.step = n /\ a.copy = j
  BY <1>2, <1>3 DEF Task
<1>5. f \in Task /\ f.pc = "finalize" /\ f.cancel = tasks[o].cancel /\ f.unknown = tasks[o].unknown
      /\ f.step = tasks[o].step
  BY <1>2 DEF Task
<1>6. \A s \in {"failed", "succeeded"} : s \in FinalStates
  BY DEF FinalStates
<1>7. /\ \A s \in {"failed", "succeeded"} :
           LET e == End(o, s)
           IN e \in Task /\ e.pc = "end" /\ e.result # None /\ e.step = tasks[o].step
              /\ e.cancel = tasks[o].cancel /\ e.unknown = tasks[o].unknown
  BY <1>6, EndTyped
<1> DEFINE t == Continue(o, n)
<1>8. \/ t = a /\ n <= Len(Steps(o)) /\ j # None /\ j.state \in Appendable
      \/ t = f
      \/ t = End(o, "failed") \/ t = End(o, "succeeded")
  BY DEF Continue, Steps, RunOf
<1>9. \A x \in Task : x # None
  BY NoneAssumption
<1> HIDE DEF t, a, f, j
<1>10. t \in Task
  BY <1>4, <1>5, <1>7, <1>8
<1>11. CASE t = a /\ n <= Len(Steps(o)) /\ j # None /\ j.state \in Appendable
  BY <1>4, <1>9, <1>10, <1>11 DEF t, j
<1>12. CASE t = f
  BY <1>5, <1>9, <1>10, <1>12 DEF t
<1>13. CASE t = End(o, "failed") \/ t = End(o, "succeeded")
  BY <1>7, <1>9, <1>10, <1>13 DEF t
<1> QED BY <1>8, <1>11, <1>12, <1>13

\* A task goes on with its next step, to its finalization or to its end.
LEMMA TaskContinues ==
  ASSUME TypeOK, \A p \in Ids : TaskSound(p), LockSound, MutatingSound,
         NEW o \in Ids, Live(o), tasks[o].pc \in {"queued", "next"},
         \A p \in Ids \ {o} : Live(p) => tasks[p].pc \in {"queued", "end"},
         NEW n \in Nat, n > tasks[o].step,
         tasks' = [tasks EXCEPT ![o] = Continue(o, n)],
         UNCHANGED <<requests, begun, journal>>,
         operations' \in Seq(Operation), Len(operations') = Len(operations),
         \A p \in 1..Len(operations) : /\ operations'[p].request = operations[p].request
                                       /\ p # o => operations'[p] = operations[p],
         operations'[o].state # "queued",
         operations'[o].state \in FinalStates => tasks[o].cancel
  PROVE  /\ tasks' \in [Ids -> Task \cup {None}] /\ tasks'[o] = Continue(o, n)
         /\ \A p \in Ids : p # o => tasks'[p] = tasks[p]
         /\ \A p \in Ids : TaskSound(p)'
         /\ LockSound' /\ MutatingSound'
         /\ \A r \in Runs : ~Held(r) /\ (journal[r] = None \/ journal[r].state \notin Appendable)
                            => ~Held(r)'
<1> DEFINE t == Continue(o, n)
<1>1. o <= Len(operations) /\ o \in 1..Len(operations)
  BY DEF TaskSound, Ids
<1>2. /\ t \in Task /\ t # None /\ t.pc \in {"status", "finalize", "end"}
      /\ t.cancel = tasks[o].cancel /\ t.unknown = tasks[o].unknown
      /\ t.pc # "status" => t.step = tasks[o].step
      /\ t.pc = "end" => t.result # None
      /\ t.pc = "status" => /\ t.step = n /\ n <= Len(Steps(o)) /\ t.copy # None
                            /\ journal[RunOf(o)] # None
                            /\ journal[RunOf(o)].state \in Appendable
  BY <1>1, ContinueTyped
<1> HIDE DEF t
<1>3. /\ tasks' \in [Ids -> Task \cup {None}] /\ tasks'[o] = t
      /\ \A p \in Ids : p # o => tasks'[p] = tasks[p]
  BY <1>2, OneTask DEF t
<1>4. Len(operations) \in Nat
  BY LengthTyped
<1>5. tasks[o].step \in Nat /\ Steps(o) \in Seq(Action) /\ Len(Steps(o)) \in Nat
      /\ DOMAIN Steps(o) = 1..Len(Steps(o))
  <2>1. Steps(o) \in Seq(Action)
    BY <1>1, OperationTyped
  <2>2. tasks[o].step \in Nat
    BY TaskTyped DEF Task
  <2> QED BY <2>1, <2>2, LenProperties
<1>6. TaskSound(o)'
  <2>1. Request(o)' = Request(o) /\ Steps(o)' = Steps(o)
    BY <1>1 DEF Request, Steps
  <2>2. /\ o <= Len(operations) /\ requests[Request(o)] = o
        /\ \A m \in DOMAIN Steps(o) : m > tasks[o].step => begun[Request(o)][m] = 0
    BY DEF TaskSound
  <2>3. (t.step \in DOMAIN Steps(o) /\ t.copy # None) \/ t.pc # "status"
    BY <1>2, <1>5
  <2>4. \A m \in DOMAIN Steps(o) :
          m > t.step \/ (m = t.step /\ t.pc = "status") => begun[Request(o)][m] = 0
    <3> SUFFICES ASSUME NEW m \in DOMAIN Steps(o), m > t.step \/ (m = t.step /\ t.pc = "status")
                 PROVE m > tasks[o].step
      BY <2>2
    <3> QED BY <1>2, <1>5
  <2> QED BY <1>2, <1>3, <2>1, <2>2, <2>3, <2>4 DEF TaskSound, Live
<1>7. ASSUME NEW p \in Ids, p # o PROVE TaskSound(p)'
  <2>1. p <= Len(operations) => /\ operations'[p].request = operations[p].request
                                /\ operations'[p].state = operations[p].state
    BY <1>4, <1>7 DEF Ids
  <2> QED BY <1>3, <1>4, <1>7, <2>1, TaskFrame
<1>8. LockSound'
  BY <1>3 DEF LockSound, Live
<1>9. MutatingSound'
  <2>1. ~Mutating(o)
    BY DEF Mutating
  <2> QED BY <1>2, <1>3, <1>4, <2>1, MutatingFrame DEF Live
<1>10. ASSUME NEW r \in Runs, ~Held(r), journal[r] = None \/ journal[r].state \notin Appendable
       PROVE ~Held(r)'
  <2> SUFFICES ASSUME NEW p \in Ids, Live(p)', tasks'[p].pc \in {"status", "act"}, RunOf(p)' = r
               PROVE FALSE
    BY DEF Held
  <2>1. CASE p = o
    <3>1. RunOf(o)' = RunOf(o)
      BY <1>1 DEF RunOf
    <3> QED BY <1>2, <1>3, <1>10, <2>1, <3>1
  <2>2. CASE p # o
    <3>1. Live(p) /\ tasks[p].pc \in {"status", "act"}
      BY <1>3, <2>2 DEF Live
    <3> QED BY <2>2, <3>1
  <2> QED BY <2>1, <2>2
<1> QED BY <1>3, <1>6, <1>7, <1>8, <1>9, <1>10 DEF t

\* While the service runs, an unknown outcome stays one if wrecked runs stay wrecked.
LEMMA UncertainKept ==
  ASSUME TypeOK, UncertainSound, uncertain' = uncertain, service # "down",
         Len(operations) <= Len(operations'), Len(operations') \in Nat,
         \A p \in 1..Len(operations) :
           /\ operations'[p].request = operations[p].request
           /\ operations'[p].state \in {operations[p].state, "unknown"} \/ p \notin uncertain,
         \A p \in Ids : Live(p)' => p \notin uncertain \/ (Live(p) /\ tasks'[p].unknown = tasks[p].unknown),
         \A p \in uncertain : ~Live(p)' => \/ ~Live(p) /\ service \in {"up", "stopping"}
                                           \/ service' \in {"down", "recovering"}
                                           \/ operations'[p].state = "unknown",
         \A r \in Runs : Wrecked(r) /\ ~Held(r) => Wrecked(r)' /\ ~Held(r)'
  PROVE  UncertainSound'
<1>1. \A p \in uncertain : p \in Ids
  BY DEF TypeOK
<1>2. ASSUME NEW p \in uncertain PROVE Doomed(RunOf(p))' /\ ~Held(RunOf(p))'
  <2>1. p \in 1..Len(operations) /\ Wrecked(RunOf(p)) /\ ~Held(RunOf(p))
    BY <1>1 DEF UncertainSound, Doomed, Ids
  <2>2. RunOf(p) \in Runs
    BY <2>1, OperationTyped
  <2>3. RunOf(p)' = RunOf(p)
    BY <2>1 DEF RunOf
  <2> DEFINE r == RunOf(p)
  <2>4. Wrecked(r)' /\ ~Held(r)'
    <3> HIDE DEF r
    <3>1. r \in Runs /\ Wrecked(r) /\ ~Held(r)
      BY <2>1, <2>2 DEF r
    <3>2. ASSUME NEW x \in Runs, Wrecked(x), ~Held(x) PROVE Wrecked(x)' /\ ~Held(x)'
      BY <3>2
    <3>3. \A x \in Runs : r = x => Wrecked(r)' /\ ~Held(r)'
      BY <2>1, <2>3, <3>2 DEF Wrecked, Held, r
    <3> QED BY <3>1, <3>3
  <2> QED BY <2>4 DEF Doomed
<1> QED BY <1>1, <1>2, UncertainFrame

-------------------------------------------------------------------------------
(* Starting and stopping *)

LEMMA RecoverRunsKeeps == ASSUME IInv, RecoverRuns PROVE IInv'
<1> USE DEF IInv
<1>1. TypeOK'
  <2>1. ASSUME NEW r \in Runs PROVE journal'[r] \in Journal \cup {None}
    <3>1. CASE Unfinished(journal[r]) /\ InFlight(journal[r])
      <4>1. journal[r] \in Journal
        BY <3>1 DEF TypeOK, Unfinished
      <4>2. Unknown(journal[r].steps) \in Seq(Step)
        BY <4>1, UnknownTyped DEF Journal
      <4> QED BY <3>1, <4>2 DEF RecoverRuns, Journal, Finished
    <3>2. CASE ~(Unfinished(journal[r]) /\ InFlight(journal[r]))
      BY <3>2 DEF RecoverRuns, TypeOK
    <3> QED BY <3>1, <3>2
  <2>2. journal' = [r \in Runs |-> journal'[r]]
    BY DEF RecoverRuns
  <2>3. journal' \in [Runs -> Journal \cup {None}]
    BY <2>1, <2>2
  <2> QED BY <2>3 DEF RecoverRuns, TypeOK, loop
<1>2. ServiceSound' /\ SubmitSound' /\ FinalSound' /\ BegunSound' /\ LockSound' /\ MutatingSound'
  BY DEF RecoverRuns, loop, ServiceSound, SubmitSound, FinalSound, BegunSound, LockSound, MutatingSound,
         Mutating, Live, Request, Steps
<1>3. \A p \in Ids : TaskSound(p)'
  BY DEF RecoverRuns, loop, ServiceSound, TaskSound, Live
<1>4. UncertainSound'
  <2>1. ASSUME NEW r \in Runs, Doomed(r) PROVE Wrecked(r)'
    <3>1. CASE Unfinished(journal[r]) /\ InFlight(journal[r])
      <4>1. journal[r] \in Journal
        BY <3>1 DEF TypeOK, Unfinished
      <4>2. /\ Unknown(journal[r].steps) \in Seq(Step)
            /\ Marked(journal[r].steps) => Marked(Unknown(journal[r].steps))
        BY <4>1, UnknownTyped DEF Journal
      <4>3. Marked(journal[r].steps)
        BY <2>1 DEF Doomed, Wrecked
      <4>4. journal'[r] = [state |-> "aborted", steps |-> Unknown(journal[r].steps)]
        BY <3>1 DEF RecoverRuns
      <4>5. journal'[r] \in Journal
        BY <4>2, <4>4 DEF Journal, Finished
      <4> QED BY <4>2, <4>3, <4>4, <4>5, NoneAssumption DEF Wrecked
    <3>2. CASE ~(Unfinished(journal[r]) /\ InFlight(journal[r]))
      BY <2>1, <3>2 DEF RecoverRuns, Doomed, Wrecked
    <3> QED BY <3>1, <3>2
  <2>2. ASSUME NEW o \in uncertain
        PROVE  /\ o <= Len(operations) /\ operations[o].state \in {"running", "unknown"}
               /\ ~Live(o)' /\ service' = "recovering"
               /\ Doomed(RunOf(o))' /\ ~Held(RunOf(o))'
    <3>1. /\ o <= Len(operations) /\ operations[o].state \in {"running", "unknown"}
          /\ ~Live(o) /\ Doomed(RunOf(o)) /\ ~Held(RunOf(o))
      BY DEF RecoverRuns, UncertainSound, ServiceSound, TypeOK
    <3>2. o \in 1..Len(operations)
      BY <3>1 DEF TypeOK, Ids
    <3>3. RunOf(o) \in Runs
      BY <3>2, OperationTyped
    <3>4. Wrecked(RunOf(o))'
      BY <2>1, <3>1, <3>3 DEF RecoverRuns, Wrecked, RunOf
    <3>5. ~Live(o)' /\ ~Held(RunOf(o))'
      BY <3>1 DEF RecoverRuns, loop, Live, Held, RunOf
    <3> QED BY <3>1, <3>4, <3>5 DEF Doomed, RecoverRuns
  <2> QED BY <2>2 DEF UncertainSound, RecoverRuns, loop
<1>5. ReportSound'
  <2>1. ASSUME NEW r \in Runs, journal[r] # None PROVE journal'[r] # None
    <3>1. journal[r] \in Journal
      BY <2>1 DEF TypeOK
    <3>2. Unknown(journal[r].steps) \in Seq(Step)
      BY <3>1, UnknownTyped DEF Journal
    <3>3. [state |-> "aborted", steps |-> Unknown(journal[r].steps)] \in Journal
      BY <3>2 DEF Journal, Finished
    <3> QED BY <2>1, <3>3, NoneAssumption DEF RecoverRuns
  <2> QED BY <2>1 DEF RecoverRuns, ReportSound
<1> QED BY <1>1, <1>2, <1>3, <1>4, <1>5

LEMMA RecoverOperationsKeeps == ASSUME IInv, RecoverOperations PROVE IInv'
<1> USE DEF IInv
<1>1. /\ operations' \in Seq(Operation) /\ Len(operations') = Len(operations)
      /\ \A p \in 1..Len(operations) :
           /\ operations'[p].request = operations[p].request
           /\ operations'[p] = Recovered(operations[p])
  BY AllRecovered DEF RecoverOperations
<1>2. TypeOK'
  BY <1>1 DEF RecoverOperations, TypeOK, loop
<1>3. ServiceSound' /\ SubmitSound' /\ FinalSound' /\ BegunSound' /\ LockSound' /\ ReportSound'
  BY DEF RecoverOperations, loop, ServiceSound, SubmitSound, FinalSound, BegunSound, LockSound, ReportSound, Live
<1>4. \A p \in Ids : TaskSound(p)' /\ ~Live(p)' /\ ~Mutating(p)'
  BY DEF RecoverOperations, loop, ServiceSound, TaskSound, Live, Mutating
<1>5. MutatingSound'
  BY <1>4 DEF MutatingSound
<1>6. UncertainSound'
  <2>1. \A r \in Runs : Wrecked(r)' = Wrecked(r) /\ ~Held(r)'
    BY <1>4 DEF RecoverOperations, Wrecked, Held, Live
  <2>2. \A p \in 1..Len(operations) :
          operations[p].state \in {"running", "unknown"} => operations'[p].state = "unknown"
    <3> SUFFICES ASSUME NEW p \in 1..Len(operations), operations[p].state \in {"running", "unknown"}
                 PROVE operations'[p].state = "unknown"
      OBVIOUS
    <3>1. operations[p] \in Operation
      BY OperationTyped
    <3> QED BY <1>1, <3>1 DEF Recovered, Operation
  <2>3. Len(operations) \in Nat /\ service # "down" /\ uncertain' = uncertain
    BY LengthTyped DEF RecoverOperations
  <2>4. \A p \in 1..Len(operations) :
           /\ operations'[p].request = operations[p].request
           /\ operations'[p].state \in {operations[p].state, "unknown"} \/ p \notin uncertain
    BY <1>1, <2>2 DEF UncertainSound
  <2>5. \A p \in uncertain : operations'[p].state = "unknown"
    BY <2>2 DEF UncertainSound, TypeOK, Ids
  <2>6. \A r \in Runs : Wrecked(r) /\ ~Held(r) => Wrecked(r)' /\ ~Held(r)'
    BY <2>1
  <2> QED BY <1>1, <1>4, <2>3, <2>4, <2>5, <2>6, UncertainKept
<1> QED BY <1>2, <1>3, <1>4, <1>5, <1>6

LEMMA ShutdownKeeps == ASSUME IInv, Shutdown PROVE IInv'
<1> USE DEF IInv
<1>1. ASSUME NEW p \in 1..Len(operations)
      PROVE  /\ operations'[p] \in Operation
             /\ operations'[p].request = operations[p].request
             /\ operations'[p].state = operations[p].state
  <2>1. operations[p] \in Operation /\ p \in DOMAIN operations
    BY OperationTyped
  <2>2. operations'[p] = operations[p] \/ operations'[p] = [operations[p] EXCEPT !.cancelRequested = TRUE]
    BY <2>1 DEF Shutdown
  <2> QED BY <2>1, <2>2 DEF Operation
<1>2. Len(operations) \in Nat /\ DOMAIN operations = 1..Len(operations)
  BY LengthTyped
<1>3. operations' \in [1..Len(operations) -> Operation]
  BY <1>1, <1>2 DEF Shutdown
<1>4. operations' \in Seq(Operation) /\ Len(operations') = Len(operations)
  BY <1>2, <1>3, SeqDef, LenProperties
<1>5. ASSUME NEW p \in Ids, Live(p)
      PROVE  /\ tasks'[p] \in Task /\ tasks'[p].cancel /\ tasks'[p].pc = tasks[p].pc
             /\ tasks'[p].step = tasks[p].step /\ tasks'[p].copy = tasks[p].copy
             /\ tasks'[p].unknown = tasks[p].unknown /\ tasks'[p].result = tasks[p].result
  <2>1. tasks[p] \in Task
    BY <1>5, TaskTyped
  <2>2. tasks'[p] = [tasks[p] EXCEPT !.cancel = TRUE]
    BY <1>5 DEF Shutdown
  <2> QED BY <2>1, <2>2 DEF Task
<1>6. ASSUME NEW p \in Ids PROVE Live(p)' <=> Live(p)
  <2>1. Live(p) => tasks'[p] # None
    BY <1>5, NoneAssumption
  <2>2. ~Live(p) => tasks'[p] = None
    BY DEF Shutdown
  <2> QED BY <2>1, <2>2 DEF Live
<1>7. TypeOK'
  <2>1. \A p \in Ids : tasks'[p] \in Task \cup {None}
    BY <1>5 DEF Shutdown
  <2>2. tasks' \in [Ids -> Task \cup {None}]
    BY <2>1 DEF Shutdown
  <2> QED BY <1>4, <2>2 DEF Shutdown, TypeOK
<1>8. ServiceSound' /\ SubmitSound' /\ FinalSound' /\ BegunSound' /\ ReportSound'
  BY DEF Shutdown, Serving, Idle, ServiceSound, SubmitSound, FinalSound, BegunSound, ReportSound
<1>9. LockSound'
  BY <1>5, <1>6, LockFrame
<1>10. ASSUME NEW p \in Ids PROVE TaskSound(p)'
  <2> SUFFICES ASSUME Live(p)' PROVE TaskSound(p)'
    BY DEF TaskSound
  <2>1. Live(p) /\ p \in 1..Len(operations)
    BY <1>6 DEF TaskSound, Ids
  <2>2. Request(p)' = Request(p) /\ Steps(p)' = Steps(p) /\ RunOf(p)' = RunOf(p)
    BY <1>1, <2>1 DEF Request, Steps, RunOf
  <2>3. tasks[p].pc = "act" => ActSound(p)'
    BY <1>5, <2>1, <2>2 DEF TaskSound, ActSound, Shutdown
  <2> QED BY <1>1, <1>4, <1>5, <2>1, <2>2, <2>3 DEF TaskSound, Shutdown
<1>11. MutatingSound'
  BY <1>1, <1>2, <1>5, <1>6, MutatingFrame
<1>12. UncertainSound'
  <2>1. \A r \in Runs : ~Held(r) => ~Held(r)'
    BY <1>1, <1>2, <1>5, <1>6, HeldFrame
  <2>2. \A r \in Runs : Wrecked(r)' = Wrecked(r)
    BY DEF Shutdown, Wrecked
  <2>3. service = "up" /\ uncertain' = uncertain
    BY DEF Shutdown, Serving
  <2>4. \A p \in uncertain : ~Live(p)' => ~Live(p) /\ service \in {"up", "stopping"}
    BY <1>6, <2>3 DEF TypeOK
  <2> QED BY <1>1, <1>2, <1>4, <1>5, <1>6, <2>1, <2>2, <2>3, <2>4, UncertainKept
<1> QED BY <1>7, <1>8, <1>9, <1>10, <1>11, <1>12

LEMMA StopKeeps == ASSUME IInv, Stop PROVE IInv'
<1> USE DEF IInv
<1>1. /\ operations' \in Seq(Operation) /\ Len(operations') = Len(operations)
      /\ \A p \in 1..Len(operations) :
           /\ operations'[p].request = operations[p].request
           /\ operations'[p] = Recovered(operations[p])
  BY AllRecovered DEF Stop
<1>2. ASSUME NEW r \in Runs
      PROVE  /\ journal'[r] \in Journal \cup {None}
             /\ journal[r] # None => journal'[r] # None
             /\ Wrecked(r) => Wrecked(r)'
  <2>1. CASE journal[r] # None /\ journal[r].state \in Appendable
    <3>1. journal[r] \in Journal
      BY <2>1 DEF TypeOK
    <3>2. journal'[r] = [journal[r] EXCEPT !.state = "aborted"]
      BY <2>1 DEF Stop
    <3>3. journal'[r] \in Journal /\ journal[r].state # "aborted"
      BY <2>1, <3>1, <3>2 DEF Journal, Finished, Appendable
    <3> QED BY <3>3, NoneAssumption DEF Wrecked
  <2>2. CASE ~(journal[r] # None /\ journal[r].state \in Appendable)
    <3>1. journal'[r] = journal[r]
      BY <2>2 DEF Stop
    <3> QED BY <3>1 DEF TypeOK, Wrecked
  <2> QED BY <2>1, <2>2
<1>3. TypeOK'
  <2>1. journal' \in [Runs -> Journal \cup {None}]
    BY <1>2 DEF Stop
  <2> QED BY <1>1, <2>1 DEF Stop, TypeOK, loop
<1>4. finalizing = None /\ submitting = 0 /\ cancelling = 0
  <2>1. finalizing # None => finalizing.by \in Ids \cup {0}
    BY DEF TypeOK, Finalization
  <2> QED BY <2>1 DEF Stop, FinalSound, ServiceSound
<1>5. \A p \in Ids : TaskSound(p)' /\ ~Live(p)' /\ ~Mutating(p)'
  BY DEF Stop, loop, TaskSound, Live, Mutating
<1>6. ServiceSound' /\ SubmitSound' /\ FinalSound' /\ BegunSound' /\ LockSound' /\ MutatingSound'
  BY <1>4, <1>5 DEF Stop, loop, ServiceSound, SubmitSound, FinalSound, BegunSound, LockSound, MutatingSound
<1>7. ReportSound'
  BY <1>2 DEF Stop, ReportSound
<1>8. UncertainSound'
  <2>1. \A r \in Runs : ~Held(r)'
    BY <1>5 DEF Held
  <2>2. \A p \in 1..Len(operations) :
          operations[p].state \in {"running", "unknown"} =>
            operations'[p].state \in {operations[p].state, "unknown"}
    <3> SUFFICES ASSUME NEW p \in 1..Len(operations), operations[p].state \in {"running", "unknown"}
                 PROVE operations'[p].state = "unknown"
      OBVIOUS
    <3>1. operations[p] \in Operation
      BY OperationTyped
    <3> QED BY <1>1, <3>1 DEF Recovered, Operation
  <2>3. Len(operations) \in Nat /\ service = "stopping" /\ service' = "down" /\ uncertain' = uncertain
    BY LengthTyped DEF Stop
  <2>4. \A p \in 1..Len(operations) :
           /\ operations'[p].request = operations[p].request
           /\ operations'[p].state \in {operations[p].state, "unknown"} \/ p \notin uncertain
    BY <1>1, <2>2 DEF UncertainSound
  <2>5. \A r \in Runs : Wrecked(r) /\ ~Held(r) => Wrecked(r)' /\ ~Held(r)'
    BY <1>2, <2>1
  <2> QED BY <1>1, <1>5, <2>3, <2>4, <2>5, UncertainKept
<1> QED BY <1>3, <1>5, <1>6, <1>7, <1>8

LEMMA CrashKeeps == ASSUME IInv, Crash PROVE IInv'
<1> USE DEF IInv
<1>1. TypeOK'
  BY BoundsAssumption DEF Crash, TypeOK, disk
<1>2. \A p \in Ids : TaskSound(p)' /\ ~Live(p)' /\ ~Mutating(p)'
  BY DEF Crash, TaskSound, Live, Mutating
<1>3. ServiceSound' /\ SubmitSound' /\ FinalSound' /\ BegunSound' /\ LockSound' /\ MutatingSound' /\ ReportSound'
  BY <1>2 DEF Crash, disk, ServiceSound, SubmitSound, FinalSound, BegunSound, LockSound, MutatingSound, ReportSound
<1>4. ASSUME NEW o \in uncertain'
      PROVE  /\ o <= Len(operations) /\ operations[o].state \in {"running", "unknown"}
             /\ Doomed(RunOf(o))'
  <2>1. CASE o \in uncertain
    BY <2>1 DEF Crash, disk, UncertainSound, Doomed, Wrecked, RunOf
  <2>2. CASE o \in Ids /\ Mutating(o)
    <3>1. /\ Live(o) /\ tasks[o].pc = "act" /\ o <= Len(operations) /\ ActSound(o)
          /\ operations[o].state \in {"running", "unknown"}
      BY <2>2 DEF Mutating, TaskSound, MutatingSound
    <3>2. o \in 1..Len(operations) /\ RunOf(o) \in Runs
      BY <2>2, <3>1, OperationTyped DEF Ids
    <3> DEFINE r == RunOf(o)
               c == tasks[o].copy
    <3>3. c \in Journal
      <4>1. tasks[o] \in Task /\ c # None
        BY <2>2, <3>1, TaskTyped DEF ActSound
      <4> QED BY <4>1 DEF Task
    <3>4. /\ c.state = "running" /\ c.steps[Len(c.steps)].status = "running"
          /\ c.steps[Len(c.steps)].action.kind = "mutation"
      BY <2>2, <3>1 DEF ActSound, Mutating
    <3>5. InFlight(c) /\ Marked(c.steps)
      <4>1. c.steps \in Seq(Step) /\ c.steps # <<>>
        BY <3>1, <3>3 DEF ActSound, Journal
      <4> HIDE DEF c
      <4>2. Len(c.steps) \in DOMAIN c.steps
        BY <4>1, LenProperties, EmptySeq
      <4> QED BY <3>4, <4>2 DEF InFlight, Marked
    <3>6. RunOf(o)' = RunOf(o) /\ journal' = journal /\ service' = "down"
      BY DEF Crash, disk, RunOf
    <3>7. \/ Wrecked(r)
          \/ /\ journal[r] # None /\ Unfinished(journal[r]) /\ InFlight(journal[r])
             /\ Marked(journal[r].steps)
      BY <3>1, <3>4, <3>5 DEF ActSound, Wrecked, Unfinished, Appendable
    <3> QED BY <3>1, <3>6, <3>7 DEF Doomed, Wrecked
  <2> QED BY <2>1, <2>2 DEF Crash
<1>5. UncertainSound'
  <2>1. \A r \in Runs : ~Held(r)'
    BY <1>2 DEF Held
  <2>2. uncertain' \subseteq Ids
    BY DEF Crash, TypeOK
  <2>3. \A o \in uncertain' : ~Held(RunOf(o))' /\ ~Live(o)'
    BY <1>2, <2>2 DEF Held
  <2>4. operations' = operations /\ service' = "down"
    BY DEF Crash, disk
  <2> QED BY <1>4, <2>3, <2>4 DEF UncertainSound
<1> QED BY <1>1, <1>2, <1>3, <1>5

-------------------------------------------------------------------------------
(* Commands of the consumer *)

\* What a run's journal may become while nothing but the journals changes: it keeps
\* what its tasks wrote, or is aborted with their open steps marked.
JournalStands(r) ==
  \/ journal'[r] = journal[r]
  \/ /\ journal'[r] # None /\ journal'[r].state = "aborted"
     /\ Marked(journal[r].steps) => Marked(journal'[r].steps)
  \/ ~(journal[r] # None /\ (journal[r].state = "aborted" \/ InFlight(journal[r])))

\* A step at hand stays in the journal, or the run is aborted around it.
LEMMA StandsForTasks ==
  ASSUME TypeOK, NEW p \in Ids, TaskSound(p), Live(p), tasks[p].pc = "act", JournalStands(RunOf(p))
  PROVE  LET j == journal'[RunOf(p)]
         IN \/ j = journal[RunOf(p)]
            \/ /\ j # None /\ j.state = "aborted"
               /\ Marked(journal[RunOf(p)].steps) => Marked(j.steps)
<1> DEFINE j == journal[RunOf(p)]
           k == journal'[RunOf(p)]
<1>1. p \in 1..Len(operations) /\ ActSound(p)
  BY DEF TaskSound, Ids
<1>2. RunOf(p) \in Runs
  BY <1>1, OperationTyped
<1>3. j # None /\ (j.state = "aborted" \/ InFlight(j))
  <2>1. CASE j = tasks[p].copy /\ j # None
    <3>1. j \in Journal
      BY <1>2, <2>1 DEF TypeOK
    <3>2. j.steps \in Seq(Step) /\ j.steps # <<>> /\ j.steps[Len(j.steps)].status = "running"
      BY <1>1, <2>1, <3>1 DEF ActSound, Journal
    <3> HIDE DEF j
    <3>3. Len(j.steps) \in DOMAIN j.steps
      BY <3>2, LenProperties, EmptySeq
    <3> QED BY <2>1, <3>2, <3>3 DEF InFlight
  <2> QED BY <1>1, <2>1 DEF ActSound
<1>4. \/ k = j
      \/ k # None /\ k.state = "aborted" /\ (Marked(j.steps) => Marked(k.steps))
  BY <1>3 DEF JournalStands
<1> QED BY <1>4

LEMMA NothingKeeps == ASSUME IInv, UNCHANGED vars PROVE IInv'
<1> USE DEF IInv
<1>1. UNCHANGED <<operations, requests, journal, report, pending, service, tasks, submitting, cancelling,
                  finalizing, begun, uncertain, crashes>>
  BY DEF vars, disk, loop
<1>2. TypeOK'
  BY <1>1 DEF TypeOK
<1>3. ServiceSound' /\ SubmitSound' /\ FinalSound' /\ BegunSound' /\ LockSound' /\ MutatingSound' /\ ReportSound'
  BY <1>1 DEF ServiceSound, SubmitSound, FinalSound, BegunSound, LockSound, MutatingSound, ReportSound,
              Mutating, Live, Request, Steps
<1>4. ASSUME NEW p \in Ids PROVE TaskSound(p)'
  BY <1>1, LengthTyped, TaskFrame
<1>5. UncertainSound'
  BY <1>1 DEF UncertainSound, Doomed, Wrecked, Held, Live, RunOf
<1> QED BY <1>2, <1>3, <1>4, <1>5

LEMMA PrepareRunKeeps == ASSUME IInv, NEW r \in Runs, PrepareRun(r) PROVE IInv'
<1> USE DEF IInv
<1> DEFINE j == [state |-> "prepared", steps |-> <<>>]
<1>1. j \in Journal /\ j # None
  <2>1. j \in Journal
    BY DEF Journal, Appendable
  <2> QED BY <2>1, NoneAssumption
<1> HIDE DEF j
<1>2. /\ journal' \in [Runs -> Journal \cup {None}] /\ journal'[r] = j /\ journal[r] = None
      /\ \A x \in Runs : x # r => journal'[x] = journal[x]
  BY <1>1 DEF PrepareRun, TypeOK, j
<1>3. /\ service = "up" /\ finalizing = None
      /\ UNCHANGED <<operations, requests, report, pending, service, tasks, submitting, cancelling,
                     finalizing, begun, uncertain, crashes>>
  BY DEF PrepareRun, Serving, Idle, loop
<1>4. TypeOK'
  BY <1>2, <1>3 DEF TypeOK
<1>5. ServiceSound' /\ SubmitSound' /\ FinalSound' /\ BegunSound' /\ LockSound' /\ MutatingSound'
  BY <1>3 DEF ServiceSound, SubmitSound, FinalSound, BegunSound, LockSound, MutatingSound, Mutating, Live,
              Request, Steps
<1>6. ASSUME NEW p \in Ids PROVE TaskSound(p)'
  <2>1. Live(p) /\ tasks[p].pc = "act" => journal'[RunOf(p)] = journal[RunOf(p)]
    <3> SUFFICES ASSUME Live(p), tasks[p].pc = "act" PROVE journal'[RunOf(p)] = journal[RunOf(p)]
      OBVIOUS
    <3>1. p \in 1..Len(operations) /\ ActSound(p)
      BY DEF TaskSound, Ids
    <3>2. journal[RunOf(p)] # None
      BY <3>1 DEF ActSound
    <3> QED BY <1>2, <3>1, <3>2, OperationTyped
  <2>2. Live(p) /\ tasks[p].pc = "act" =>
           LET y == journal'[RunOf(p)]
           IN \/ y = journal[RunOf(p)]
              \/ /\ y # None /\ y.state = "aborted"
                 /\ Marked(journal[RunOf(p)].steps) => Marked(y.steps)
    BY <2>1
  <2> QED BY <1>3, <2>2, LengthTyped, TaskFrame
<1>7. UncertainSound'
  <2>1. ASSUME NEW x \in Runs, Wrecked(x), ~Held(x) PROVE Wrecked(x)' /\ ~Held(x)'
    <3>1. Wrecked(x)'
      BY <1>2, <2>1 DEF Wrecked
    <3> QED BY <1>3, <2>1, <3>1 DEF Held, Live, RunOf
  <2>2. Len(operations) \in Nat
    BY LengthTyped
  <2> QED BY <1>3, <2>1, <2>2, UncertainKept DEF Live
<1>8. ReportSound'
  BY <1>1, <1>2, <1>3 DEF ReportSound
<1> QED BY <1>4, <1>5, <1>6, <1>7, <1>8

LEMMA FinalizeStarts ==
  ASSUME TypeOK, NEW r \in Runs, NEW by \in Ids \cup {0}, StartFinalize(r, by), ~AlreadyFinal(r)
  PROVE  /\ journal' \in [Runs -> Journal \cup {None}]
         /\ finalizing' \in Finalization
         /\ finalizing'.run = r /\ finalizing'.by = by /\ finalizing'.at = "report"
         /\ journal'[r] # None /\ journal'[r].state \in {"aborted", "finalizing"}
         /\ \A x \in Runs : JournalStands(x) /\ (Wrecked(x) => Wrecked(x)')
         /\ \A x \in Runs : journal[x] # None => journal'[x] # None
<1> DEFINE j == journal[r]
           k == [state |-> IF InFlight(j) \/ j.state = "aborted" THEN "aborted" ELSE "finalizing",
                 steps |-> Unknown(j.steps)]
<1>1. j # None /\ j \in Journal
  BY DEF StartFinalize, TypeOK
<1>2. Unknown(j.steps) \in Seq(Step) /\ (Marked(j.steps) => Marked(Unknown(j.steps)))
  BY <1>1, UnknownTyped DEF Journal
<1>3. k \in Journal /\ k # None
  <2>1. k \in Journal
    BY <1>2 DEF Journal, Finished
  <2> QED BY <2>1, NoneAssumption
<1>4. /\ k.state \in {"aborted", "finalizing"} /\ k.steps = Unknown(j.steps)
      /\ InFlight(j) \/ j.state = "aborted" => k.state = "aborted"
  OBVIOUS
<1>5. journal' = [journal EXCEPT ![r] = k]
  BY DEF StartFinalize
<1> HIDE DEF k
<1>6. /\ journal' \in [Runs -> Journal \cup {None}] /\ journal'[r] = k
      /\ \A x \in Runs : x # r => journal'[x] = journal[x]
  BY <1>3, <1>5 DEF TypeOK
<1>8. JournalStands(r) /\ (Wrecked(r) => Wrecked(r)')
  BY <1>1, <1>2, <1>3, <1>4, <1>6 DEF JournalStands, Wrecked
<1>9. \A x \in Runs : JournalStands(x) /\ (Wrecked(x) => Wrecked(x)')
  BY <1>6, <1>8 DEF JournalStands, Wrecked
<1>10. finalizing' = [run |-> r, by |-> by, at |-> "report"]
  BY DEF StartFinalize
<1> QED BY <1>3, <1>4, <1>6, <1>9, <1>10 DEF Finalization

LEMMA FinalizeCommandKeeps == ASSUME IInv, NEW r \in Runs, FinalizeCommand(r) PROVE IInv'
<1> USE DEF IInv
<1>1. /\ service = "up" /\ finalizing = None /\ StartFinalize(r, 0)
      /\ UNCHANGED <<operations, requests, report, pending, service, tasks, submitting, cancelling,
                     begun, uncertain, crashes>>
  BY DEF FinalizeCommand, Serving, Idle
<1>2. CASE AlreadyFinal(r)
  <2>1. UNCHANGED vars
    BY <1>1, <1>2 DEF StartFinalize, vars, disk, loop
  <2> QED BY <2>1, NothingKeeps
<1>3. CASE ~AlreadyFinal(r)
  <2>1. /\ journal' \in [Runs -> Journal \cup {None}]
        /\ finalizing' \in Finalization /\ finalizing'.run = r /\ finalizing'.by = 0
        /\ journal'[r] # None /\ journal'[r].state \in {"aborted", "finalizing"}
        /\ \A x \in Runs : JournalStands(x) /\ (Wrecked(x) => Wrecked(x)')
        /\ \A x \in Runs : journal[x] # None => journal'[x] # None
    BY <1>1, <1>3, FinalizeStarts
  <2>2. TypeOK'
    BY <1>1, <2>1 DEF TypeOK
  <2>3. /\ ServiceSound' /\ SubmitSound' /\ FinalSound' /\ BegunSound' /\ LockSound' /\ MutatingSound'
    BY <1>1, <2>1 DEF ServiceSound, SubmitSound, FinalSound, BegunSound, LockSound, MutatingSound, Mutating,
                      Live, Request, Steps
  <2>4. ASSUME NEW p \in Ids PROVE TaskSound(p)'
    <3>1. Live(p) /\ tasks[p].pc = "act" =>
            LET j == journal'[RunOf(p)]
            IN \/ j = journal[RunOf(p)]
               \/ /\ j # None /\ j.state = "aborted"
                  /\ Marked(journal[RunOf(p)].steps) => Marked(j.steps)
      <4> SUFFICES ASSUME Live(p), tasks[p].pc = "act"
                   PROVE LET j == journal'[RunOf(p)]
                         IN \/ j = journal[RunOf(p)]
                            \/ /\ j # None /\ j.state = "aborted"
                               /\ Marked(journal[RunOf(p)].steps) => Marked(j.steps)
        OBVIOUS
      <4>1. p \in 1..Len(operations)
        BY DEF TaskSound, Ids
      <4>2. JournalStands(RunOf(p))
        BY <2>1, <4>1, OperationTyped
      <4> QED BY <4>2, StandsForTasks
    <3> QED BY <1>1, <3>1, LengthTyped, TaskFrame
  <2>5. UncertainSound'
    <3>1. ASSUME NEW x \in Runs, Wrecked(x), ~Held(x) PROVE Wrecked(x)' /\ ~Held(x)'
      BY <1>1, <2>1, <3>1 DEF Held, Live, RunOf
    <3>2. Len(operations) \in Nat
      BY LengthTyped
    <3> QED BY <1>1, <3>1, <3>2, UncertainKept DEF Live
  <2>6. ReportSound'
    BY <1>1, <2>1 DEF ReportSound
  <2> QED BY <2>2, <2>3, <2>4, <2>5, <2>6
<1> QED BY <1>2, <1>3

LEMMA SubmitKeeps == ASSUME IInv, NEW q \in Requests, Submit(q) PROVE IInv'
<1> USE DEF IInv
<1> DEFINE op == [request |-> q, state |-> "queued", cancelRequested |-> FALSE]
           n == Len(operations) + 1
<1>1. /\ service = "up" /\ finalizing = None /\ submitting = 0 /\ cancelling = 0
      /\ requests[q] = 0 /\ Len(operations) < HistoryLimit
      /\ operations' = Append(operations, op) /\ submitting' = n
      /\ UNCHANGED <<requests, journal, report, pending, service, tasks, cancelling, finalizing,
                     begun, uncertain, crashes>>
  BY DEF Submit, Serving, Idle, Accepts
<1>2. op \in Operation /\ op.request = q /\ op.state = "queued"
  BY DEF Operation, OpenStates
<1>3. Len(operations) \in Nat /\ HistoryLimit \in Nat /\ operations \in Seq(Operation)
  BY LengthTyped DEF TypeOK
<1> HIDE DEF op
<1>4. /\ operations' \in Seq(Operation) /\ Len(operations') = n /\ operations'[n] = op
      /\ \A p \in 1..Len(operations) : operations'[p] = operations[p]
  BY <1>1, <1>2, <1>3, AppendProperties
<1>5. TypeOK'
  BY <1>1, <1>3, <1>4 DEF TypeOK, Ids
<1>6. ~Live(n)
  <2>1. n \in Ids /\ n > Len(operations)
    BY <1>1, <1>3 DEF Ids
  <2> QED BY <1>3, <2>1 DEF TaskSound
<1>7. SubmitSound'
  BY <1>1, <1>2, <1>4, <1>6 DEF SubmitSound, Live, Request
<1>8. ServiceSound' /\ FinalSound' /\ BegunSound' /\ LockSound' /\ ReportSound'
  BY <1>1 DEF ServiceSound, FinalSound, BegunSound, LockSound, ReportSound, Live
<1>9. ASSUME NEW p \in Ids PROVE TaskSound(p)'
  <2>1. p <= Len(operations) => operations'[p] = operations[p]
    BY <1>3, <1>4 DEF Ids
  <2>2. Len(operations) <= Len(operations') /\ Len(operations') \in Nat
    BY <1>3, <1>4
  <2>3. requests' = requests /\ begun' = begun /\ journal' = journal /\ tasks'[p] = tasks[p]
    BY <1>1
  <2> QED BY <2>1, <2>2, <2>3, TaskFrame
<1>10. MutatingSound'
  BY <1>1, <1>3, <1>4, MutatingFrame DEF Live
<1>11. UncertainSound'
  <2>1. \A r \in Runs : ~Held(r) => ~Held(r)'
    BY <1>1, <1>3, <1>4, HeldFrame DEF Live
  <2>2. \A r \in Runs : Wrecked(r)' = Wrecked(r)
    BY <1>1 DEF Wrecked
  <2> QED BY <1>1, <1>3, <1>4, <2>1, <2>2, UncertainKept DEF Live
<1> QED BY <1>5, <1>7, <1>8, <1>9, <1>10, <1>11

LEMMA WriteIndexKeeps == ASSUME IInv, WriteIndex PROVE IInv'
<1> USE DEF IInv
<1>0. PICK o \in Ids : o = submitting /\ o # 0
  BY DEF WriteIndex, TypeOK, Ids
<1> DEFINE t == [pc |-> "queued", step |-> 0, copy |-> None, cancel |-> FALSE, expired |-> FALSE,
                 unknown |-> FALSE, ok |-> TRUE, result |-> None]
<1>q. PICK q : q = Request(o)
  OBVIOUS
<1>1. /\ submitting' = 0 /\ requests' = [requests EXCEPT ![q] = o]
      /\ tasks' = [tasks EXCEPT ![o] = t]
      /\ UNCHANGED <<operations, journal, report, pending, service, cancelling, finalizing,
                     begun, uncertain, crashes>>
  BY <1>0, <1>q DEF WriteIndex, Request
<1>2. /\ o = Len(operations) /\ ~Live(o) /\ operations[o].state = "queued"
      /\ requests[q] = 0 /\ cancelling = 0 /\ service = "up"
  BY <1>0, <1>q DEF SubmitSound, ServiceSound, TypeOK
<1>3. Len(operations) \in Nat /\ o \in 1..Len(operations) /\ q \in Requests
      /\ Steps(o) \in Seq(Action)
  <2>1. Len(operations) \in Nat
    BY LengthTyped
  <2>2. o \in 1..Len(operations)
    BY <1>2, <2>1 DEF Ids
  <2> QED BY <1>q, <2>1, <2>2, OperationTyped
<1>4. /\ t \in Task /\ t # None /\ t.pc = "queued" /\ t.step = 0 /\ ~t.cancel
  <2>1. t \in Task
    BY DEF Task
  <2> QED BY <2>1, NoneAssumption
<1> HIDE DEF t
<1>5. /\ tasks' \in [Ids -> Task \cup {None}] /\ tasks'[o] = t
      /\ \A p \in Ids : p # o => tasks'[p] = tasks[p]
  BY <1>1, <1>2, <1>4, OneTask
<1>6. /\ requests' \in [Requests -> Ids \cup {0}] /\ requests'[q] = o
      /\ \A x \in Requests : x # q => requests'[x] = requests[x]
  BY <1>1, <1>2, <1>3 DEF TypeOK
<1>7. TypeOK'
  BY <1>1, <1>2, <1>5, <1>6 DEF TypeOK
<1>8. ServiceSound' /\ SubmitSound' /\ ReportSound'
  BY <1>1, <1>2 DEF ServiceSound, SubmitSound, ReportSound
<1>9. FinalSound'
  BY <1>1, <1>2, <1>5 DEF FinalSound, Live, TypeOK, Finalization
<1>10. BegunSound'
  BY <1>1, <1>2, <1>6 DEF BegunSound, Ids
<1>11. LockSound'
  BY <1>4, <1>5, LockFrame DEF Live
<1>12. ASSUME NEW p \in Ids PROVE TaskSound(p)'
  <2>1. CASE p = o
    <3>1. q = Request(o) /\ Request(o)' = Request(o) /\ Steps(o)' = Steps(o)
      BY <1>1, <1>q DEF Request, Steps
    <3>2. DOMAIN Steps(o) = DOMAIN Payload[q].steps /\ DOMAIN Steps(o) = 1..Len(Steps(o))
      BY <1>3, <3>1, LenProperties DEF Steps, Request
    <3>3. \A n \in DOMAIN Steps(o) : begun[q][n] = 0
      BY <1>2, <1>3, <3>2 DEF BegunSound
    <3> QED BY <1>1, <1>2, <1>4, <1>5, <1>6, <2>1, <3>1, <3>3 DEF TaskSound, Live, FinalStates
  <2>2. CASE p # o
    <3>1. Live(p) => requests'[Request(p)] = requests[Request(p)]
      <4> SUFFICES ASSUME Live(p) PROVE requests'[Request(p)] = requests[Request(p)]
        OBVIOUS
      <4>1. p \in 1..Len(operations) /\ requests[Request(p)] = p /\ p # 0
        BY DEF TaskSound, Ids
      <4>2. Request(p) \in Requests
        BY <4>1, OperationTyped
      <4> QED BY <1>2, <1>6, <4>1, <4>2
    <3> QED BY <1>1, <1>3, <1>5, <2>2, <3>1, TaskFrame
  <2> QED BY <2>1, <2>2
<1>13. MutatingSound'
  BY <1>1, <1>3, <1>4, <1>5, MutatingFrame DEF Live
<1>14. UncertainSound'
  <2>1. \A r \in Runs : ~Held(r) => ~Held(r)'
    BY <1>1, <1>3, <1>4, <1>5, HeldFrame DEF Live
  <2>2. \A r \in Runs : Wrecked(r)' = Wrecked(r)
    BY <1>1 DEF Wrecked
  <2>3. o \notin uncertain
    BY <1>2 DEF UncertainSound
  <2>4. \A p \in Ids : Live(p)' => p \notin uncertain \/ (Live(p) /\ tasks'[p].unknown = tasks[p].unknown)
    BY <1>5, <2>3 DEF Live
  <2>5. \A p \in uncertain : ~Live(p)' => ~Live(p) /\ service \in {"up", "stopping"}
    BY <1>2, <1>5, <2>3 DEF Live, TypeOK
  <2> QED BY <1>1, <1>2, <1>3, <2>1, <2>2, <2>4, <2>5, UncertainKept
<1> QED BY <1>7, <1>8, <1>9, <1>10, <1>11, <1>12, <1>13, <1>14

\* A task is told to stop, or that its time is over, and stays where it is.
LEMMA TaskFlagged ==
  ASSUME IInv, NEW o \in Ids, Live(o), NEW t \in Task,
         t.pc = tasks[o].pc, t.step = tasks[o].step, t.copy = tasks[o].copy,
         t.unknown = tasks[o].unknown, t.result = tasks[o].result, tasks[o].cancel => t.cancel,
         tasks' = [tasks EXCEPT ![o] = t],
         operations' \in Seq(Operation), Len(operations') = Len(operations),
         \A p \in 1..Len(operations) : /\ operations'[p].request = operations[p].request
                                       /\ operations'[p].state = operations[p].state,
         UNCHANGED <<requests, journal, report, service, submitting, finalizing, begun, uncertain>>,
         service # "down"
  PROVE  /\ tasks' \in [Ids -> Task \cup {None}] /\ tasks'[o] = t /\ t # None
         /\ \A p \in Ids : Live(p)' <=> Live(p)
         /\ SubmitSound' /\ FinalSound' /\ BegunSound' /\ LockSound'
         /\ \A p \in Ids : TaskSound(p)'
         /\ UncertainSound' /\ MutatingSound' /\ ReportSound'
<1> USE DEF IInv
<1>1. t # None
  BY NoneAssumption
<1>2. /\ tasks' \in [Ids -> Task \cup {None}] /\ tasks'[o] = t
      /\ \A p \in Ids : p # o => tasks'[p] = tasks[p]
  BY OneTask
<1>3. \A p \in Ids : Live(p)' <=> Live(p)
  BY <1>1, <1>2 DEF Live
<1>4. Len(operations) \in Nat
  BY LengthTyped
<1>5. SubmitSound' /\ FinalSound' /\ BegunSound' /\ ReportSound'
  <2>1. submitting # 0 => submitting \in Ids /\ submitting \in 1..Len(operations)
    BY <1>4 DEF SubmitSound, TypeOK, Ids
  <2>2. SubmitSound'
    BY <1>3, <2>1 DEF SubmitSound, Request
  <2>3. finalizing # None => finalizing.by \in Ids \cup {0}
    BY DEF TypeOK, Finalization
  <2>4. FinalSound'
    BY <1>2, <1>3, <2>3 DEF FinalSound
  <2> QED BY <2>2, <2>4 DEF BegunSound, ReportSound
<1>6. LockSound'
  BY <1>2, <1>3, LockFrame
<1>7. ASSUME NEW p \in Ids PROVE TaskSound(p)'
  <2> SUFFICES ASSUME Live(p)' PROVE TaskSound(p)'
    BY DEF TaskSound
  <2>1. Live(p) /\ p \in 1..Len(operations)
    BY <1>3 DEF TaskSound, Ids
  <2>2. /\ Request(p)' = Request(p) /\ Steps(p)' = Steps(p) /\ RunOf(p)' = RunOf(p)
        /\ tasks'[p].pc = tasks[p].pc /\ tasks'[p].step = tasks[p].step /\ tasks'[p].copy = tasks[p].copy
        /\ tasks'[p].result = tasks[p].result /\ (tasks[p].cancel => tasks'[p].cancel)
    BY <1>2, <2>1 DEF Request, Steps, RunOf
  <2>3. tasks[p].pc = "act" => ActSound(p)'
    BY <2>1, <2>2 DEF TaskSound, ActSound
  <2> QED BY <2>1, <2>2, <2>3 DEF TaskSound
<1>8. MutatingSound'
  BY <1>2, <1>3, <1>4, MutatingFrame
<1>9. UncertainSound'
  <2>1. \A r \in Runs : ~Held(r) => ~Held(r)'
    BY <1>2, <1>3, <1>4, HeldFrame
  <2>2. \A r \in Runs : Wrecked(r)' = Wrecked(r)
    BY DEF Wrecked
  <2>3. \A p \in Ids : Live(p)' => Live(p) /\ tasks'[p].unknown = tasks[p].unknown
    BY <1>2, <1>3
  <2>4. \A p \in uncertain : ~Live(p)' => \/ ~Live(p) /\ service \in {"up", "stopping"}
                                          \/ service' \in {"down", "recovering"}
    BY <1>3 DEF TypeOK
  <2> QED BY <1>4, <2>1, <2>2, <2>3, <2>4, UncertainKept
<1> QED BY <1>1, <1>2, <1>3, <1>5, <1>6, <1>7, <1>8, <1>9

LEMMA CancelKeeps == ASSUME IInv, NEW o \in Ids, Cancel(o) PROVE IInv'
<1> DEFINE t == [tasks[o] EXCEPT !.cancel = TRUE]
           op == [operations[o] EXCEPT !.cancelRequested = TRUE]
<1>1. /\ service = "up" /\ submitting = 0 /\ finalizing = None /\ Open(o) /\ Live(o)
      /\ operations' = [operations EXCEPT ![o] = op] /\ tasks' = [tasks EXCEPT ![o] = t]
      /\ cancelling' = o
      /\ UNCHANGED <<requests, journal, report, pending, service, submitting, finalizing,
                     begun, uncertain, crashes>>
  BY DEF Cancel, Serving, Idle
<1>2. TypeOK /\ o \in 1..Len(operations)
  BY <1>1 DEF IInv, Open, Ids
<1>3. operations[o] \in Operation
  BY <1>2, OperationTyped
<1>4. op \in Operation /\ op.request = Request(o) /\ op.state = operations[o].state
  BY <1>3 DEF Operation, Request
<1>5. tasks[o] \in Task
  BY <1>1, <1>2, TaskTyped
<1>6. /\ t \in Task /\ t.pc = tasks[o].pc /\ t.step = tasks[o].step /\ t.copy = tasks[o].copy
      /\ t.unknown = tasks[o].unknown /\ t.result = tasks[o].result /\ t.cancel
  BY <1>5 DEF Task
<1> HIDE DEF t, op
<1>7. /\ operations' \in Seq(Operation) /\ Len(operations') = Len(operations)
      /\ \A p \in 1..Len(operations) : /\ operations'[p].request = operations[p].request
                                       /\ operations'[p].state = operations[p].state
  <2>1. /\ operations' \in Seq(Operation) /\ Len(operations') = Len(operations)
        /\ operations'[o] = op
        /\ \A p \in 1..Len(operations) : /\ operations'[p].request = operations[p].request
                                         /\ p # o => operations'[p] = operations[p]
    BY <1>1, <1>2, <1>4, OperationSet
  <2> QED BY <1>4, <2>1
<1>8. /\ tasks' \in [Ids -> Task \cup {None}] /\ tasks'[o] = t /\ t # None
      /\ SubmitSound' /\ FinalSound' /\ BegunSound' /\ LockSound'
      /\ \A p \in Ids : TaskSound(p)'
      /\ UncertainSound' /\ MutatingSound' /\ ReportSound'
  BY <1>1, <1>6, <1>7, TaskFlagged
<1>9. TypeOK'
  BY <1>1, <1>2, <1>7, <1>8 DEF TypeOK
<1>10. ServiceSound'
  BY <1>1, <1>6, <1>8 DEF ServiceSound, IInv
<1> QED BY <1>8, <1>9, <1>10 DEF IInv

LEMMA DeadlinePassesKeeps == ASSUME IInv, NEW o \in Ids, DeadlinePasses(o) PROVE IInv'
<1> DEFINE t == [tasks[o] EXCEPT !.expired = TRUE]
<1>1. /\ Live(o) /\ tasks' = [tasks EXCEPT ![o] = t]
      /\ UNCHANGED <<operations, requests, journal, report, pending, service, submitting, cancelling,
                     finalizing, begun, uncertain, crashes>>
  BY DEF DeadlinePasses, disk
<1>2. TypeOK /\ operations \in Seq(Operation) /\ service # "down"
  BY <1>1 DEF IInv, TypeOK, ServiceSound
<1>3. tasks[o] \in Task
  BY <1>1, <1>2, TaskTyped
<1>4. /\ t \in Task /\ t.pc = tasks[o].pc /\ t.step = tasks[o].step /\ t.copy = tasks[o].copy
      /\ t.unknown = tasks[o].unknown /\ t.result = tasks[o].result /\ t.cancel = tasks[o].cancel
  BY <1>3 DEF Task
<1> HIDE DEF t
<1>5. /\ tasks' \in [Ids -> Task \cup {None}] /\ tasks'[o] = t /\ t # None
      /\ \A p \in Ids : Live(p)' <=> Live(p)
      /\ SubmitSound' /\ FinalSound' /\ BegunSound' /\ LockSound'
      /\ \A p \in Ids : TaskSound(p)'
      /\ UncertainSound' /\ MutatingSound' /\ ReportSound'
  BY <1>1, <1>2, <1>4, TaskFlagged
<1>6. TypeOK'
  BY <1>1, <1>2, <1>5 DEF TypeOK
<1>7. ServiceSound'
  <2>1. \A p \in Ids : p # o => tasks'[p] = tasks[p]
    BY <1>1, <1>2, <1>4, OneTask
  <2>2. cancelling \in Ids \cup {0}
    BY <1>2 DEF TypeOK
  <2> QED BY <1>1, <1>4, <1>5, <2>1, <2>2 DEF ServiceSound, IInv
<1> QED BY <1>5, <1>6, <1>7 DEF IInv

-------------------------------------------------------------------------------
(* The task of an operation *)

\* What the rest of the service keeps while one task takes a turn.
LEMMA RestStays ==
  ASSUME IInv, NEW o \in Ids, Live(o),
         \A p \in Ids : p # o => tasks'[p] = tasks[p],
         Live(o)' => tasks'[o].cancel = tasks[o].cancel,
         operations' \in Seq(Operation), Len(operations') = Len(operations),
         \A p \in 1..Len(operations) : /\ operations'[p].request = operations[p].request
                                       /\ p # o => operations'[p] = operations[p],
         UNCHANGED <<requests, service, submitting, cancelling, finalizing>>,
         finalizing = None \/ (journal' = journal /\ tasks[o].pc # "finalize")
  PROVE  ServiceSound' /\ SubmitSound' /\ FinalSound'
<1> USE DEF IInv
<1>1. \A p \in Ids : Live(p)' => Live(p)
  BY DEF Live
<1>2. ServiceSound'
  BY <1>1 DEF ServiceSound, TypeOK
<1>3. SubmitSound'
  <2> SUFFICES ASSUME submitting # 0 PROVE SubmitSound'
    BY DEF SubmitSound
  <2>1. submitting \in Ids /\ submitting # o /\ submitting \in 1..Len(operations)
    BY LengthTyped DEF SubmitSound, TypeOK, Ids
  <2> QED BY <1>1, <2>1 DEF SubmitSound, Request
<1>4. FinalSound'
  <2> SUFFICES ASSUME finalizing # None PROVE FinalSound'
    BY DEF FinalSound
  <2>1. journal' = journal /\ finalizing \in Finalization /\ finalizing.by \in Ids \cup {0}
    BY DEF TypeOK, Finalization
  <2> QED BY <2>1 DEF FinalSound, Live
<1> QED BY <1>2, <1>3, <1>4

\* A task ends and leaves everything on the disk as it is.
LEMMA TaskQuits ==
  ASSUME IInv, NEW o \in Ids, Live(o), tasks[o].pc # "finalize" \/ finalizing = None,
         NEW result \in FinalStates, tasks' = [tasks EXCEPT ![o] = End(o, result)],
         UNCHANGED <<operations, requests, journal, report, pending, service, submitting, cancelling,
                     finalizing, begun, uncertain, crashes>>
  PROVE  IInv'
<1> USE DEF IInv
<1> DEFINE t == End(o, result)
<1>1. /\ t \in Task /\ t # None /\ t.pc = "end" /\ t.result # None
      /\ t.step = tasks[o].step /\ t.cancel = tasks[o].cancel /\ t.unknown = tasks[o].unknown
  BY EndTyped
<1> HIDE DEF t
<1>2. /\ tasks' \in [Ids -> Task \cup {None}] /\ tasks'[o] = t
      /\ \A p \in Ids : p # o => tasks'[p] = tasks[p]
      /\ \A p \in Ids : TaskSound(p)'
      /\ LockSound' /\ MutatingSound'
      /\ \A r \in Runs : ~Held(r) => ~Held(r)'
  <2>1. tasks' = [tasks EXCEPT ![o] = t]
    BY DEF t
  <2> QED BY <1>1, <2>1, TaskEnds
<1>3. TypeOK'
  BY <1>2 DEF TypeOK
<1>4. ServiceSound' /\ SubmitSound' /\ FinalSound'
  BY <1>1, <1>2, RestStays DEF TypeOK
<1>5. UncertainSound'
  <2>1. \A r \in Runs : Wrecked(r)' = Wrecked(r)
    BY DEF Wrecked
  <2>2. service \in {"up", "stopping"} /\ Len(operations) \in Nat
    BY LengthTyped DEF ServiceSound, TypeOK
  <2>3. \A p \in Ids : /\ Live(p)' => Live(p) /\ tasks'[p].unknown = tasks[p].unknown
                       /\ ~Live(p)' => ~Live(p)
    BY <1>1, <1>2 DEF Live
  <2>4. \A p \in uncertain : ~Live(p)' => ~Live(p) /\ service \in {"up", "stopping"}
    BY <2>2, <2>3 DEF TypeOK
  <2> QED BY <1>2, <2>1, <2>2, <2>3, <2>4, UncertainKept
<1>6. BegunSound' /\ ReportSound'
  BY DEF BegunSound, ReportSound
<1> QED BY <1>2, <1>3, <1>4, <1>5, <1>6

LEMMA RefuseStepKeeps == ASSUME IInv, NEW o \in Ids, RefuseStep(o) PROVE IInv'
BY TaskQuits DEF RefuseStep, FinalStates, disk

\* A task goes on and only its operation changes, to "running".
LEMMA TaskGoesOn ==
  ASSUME IInv, NEW o \in Ids, Live(o), tasks[o].pc \in {"queued", "next"},
         \A p \in Ids \ {o} : Live(p) => tasks[p].pc \in {"queued", "end"},
         NEW n \in Nat, n > tasks[o].step,
         tasks' = [tasks EXCEPT ![o] = Continue(o, n)],
         \/ /\ operations' = operations
            /\ tasks[o].pc = "next"
         \/ /\ operations' = [operations EXCEPT ![o].state = "running"]
            /\ ~tasks[o].cancel,
         UNCHANGED <<requests, journal, report, pending, service, submitting, cancelling,
                     finalizing, begun, uncertain, crashes>>
  PROVE  IInv'
<1> USE DEF IInv
<1>1. o \in 1..Len(operations) /\ Len(operations) \in Nat
  BY LengthTyped DEF TaskSound, Ids
<1>2. operations[o] \in Operation
  BY <1>1, OperationTyped
<1> DEFINE op == [operations[o] EXCEPT !.state = "running"]
<1>3. op \in Operation /\ op.request = Request(o) /\ op.state = "running"
  BY <1>2 DEF Operation, OpenStates, Request
<1>4. \/ operations' = [operations EXCEPT ![o] = op]
      \/ operations' = operations /\ tasks[o].pc = "next"
  <2>1. [operations EXCEPT ![o].state = "running"] = [operations EXCEPT ![o] = op]
    OBVIOUS
  <2> QED BY <2>1
<1> HIDE DEF op
<1>5. /\ operations' \in Seq(Operation) /\ Len(operations') = Len(operations)
      /\ \A p \in 1..Len(operations) : /\ operations'[p].request = operations[p].request
                                       /\ p # o => operations'[p] = operations[p]
      /\ operations'[o] = op \/ (operations'[o] = operations[o] /\ tasks[o].pc = "next")
  <2>1. CASE operations' = [operations EXCEPT ![o] = op]
    <3>1. /\ operations' \in Seq(Operation) /\ Len(operations') = Len(operations)
          /\ operations'[o] = op
          /\ \A p \in 1..Len(operations) : /\ operations'[p].request = operations[p].request
                                           /\ p # o => operations'[p] = operations[p]
      BY <1>1, <1>3, <2>1, OperationSet
    <3> QED BY <3>1
  <2>2. CASE operations' = operations /\ tasks[o].pc = "next"
    BY <2>2 DEF TypeOK
  <2> QED BY <1>4, <2>1, <2>2
<1>6. operations'[o].state # "queued" /\ (operations'[o].state \in FinalStates => tasks[o].cancel)
  BY <1>3, <1>5 DEF TaskSound, FinalStates
<1>7. /\ tasks' \in [Ids -> Task \cup {None}] /\ tasks'[o] = Continue(o, n)
      /\ \A p \in Ids : p # o => tasks'[p] = tasks[p]
      /\ \A p \in Ids : TaskSound(p)'
      /\ LockSound' /\ MutatingSound'
      /\ \A r \in Runs : ~Held(r) /\ (journal[r] = None \/ journal[r].state \notin Appendable) => ~Held(r)'
  BY <1>5, <1>6, TaskContinues
<1>8. LET t == Continue(o, n) IN t # None /\ t.cancel = tasks[o].cancel /\ t.unknown = tasks[o].unknown
  BY <1>1, ContinueTyped
<1>9. TypeOK'
  BY <1>5, <1>7 DEF TypeOK
<1>10. ServiceSound' /\ SubmitSound' /\ FinalSound'
  BY <1>5, <1>7, <1>8, RestStays
<1>11. UncertainSound'
  <2>1. \A r \in Runs : Wrecked(r) /\ ~Held(r) => Wrecked(r)' /\ ~Held(r)'
    BY <1>7 DEF Wrecked, Appendable
  <2>2. service \in {"up", "stopping"}
    BY DEF ServiceSound, TypeOK
  <2>3. \A p \in Ids : /\ Live(p)' => Live(p) /\ tasks'[p].unknown = tasks[p].unknown
                       /\ ~Live(p)' => ~Live(p)
    BY <1>7, <1>8 DEF Live
  <2>4. \A p \in uncertain : ~Live(p)' => ~Live(p) /\ service \in {"up", "stopping"}
    BY <2>2, <2>3 DEF TypeOK
  <2>5. o \in uncertain => operations'[o].state \in {operations[o].state, "unknown"}
    <3> SUFFICES ASSUME o \in uncertain, operations'[o] = op, ~tasks[o].cancel
                 PROVE operations'[o].state = operations[o].state
      BY <1>4, <1>5 DEF op
    <3>1. operations[o].state \in {"running", "unknown"}
      BY DEF UncertainSound
    <3>2. operations[o].state \notin FinalStates
      BY DEF TaskSound
    <3> QED BY <1>3, <3>1, <3>2 DEF FinalStates
  <2>6. \A p \in 1..Len(operations) :
           /\ operations'[p].request = operations[p].request
           /\ operations'[p].state \in {operations[p].state, "unknown"} \/ p \notin uncertain
    BY <1>5, <2>5
  <2> QED BY <1>1, <1>5, <2>1, <2>2, <2>3, <2>4, <2>6, UncertainKept
<1>12. BegunSound' /\ ReportSound'
  BY DEF BegunSound, ReportSound
<1> QED BY <1>7, <1>9, <1>10, <1>11, <1>12

LEMMA TakeLockKeeps == ASSUME IInv, NEW o \in Ids, TakeLock(o) PROVE IInv'
<1>1. /\ Live(o) /\ tasks[o].pc = "queued" /\ tasks[o].step = 0
      /\ \A p \in Ids \ {o} : Live(p) => tasks[p].pc \in {"queued", "end"}
      /\ UNCHANGED <<requests, journal, report, pending, service, submitting, cancelling, finalizing,
                     begun, uncertain, crashes>>
  BY DEF TakeLock, IInv, TaskSound
<1>2. CASE Stopped(o)
  BY <1>1, <1>2, TaskQuits DEF TakeLock, FinalStates
<1>3. CASE ~Stopped(o)
  <2>1. /\ ~tasks[o].cancel /\ operations' = [operations EXCEPT ![o].state = "running"]
        /\ tasks' = [tasks EXCEPT ![o] = Continue(o, 1)] /\ 1 \in Nat /\ 1 > tasks[o].step
    BY <1>1, <1>3 DEF TakeLock, Stopped
  <2> QED BY <1>1, <2>1, TaskGoesOn
<1> QED BY <1>2, <1>3

LEMMA NextStepKeeps == ASSUME IInv, NEW o \in Ids, NextStep(o) PROVE IInv'
<1>1. Live(o) /\ tasks[o].pc = "next" /\ UNCHANGED <<operations, requests, journal, report, pending,
        service, submitting, cancelling, finalizing, begun, uncertain, crashes>>
  BY DEF NextStep, disk
<1>2. \A p \in Ids \ {o} : Live(p) => tasks[p].pc \in {"queued", "end"}
  BY <1>1 DEF IInv, LockSound
<1>3. o \in 1..Len(operations) /\ tasks[o].step \in DOMAIN Steps(o)
  BY <1>1 DEF IInv, TaskSound, Ids
<1>4. Steps(o) \in Seq(Action)
  BY <1>3, OperationTyped DEF IInv
<1>5. tasks[o].step \in 1..Len(Steps(o)) /\ Len(Steps(o)) \in Nat
  BY <1>3, <1>4, LenProperties
<1>6. PICK n \in {tasks[o].step + 1, Len(Steps(o)) + 1} : tasks' = [tasks EXCEPT ![o] = Continue(o, n)]
  BY DEF NextStep
<1>7. n \in Nat /\ n > tasks[o].step
  BY <1>5
<1> QED BY <1>1, <1>2, <1>6, <1>7, TaskGoesOn

LEMMA CancelReturnsKeeps == ASSUME IInv, CancelReturns PROVE IInv'
<1> USE DEF IInv
<1>0. PICK o \in Ids : o = cancelling
  BY DEF CancelReturns, TypeOK, Ids
<1>1. /\ o # 0 /\ cancelling' = 0 /\ submitting = 0 /\ finalizing = None /\ service \in {"up", "stopping"}
      /\ UNCHANGED <<requests, journal, report, pending, service, tasks, submitting, finalizing,
                     begun, uncertain, crashes>>
  BY <1>0 DEF CancelReturns, Idle
<1>2. Live(o) => tasks[o].cancel
  BY <1>0, <1>1 DEF ServiceSound
<1>3. Len(operations) \in Nat /\ operations \in Seq(Operation)
  BY LengthTyped DEF TypeOK
<1> DEFINE lost == Mutating(o) \/ (Live(o) /\ tasks[o].unknown)
           s == IF lost THEN "unknown" ELSE "cancelled"
           op == [operations[o] EXCEPT !.state = s]
<1>4. operations' = IF Open(o) THEN [operations EXCEPT ![o] = op] ELSE operations
  <2>1. operations' = IF Open(o) THEN [operations EXCEPT ![o].state = s] ELSE operations
    BY <1>0 DEF CancelReturns
  <2>2. [operations EXCEPT ![o].state = s] = [operations EXCEPT ![o] = op]
    OBVIOUS
  <2> QED BY <2>1, <2>2
<1>5. /\ operations' \in Seq(Operation) /\ Len(operations') = Len(operations)
      /\ \A p \in 1..Len(operations) : /\ operations'[p].request = operations[p].request
                                       /\ p # o => operations'[p] = operations[p]
      /\ Open(o) => operations'[o].state = s
      /\ ~Open(o) => operations'[o] = operations[o]
  <2>1. CASE Open(o)
    <3>1. o \in 1..Len(operations)
      BY <2>1 DEF Open, Ids
    <3>2. operations[o] \in Operation
      BY <3>1, OperationTyped
    <3>3. op \in Operation /\ op.request = Request(o) /\ op.state = s
      BY <3>2 DEF Operation, FinalStates, Request
    <3> HIDE DEF op, s
    <3>4. /\ operations' \in Seq(Operation) /\ Len(operations') = Len(operations)
          /\ operations'[o] = op
          /\ \A p \in 1..Len(operations) : /\ operations'[p].request = operations[p].request
                                           /\ p # o => operations'[p] = operations[p]
      BY <1>4, <2>1, <3>1, <3>3, OperationSet
    <3> QED BY <2>1, <3>3, <3>4
  <2>2. CASE ~Open(o)
    BY <1>3, <1>4, <2>2
  <2> QED BY <2>1, <2>2
<1>6. TypeOK'
  BY <1>1, <1>5 DEF TypeOK
<1>7. ServiceSound' /\ SubmitSound' /\ FinalSound' /\ BegunSound' /\ ReportSound' /\ LockSound'
  BY <1>1 DEF ServiceSound, SubmitSound, FinalSound, BegunSound, ReportSound, LockSound, Live
<1>8. ASSUME NEW p \in Ids PROVE TaskSound(p)'
  <2>1. CASE p = o /\ Open(o)
    <3> SUFFICES ASSUME Live(o)' PROVE TaskSound(o)'
      BY <2>1 DEF TaskSound
    <3>1. Live(o) /\ o \in 1..Len(operations)
      BY <1>1 DEF Live, TaskSound, Ids
    <3>2. Request(o)' = Request(o) /\ Steps(o)' = Steps(o) /\ RunOf(o)' = RunOf(o)
      BY <1>5, <3>1 DEF Request, Steps, RunOf
    <3>3. tasks[o].pc = "act" => ActSound(o)'
      BY <1>1, <3>1, <3>2 DEF TaskSound, ActSound
    <3>4. operations'[o].state # "queued"
      BY <1>5, <2>1
    <3> QED BY <1>1, <1>2, <1>5, <3>1, <3>2, <3>3, <3>4 DEF TaskSound
  <2>2. CASE ~(p = o /\ Open(o))
    <3>1. p <= Len(operations) => operations'[p] = operations[p]
      BY <1>3, <1>5, <2>2 DEF Ids
    <3>2. requests' = requests /\ begun' = begun /\ journal' = journal /\ tasks'[p] = tasks[p]
      BY <1>1
    <3> QED BY <1>3, <1>5, <3>1, <3>2, TaskFrame
  <2> QED BY <2>1, <2>2
<1>9. MutatingSound'
  <2>1. Open(o) => operations'[o].state = "unknown" \/ ~Mutating(o)
    BY <1>5
  <2>2. \A p \in 1..Len(operations) : operations'[p].state \in {operations[p].state, "unknown"} \/ ~Mutating(p)
    BY <1>5, <2>1
  <2> QED BY <1>1, <1>3, <1>5, <2>2, MutatingFrame DEF Live
<1>10. UncertainSound'
  <2>1. \A r \in Runs : ~Held(r) => ~Held(r)'
    BY <1>1, <1>3, <1>5, HeldFrame DEF Live
  <2>2. \A r \in Runs : Wrecked(r)' = Wrecked(r)
    BY <1>1 DEF Wrecked
  <2>3. o \in uncertain /\ Open(o) => operations'[o].state = "unknown"
    BY <1>1, <1>5 DEF UncertainSound, Open, OpenStates
  <2>4. \A p \in 1..Len(operations) :
          operations'[p].state \in {operations[p].state, "unknown"} \/ p \notin uncertain
    BY <1>5, <2>3
  <2>5. \A p \in uncertain : ~Live(p)' => ~Live(p) /\ service \in {"up", "stopping"}
    BY <1>1 DEF Live
  <2> QED BY <1>1, <1>3, <1>5, <2>1, <2>2, <2>4, <2>5, UncertainKept DEF Live
<1> QED BY <1>6, <1>7, <1>8, <1>9, <1>10

LEMMA EndTaskKeeps == ASSUME IInv, NEW o \in Ids, EndTask(o) PROVE IInv'
<1> USE DEF IInv
<1>1. /\ Live(o) /\ tasks[o].pc = "end" /\ tasks' = [tasks EXCEPT ![o] = None]
      /\ service \in {"up", "stopping"}
      /\ UNCHANGED <<requests, journal, report, pending, service, submitting, cancelling, finalizing,
                     begun, uncertain, crashes>>
  BY DEF EndTask, ServiceSound, TypeOK
<1>2. /\ tasks' \in [Ids -> Task \cup {None}] /\ tasks'[o] = None
      /\ \A p \in Ids : p # o => tasks'[p] = tasks[p]
  BY <1>1, OneTask
<1>3. Len(operations) \in Nat /\ operations \in Seq(Operation) /\ o \in 1..Len(operations)
  BY <1>1, LengthTyped DEF TypeOK, TaskSound, Ids
<1>4. operations[o] \in Operation
  BY <1>3, OperationTyped
<1>5. Verdict(o) \in FinalStates
  <2>1. tasks[o] \in Task /\ tasks[o].result # None
    BY <1>1, TaskTyped DEF TaskSound
  <2> QED BY <2>1 DEF Verdict, Task, FinalStates
<1> DEFINE op == [operations[o] EXCEPT !.state = Verdict(o)]
<1>6. operations' = IF Open(o) THEN [operations EXCEPT ![o] = op] ELSE operations
  <2>1. [operations EXCEPT ![o].state = Verdict(o)] = [operations EXCEPT ![o] = op]
    OBVIOUS
  <2> QED BY <2>1 DEF EndTask
<1>7. op \in Operation /\ op.request = Request(o) /\ op.state = Verdict(o)
  BY <1>4, <1>5 DEF Operation, Request
<1> HIDE DEF op
<1>8. /\ operations' \in Seq(Operation) /\ Len(operations') = Len(operations)
      /\ \A p \in 1..Len(operations) : /\ operations'[p].request = operations[p].request
                                       /\ p # o => operations'[p] = operations[p]
      /\ Open(o) => operations'[o].state = Verdict(o)
      /\ ~Open(o) => operations'[o] = operations[o]
  <2>1. CASE Open(o)
    <3>1. /\ operations' \in Seq(Operation) /\ Len(operations') = Len(operations)
          /\ operations'[o] = op
          /\ \A p \in 1..Len(operations) : /\ operations'[p].request = operations[p].request
                                           /\ p # o => operations'[p] = operations[p]
      BY <1>3, <1>6, <1>7, <2>1, OperationSet
    <3> QED BY <1>7, <2>1, <3>1
  <2>2. CASE ~Open(o)
    BY <1>3, <1>6, <2>2
  <2> QED BY <2>1, <2>2
<1>9. TypeOK'
  BY <1>1, <1>2, <1>8 DEF TypeOK
<1>10. ServiceSound' /\ SubmitSound' /\ FinalSound'
  BY <1>1, <1>2, <1>8, RestStays DEF Live
<1>11. BegunSound' /\ ReportSound' /\ LockSound'
  BY <1>1, <1>2 DEF BegunSound, ReportSound, LockSound, Live
<1>12. ASSUME NEW p \in Ids PROVE TaskSound(p)'
  <2>1. CASE p = o
    BY <1>2, <2>1 DEF TaskSound, Live
  <2>2. CASE p # o
    <3>1. p <= Len(operations) => operations'[p] = operations[p]
      BY <1>3, <1>8, <2>2 DEF Ids
    <3>2. requests' = requests /\ begun' = begun /\ journal' = journal /\ tasks'[p] = tasks[p]
      BY <1>1, <1>2, <2>2
    <3> QED BY <1>3, <1>8, <3>1, <3>2, TaskFrame
  <2> QED BY <2>1, <2>2
<1>13. MutatingSound'
  <2>1. ~Mutating(o)
    BY <1>1 DEF Mutating
  <2> QED BY <1>2, <1>3, <1>8, <2>1, MutatingFrame DEF Live
<1>14. UncertainSound'
  <2>1. \A r \in Runs : ~Held(r) => ~Held(r)'
    BY <1>2, <1>3, <1>8, HeldFrame DEF Live
  <2>2. \A r \in Runs : Wrecked(r)' = Wrecked(r)
    BY <1>1 DEF Wrecked
  <2>3. o \in uncertain => operations'[o].state = "unknown"
    BY <1>1, <1>3, <1>8 DEF UncertainSound, Open, OpenStates, Verdict
  <2>4. \A p \in 1..Len(operations) :
          operations'[p].state \in {operations[p].state, "unknown"} \/ p \notin uncertain
    BY <1>8, <2>3
  <2>5. \A p \in uncertain : ~Live(p)' => \/ ~Live(p) /\ service \in {"up", "stopping"}
                                          \/ operations'[p].state = "unknown"
    BY <1>1, <1>2, <2>3 DEF Live, TypeOK
  <2>6. \A p \in Ids : Live(p)' => Live(p) /\ tasks'[p].unknown = tasks[p].unknown
    BY <1>2 DEF Live
  <2> QED BY <1>1, <1>3, <1>8, <2>1, <2>2, <2>4, <2>5, <2>6, UncertainKept
<1> QED BY <1>9, <1>10, <1>11, <1>12, <1>13, <1>14

-------------------------------------------------------------------------------
(* The steps of a workflow *)

LEMMA BeginStepKeeps == ASSUME IInv, NEW o \in Ids, NEW late \in BOOLEAN, BeginStep(o, late) PROVE IInv'
<1> USE DEF IInv
<1>0. PICK r, q, n : r = RunOf(o) /\ q = Request(o) /\ n = tasks[o].step
  OBVIOUS
<1> DEFINE action == Steps(o)[n]
           saved == [state |-> "running",
                     steps |-> Append(tasks[o].copy.steps, [action |-> action, status |-> "running"])]
           t == IF late THEN [End(o, "failed") EXCEPT !.expired = TRUE]
                ELSE [tasks[o] EXCEPT !.pc = "act", !.copy = saved]
<1>1. /\ Live(o) /\ tasks[o].pc = "status" /\ ~tasks[o].cancel
      /\ submitting = 0 /\ finalizing = None /\ service \in {"up", "stopping"}
      /\ journal' = [journal EXCEPT ![r] = saved] /\ tasks' = [tasks EXCEPT ![o] = t]
      /\ begun' = IF late THEN begun ELSE [begun EXCEPT ![q][n] = @ + 1]
      /\ UNCHANGED <<operations, requests, report, pending, service, submitting, cancelling, finalizing,
                     uncertain, crashes>>
  BY <1>0 DEF BeginStep, Idle, Stopped, Request, RunOf
<1>2. /\ o \in 1..Len(operations) /\ Len(operations) \in Nat /\ operations \in Seq(Operation)
      /\ r \in Runs /\ q \in Requests /\ Steps(o) \in Seq(Action)
      /\ requests[q] = o /\ n \in DOMAIN Steps(o) /\ n \in Nat /\ DOMAIN Steps(o) = DOMAIN Payload[q].steps
  <2>1. o \in 1..Len(operations) /\ requests[q] = o /\ n \in DOMAIN Steps(o)
    BY <1>0, <1>1 DEF TaskSound, Ids
  <2>2. r \in Runs /\ q \in Requests /\ Steps(o) \in Seq(Action) /\ Steps(o) = Payload[q].steps
    BY <1>0, <2>1, OperationTyped DEF Steps, Request
  <2>3. n \in Nat
    BY <1>0, <1>1, TaskTyped DEF Task
  <2> QED BY <2>1, <2>2, <2>3, LengthTyped DEF TypeOK
<1>3. /\ saved \in Journal /\ saved # None /\ saved.state = "running" /\ saved.steps # <<>>
      /\ saved.steps[Len(saved.steps)] = [action |-> action, status |-> "running"]
  <2>1. tasks[o].copy \in Journal
    <3>1. tasks[o] \in Task /\ tasks[o].copy # None
      BY <1>1, TaskTyped DEF TaskSound
    <3> QED BY <3>1 DEF Task
  <2>2. tasks[o].copy.steps \in Seq(Step)
    BY <2>1 DEF Journal
  <2>3. action \in Action
    BY <1>2, ElementOfSeq, LenProperties
  <2> HIDE DEF action
  <2>4. /\ saved.steps \in Seq(Step) /\ saved.steps # <<>>
        /\ saved.steps[Len(saved.steps)] = [action |-> action, status |-> "running"]
    BY <2>2, <2>3, BegunTyped
  <2>5. saved \in Journal
    BY <2>4 DEF Journal, Appendable
  <2>6. saved # None
    BY <2>5, NoneAssumption
  <2> QED BY <2>4, <2>5, <2>6
<1> HIDE DEF saved
<1>4. /\ t \in Task /\ t # None /\ t.step = n /\ t.cancel = tasks[o].cancel /\ t.unknown = tasks[o].unknown
      /\ late => t.pc = "end" /\ t.result # None
      /\ ~late => t.pc = "act" /\ t.copy = saved
  <2>1. CASE late
    <3>1. LET e == End(o, "failed")
          IN /\ e \in Task /\ e.pc = "end" /\ e.result = "failed" /\ e.result # None
             /\ e.step = tasks[o].step /\ e.cancel = tasks[o].cancel /\ e.unknown = tasks[o].unknown
      BY <1>1, EndTyped DEF FinalStates
    <3>2. t = [End(o, "failed") EXCEPT !.expired = TRUE]
      BY <2>1
    <3> HIDE DEF t
    <3>3. t \in Task /\ t.step = n /\ t.cancel = tasks[o].cancel /\ t.unknown = tasks[o].unknown
          /\ t.pc = "end" /\ t.result # None
      BY <1>0, <3>1, <3>2 DEF Task
    <3> QED BY <2>1, <3>3, NoneAssumption
  <2>2. CASE ~late
    <3>1. tasks[o] \in Task
      BY <1>1, TaskTyped
    <3>2. t = [tasks[o] EXCEPT !.pc = "act", !.copy = saved]
      BY <2>2
    <3> HIDE DEF t
    <3>3. t \in Task /\ t.step = n /\ t.cancel = tasks[o].cancel /\ t.unknown = tasks[o].unknown
          /\ t.pc = "act" /\ t.copy = saved
      BY <1>0, <1>3, <3>1, <3>2 DEF Task
    <3> QED BY <2>2, <3>3, NoneAssumption
  <2> QED BY <2>1, <2>2
<1> HIDE DEF t
<1>5. /\ tasks' \in [Ids -> Task \cup {None}] /\ tasks'[o] = t
      /\ \A p \in Ids : p # o => tasks'[p] = tasks[p]
  BY <1>1, <1>4, OneTask
<1>6. /\ journal' \in [Runs -> Journal \cup {None}] /\ journal'[r] = saved
      /\ \A x \in Runs : x # r => journal'[x] = journal[x]
  BY <1>1, <1>2, <1>3 DEF TypeOK
<1>7. /\ begun' = [x \in Requests |-> begun'[x]]
      /\ \A x \in Requests : x # q => begun'[x] = begun[x]
      /\ begun'[q] \in [DOMAIN Payload[q].steps -> Nat]
      /\ \A m \in DOMAIN Payload[q].steps : m # n \/ late => begun'[q][m] = begun[q][m]
      /\ ~late => begun'[q][n] = begun[q][n] + 1
  <2>1. begun = [x \in Requests |-> begun[x]] /\ begun[q] \in [DOMAIN Payload[q].steps -> Nat]
    BY <1>2 DEF BegunSound, TypeOK
  <2>2. CASE late
    BY <1>1, <2>1, <2>2
  <2>3. CASE ~late
    <3> DEFINE b == [begun[q] EXCEPT ![n] = @ + 1]
    <3>1. begun' = [begun EXCEPT ![q] = b]
      BY <1>1, <2>3
    <3>2. b \in [DOMAIN Payload[q].steps -> Nat] /\ b[n] = begun[q][n] + 1
          /\ \A m \in DOMAIN Payload[q].steps : m # n => b[m] = begun[q][m]
      BY <1>2, <2>1
    <3> HIDE DEF b
    <3>3. begun' = [x \in Requests |-> begun'[x]] /\ begun'[q] = b
          /\ \A x \in Requests : x # q => begun'[x] = begun[x]
      BY <1>2, <2>1, <3>1
    <3> QED BY <2>3, <3>2, <3>3
  <2> QED BY <2>2, <2>3
<1>8. begun[q][n] = 0 /\ \A m \in DOMAIN Steps(o) : m > n => begun[q][m] = 0
  BY <1>0, <1>1, <1>2 DEF TaskSound
<1>9. TypeOK'
  BY <1>1, <1>5, <1>6, <1>7 DEF TypeOK
<1>10. ServiceSound' /\ SubmitSound' /\ FinalSound'
  BY <1>1, <1>2, <1>4, <1>5, RestStays
<1>11. BegunSound'
  <2>1. \A m \in DOMAIN Payload[q].steps : begun'[q][m] <= 1 /\ (begun'[q][m] # 0 => requests[q] # 0)
    BY <1>2, <1>7, <1>8 DEF BegunSound, Ids
  <2>2. \A x \in Requests \ {q} : \A m \in DOMAIN Payload[x].steps :
           begun'[x][m] <= 1 /\ (begun'[x][m] # 0 => requests[x] # 0)
    BY <1>7 DEF BegunSound
  <2> QED BY <1>1, <1>7, <2>1, <2>2 DEF BegunSound
<1>12. LockSound'
  BY <1>1, <1>5, LockFrame DEF Live
<1>13. ASSUME NEW p \in Ids PROVE TaskSound(p)'
  <2>1. CASE p = o
    <3>1. Request(o)' = q /\ Steps(o)' = Steps(o) /\ RunOf(o)' = r
      BY <1>0, <1>1 DEF Request, Steps, RunOf
    <3>2. \A m \in DOMAIN Steps(o) : m > n => begun'[q][m] = 0
      BY <1>2, <1>7, <1>8
    <3>3. operations[o].state # "queued" /\ operations[o].state \notin FinalStates
      BY <1>1 DEF TaskSound
    <3>4. ~late => ActSound(o)'
      BY <1>3, <1>4, <1>5, <1>6, <3>1 DEF ActSound
    <3>5. CASE late
      BY <1>1, <1>2, <1>4, <1>5, <2>1, <3>1, <3>2, <3>3, <3>5 DEF TaskSound
    <3>6. CASE ~late
      BY <1>1, <1>2, <1>3, <1>4, <1>5, <2>1, <3>1, <3>2, <3>3, <3>4, <3>6 DEF TaskSound
    <3> QED BY <3>5, <3>6
  <2>2. CASE p # o
    <3>1. Live(p) => begun'[Request(p)] = begun[Request(p)]
      <4> SUFFICES ASSUME Live(p) PROVE begun'[Request(p)] = begun[Request(p)]
        OBVIOUS
      <4>1. p \in 1..Len(operations) /\ requests[Request(p)] = p
        BY DEF TaskSound, Ids
      <4> QED BY <1>2, <1>7, <2>2, <4>1, OperationTyped
    <3>2. ~(Live(p) /\ tasks[p].pc = "act")
      BY <1>1, <2>2 DEF LockSound
    <3>3. requests' = requests /\ operations' = operations /\ tasks'[p] = tasks[p]
      BY <1>1, <1>5, <2>2
    <3> QED BY <1>2, <3>1, <3>2, <3>3, TaskFrame
  <2> QED BY <2>1, <2>2
<1>14. MutatingSound'
  <2>1. operations[o] \in Operation
    BY <1>2, OperationTyped
  <2>2. operations'[o].state = "running"
    BY <1>1, <2>1 DEF TaskSound, Operation, OpenStates
  <2>3. \A p \in Ids : p # o => Mutating(p)' = Mutating(p)
    BY <1>1, <1>5 DEF Mutating, Live, Steps
  <2> QED BY <1>1, <2>2, <2>3 DEF MutatingSound
<1>15. UncertainSound'
  <2>1. Held(r)
    BY <1>0, <1>1 DEF Held
  <2>2. \A x \in Runs : ~Held(x) => ~Held(x)'
    BY <1>1, <1>2, <1>5, HeldFrame DEF Live
  <2>3. \A x \in Runs : Wrecked(x) /\ ~Held(x) => Wrecked(x)' /\ ~Held(x)'
    BY <1>6, <2>1, <2>2 DEF Wrecked
  <2>4. \A p \in Ids : /\ Live(p)' => Live(p) /\ tasks'[p].unknown = tasks[p].unknown
                       /\ ~Live(p)' => ~Live(p)
    BY <1>1, <1>4, <1>5 DEF Live
  <2>5. \A p \in uncertain : ~Live(p)' => ~Live(p) /\ service \in {"up", "stopping"}
    BY <1>1, <2>4 DEF TypeOK
  <2> QED BY <1>1, <1>2, <2>3, <2>4, <2>5, UncertainKept
<1>16. ReportSound'
  BY <1>1, <1>3, <1>6 DEF ReportSound
<1> QED BY <1>9, <1>10, <1>11, <1>12, <1>13, <1>14, <1>15, <1>16

\* A step comes to its end, with a verdict or without: what is saved of it, and what
\* becomes of its task, say the same of its outcome.
LEMMA StepEnds ==
  ASSUME IInv, NEW o \in Ids, Live(o), tasks[o].pc = "act", submitting = 0, finalizing = None,
         NEW verdict \in Statuses \ {"running"},
         NEW interrupted \in BOOLEAN, SaveVerdict(o, verdict, interrupted),
         NEW t \in Task, t.pc \in {"next", "end"}, t.pc = "end" => t.result # None,
         t.step = tasks[o].step, t.cancel = tasks[o].cancel,
         t.unknown = (tasks[o].unknown \/ verdict = "unknown"),
         tasks' = [tasks EXCEPT ![o] = t],
         uncertain' = IF verdict = "unknown" /\ Mutating(o) THEN uncertain \cup {o} ELSE uncertain,
         UNCHANGED <<operations, requests, report, pending, service, submitting, cancelling, finalizing,
                     begun, crashes>>
  PROVE  IInv'
<1> USE DEF IInv
<1>0. PICK r : r = RunOf(o)
  OBVIOUS
<1>1. /\ o \in 1..Len(operations) /\ Len(operations) \in Nat /\ operations \in Seq(Operation)
      /\ r \in Runs /\ ActSound(o) /\ service \in {"up", "stopping"} /\ tasks[o] \in Task
  <2>1. o \in 1..Len(operations) /\ ActSound(o)
    BY DEF TaskSound, Ids
  <2>2. r \in Runs
    BY <1>0, <2>1, OperationTyped
  <2> QED BY <2>1, <2>2, LengthTyped, TaskTyped DEF TypeOK, ServiceSound
<1> DEFINE c == tasks[o].copy
           k == [state |-> IF interrupted \/ verdict = "unknown" THEN "aborted" ELSE c.state,
                 steps |-> [c.steps EXCEPT ![Len(c.steps)].status = verdict]]
<1>2. journal' = [journal EXCEPT ![r] = k]
  BY <1>0 DEF SaveVerdict
<1>3. /\ k \in Journal /\ k # None
      /\ verdict = "unknown" /\ Mutating(o) => k.state = "aborted" /\ Marked(k.steps)
  <2>1. c \in Journal /\ c.steps \in Seq(Step) /\ c.steps # <<>>
    <3>1. c \in Journal
      BY <1>1 DEF ActSound, Task
    <3> QED BY <1>1, <3>1 DEF ActSound, Journal
  <2>2. /\ verdict \in Statuses
        /\ Mutating(o) => c.steps[Len(c.steps)].action.kind = "mutation"
    BY <1>1 DEF ActSound, Mutating
  <2> HIDE DEF c
  <2>3. /\ [c.steps EXCEPT ![Len(c.steps)].status = verdict] \in Seq(Step)
        /\ verdict = "unknown" /\ Mutating(o) => Marked([c.steps EXCEPT ![Len(c.steps)].status = verdict])
    BY <2>1, <2>2, LastTyped
  <2>4. k \in Journal
    BY <2>1, <2>3 DEF Journal, Finished
  <2>5. k # None
    BY <2>4, NoneAssumption
  <2> QED BY <2>3, <2>4, <2>5
<1> HIDE DEF c, k
<1>4. /\ journal' \in [Runs -> Journal \cup {None}] /\ journal'[r] = k
      /\ \A x \in Runs : x # r => journal'[x] = journal[x]
  BY <1>1, <1>2, <1>3 DEF TypeOK
<1>5. /\ tasks' \in [Ids -> Task \cup {None}] /\ tasks'[o] = t /\ t # None
      /\ \A p \in Ids : p # o => tasks'[p] = tasks[p]
  BY OneTask, NoneAssumption
<1>6. TypeOK'
  BY <1>4, <1>5 DEF TypeOK
<1>7. ServiceSound' /\ SubmitSound' /\ FinalSound'
  BY <1>1, <1>5, RestStays
<1>8. BegunSound' /\ ReportSound'
  BY <1>3, <1>4 DEF BegunSound, ReportSound
<1>9. LockSound'
  BY <1>5, LockFrame DEF Live
<1>10. ASSUME NEW p \in Ids, p # o PROVE ~(Live(p) /\ tasks[p].pc \in {"status", "act"})
  BY <1>10 DEF LockSound
<1>11. ASSUME NEW p \in Ids PROVE TaskSound(p)'
  <2>1. CASE p = o
    <3>1. Request(o)' = Request(o) /\ Steps(o)' = Steps(o) /\ requests' = requests /\ begun' = begun
          /\ operations' = operations
      BY DEF Request, Steps
    <3>2. /\ o <= Len(operations) /\ requests[Request(o)] = o /\ tasks[o].step \in DOMAIN Steps(o)
          /\ \A m \in DOMAIN Steps(o) : m > tasks[o].step => begun[Request(o)][m] = 0
          /\ operations[o].state # "queued" /\ (operations[o].state \in FinalStates => tasks[o].cancel)
      BY DEF TaskSound
    <3> QED BY <1>5, <2>1, <3>1, <3>2 DEF TaskSound, Live
  <2>2. CASE p # o
    BY <1>1, <1>5, <1>10, <2>2, TaskFrame
  <2> QED BY <2>1, <2>2
<1>12. MutatingSound'
  BY <1>1, <1>5, MutatingFrame DEF Live
<1>13. UncertainSound'
  <2>1. Held(r) /\ ~Held(r)'
    <3>1. RunOf(o)' = RunOf(o) /\ Held(r)
      BY <1>0 DEF RunOf, Held
    <3>2. \A p \in Ids : ~(Live(p)' /\ tasks'[p].pc \in {"status", "act"})
      BY <1>5, <1>10 DEF Live
    <3> QED BY <3>1, <3>2 DEF Held
  <2>2. \A x \in Runs : ~Held(x) => ~Held(x)'
    BY <1>1, <1>5, HeldFrame DEF Live
  <2>3. ASSUME NEW p \in uncertain, p # o
        PROVE  /\ p <= Len(operations) /\ operations[p].state \in {"running", "unknown"}
               /\ IF Live(p)' THEN tasks'[p].unknown
                              ELSE service \in {"down", "recovering"} \/ operations[p].state = "unknown"
               /\ Doomed(RunOf(p))' /\ ~Held(RunOf(p))'
    <3>1. /\ p \in Ids /\ p <= Len(operations) /\ operations[p].state \in {"running", "unknown"}
          /\ IF Live(p) THEN tasks[p].unknown
                        ELSE service \in {"down", "recovering"} \/ operations[p].state = "unknown"
          /\ Wrecked(RunOf(p)) /\ ~Held(RunOf(p))
      BY <1>1 DEF UncertainSound, Doomed, TypeOK
    <3>2. PICK x \in Runs : x = RunOf(p) /\ x # r
      <4>1. p \in 1..Len(operations)
        BY <3>1 DEF Ids
      <4> QED BY <2>1, <3>1, <4>1, OperationTyped
    <3>3. RunOf(p)' = x
      BY <3>2 DEF RunOf
    <3>4. Wrecked(x)' /\ ~Held(x)'
      BY <1>4, <2>2, <3>1, <3>2 DEF Wrecked
    <3>5. Wrecked(RunOf(p))' /\ ~Held(RunOf(p))'
      BY <3>3, <3>4 DEF Wrecked, Held
    <3> QED BY <1>5, <2>3, <3>1, <3>5 DEF Live, Doomed
  <2>4. CASE o \in uncertain \/ (verdict = "unknown" /\ Mutating(o))
    <3>1. o \notin uncertain
      BY <1>0, <2>1 DEF UncertainSound
    <3>2. verdict = "unknown" /\ Mutating(o)
      BY <2>4, <3>1
    <3>3. RunOf(o)' = r
      BY <1>0 DEF RunOf
    <3>4. Doomed(RunOf(o))' /\ ~Held(RunOf(o))'
      BY <1>3, <1>4, <2>1, <3>2, <3>3 DEF Doomed, Wrecked, Held
    <3>5. /\ o <= Len(operations) /\ operations[o].state \in {"running", "unknown"}
          /\ Live(o)' /\ tasks'[o].unknown
      <4>1. t.unknown
        BY <3>2
      <4>2. operations[o].state \in {"running", "unknown"}
        BY <3>2 DEF MutatingSound
      <4> QED BY <1>1, <1>5, <4>1, <4>2 DEF Live
    <3>6. uncertain' = uncertain \cup {o}
      BY <3>2
    <3>7. ASSUME NEW p \in uncertain'
          PROVE  /\ p <= Len(operations) /\ operations[p].state \in {"running", "unknown"}
                 /\ IF Live(p)' THEN tasks'[p].unknown
                                ELSE service \in {"down", "recovering"} \/ operations[p].state = "unknown"
                 /\ Doomed(RunOf(p))' /\ ~Held(RunOf(p))'
      <4>1. CASE p = o
        BY <3>4, <3>5, <4>1
      <4>2. CASE p # o
        BY <2>3, <3>6, <4>2
      <4> QED BY <4>1, <4>2
    <3> QED BY <3>7 DEF UncertainSound, Live
  <2>5. CASE o \notin uncertain /\ ~(verdict = "unknown" /\ Mutating(o))
    BY <2>3, <2>5 DEF UncertainSound, Live
  <2> QED BY <2>4, <2>5
<1> QED BY <1>6, <1>7, <1>8, <1>9, <1>11, <1>12, <1>13

LEMMA StepReturnsKeeps ==
  ASSUME IInv, NEW o \in Ids, NEW verdict \in {"passed", "failed", "unknown"}, StepReturns(o, verdict)
  PROVE  IInv'
<1> DEFINE t == [tasks[o] EXCEPT !.pc = "next", !.ok = @ /\ verdict = "passed",
                                 !.unknown = @ \/ verdict = "unknown"]
<1>1. /\ Live(o) /\ tasks[o].pc = "act" /\ submitting = 0 /\ finalizing = None
      /\ SaveVerdict(o, verdict, FALSE)
      /\ uncertain' = IF verdict = "unknown" /\ Mutating(o) THEN uncertain \cup {o} ELSE uncertain
      /\ UNCHANGED <<operations, requests, report, pending, service, submitting, cancelling, finalizing,
                     begun, crashes>>
  BY DEF StepReturns, Idle
<1>2. tasks' = [tasks EXCEPT ![o] = t]
  <2>1. tasks' = [tasks EXCEPT ![o].pc = "next", ![o].ok = @ /\ verdict = "passed",
                               ![o].unknown = @ \/ verdict = "unknown"]
    BY DEF StepReturns
  <2>2. [tasks EXCEPT ![o].pc = "next", ![o].ok = @ /\ verdict = "passed",
                      ![o].unknown = @ \/ verdict = "unknown"] = [tasks EXCEPT ![o] = t]
    OBVIOUS
  <2> QED BY <2>1, <2>2
<1>3. tasks[o] \in Task
  BY <1>1, TaskTyped DEF IInv
<1>4. /\ t \in Task /\ t.pc = "next" /\ t.step = tasks[o].step /\ t.cancel = tasks[o].cancel
      /\ t.unknown = (tasks[o].unknown \/ verdict = "unknown")
  BY <1>3 DEF Task
<1> HIDE DEF t
<1>5. verdict \in Statuses \ {"running"}
  BY DEF Statuses
<1> QED BY <1>1, <1>2, <1>4, <1>5, StepEnds

LEMMA InterruptKeeps ==
  ASSUME IInv, NEW o \in Ids, NEW result \in {"cancelled", "deadline_exceeded"}, Interrupt(o, result)
  PROVE  IInv'
<1>1. /\ Live(o) /\ submitting = 0 /\ finalizing = None /\ result \in FinalStates
      /\ UNCHANGED <<operations, requests, report, pending, service, submitting, cancelling, finalizing,
                     begun, crashes>>
  BY DEF Interrupt, Idle, FinalStates
<1>2. CASE tasks[o].pc = "act"
  <2> DEFINE verdict == IF Mutating(o) THEN "unknown" ELSE "failed"
             t == [End(o, result) EXCEPT !.unknown = @ \/ Mutating(o)]
  <2>1. /\ SaveVerdict(o, verdict, TRUE) /\ tasks' = [tasks EXCEPT ![o] = t]
        /\ uncertain' = IF Mutating(o) THEN uncertain \cup {o} ELSE uncertain
    BY <1>2 DEF Interrupt
  <2>2. LET e == End(o, result)
        IN /\ e \in Task /\ e.pc = "end" /\ e.result # None /\ e.step = tasks[o].step
           /\ e.cancel = tasks[o].cancel /\ e.unknown = tasks[o].unknown
    BY <1>1, EndTyped DEF IInv
  <2>3. Mutating(o) \in BOOLEAN
    BY DEF Mutating, Live
  <2>4. /\ t \in Task /\ t.pc = "end" /\ t.result # None /\ t.step = tasks[o].step
        /\ t.cancel = tasks[o].cancel /\ t.unknown = (tasks[o].unknown \/ Mutating(o))
    BY <2>2, <2>3 DEF Task
  <2> HIDE DEF t
  <2>5. verdict \in Statuses \ {"running"} /\ (verdict = "unknown" <=> Mutating(o))
    BY DEF Statuses
  <2> HIDE DEF verdict
  <2>6. uncertain' = IF verdict = "unknown" /\ Mutating(o) THEN uncertain \cup {o} ELSE uncertain
    BY <2>1, <2>5
  <2>7. t.unknown = (tasks[o].unknown \/ verdict = "unknown")
    BY <2>4, <2>5
  <2> QED BY <1>1, <1>2, <2>1, <2>4, <2>5, <2>6, <2>7, StepEnds
<1>3. CASE tasks[o].pc # "act"
  <2>1. tasks' = [tasks EXCEPT ![o] = End(o, result)] /\ UNCHANGED <<journal, uncertain>>
    BY <1>3 DEF Interrupt
  <2> QED BY <1>1, <2>1, TaskQuits
<1> QED BY <1>2, <1>3

-------------------------------------------------------------------------------
(* Finalization *)

\* The task that asked for a finalization comes to its end with it.
LEMMA FinalizerEnds ==
  ASSUME IInv, NEW o \in Ids, Live(o), tasks[o].pc = "finalize", finalizing # None => finalizing.by = o,
         NEW result \in FinalStates, tasks' = [tasks EXCEPT ![o] = End(o, result)], finalizing' = None,
         UNCHANGED <<operations, requests, service, submitting, cancelling, begun, uncertain>>,
         \A r \in Runs : Wrecked(r) => Wrecked(r)'
  PROVE  /\ tasks' \in [Ids -> Task \cup {None}] /\ ServiceSound' /\ SubmitSound' /\ FinalSound'
         /\ LockSound' /\ \A p \in Ids : TaskSound(p)'
         /\ MutatingSound' /\ UncertainSound'
<1> USE DEF IInv
<1> DEFINE t == End(o, result)
<1>1. /\ t \in Task /\ t # None /\ t.pc = "end" /\ t.result # None
      /\ t.step = tasks[o].step /\ t.cancel = tasks[o].cancel /\ t.unknown = tasks[o].unknown
  BY EndTyped
<1>2. tasks' = [tasks EXCEPT ![o] = t]
  OBVIOUS
<1> HIDE DEF t
<1>3. \A p \in Ids \ {o} : ~(Live(p) /\ tasks[p].pc = "act")
  BY DEF LockSound
<1>4. /\ tasks' \in [Ids -> Task \cup {None}] /\ tasks'[o] = t
      /\ \A p \in Ids : p # o => tasks'[p] = tasks[p]
      /\ \A p \in Ids : TaskSound(p)'
      /\ LockSound' /\ MutatingSound'
      /\ \A r \in Runs : ~Held(r) => ~Held(r)'
  BY <1>1, <1>2, <1>3, TaskEnds
<1>5. FinalSound'
  BY DEF FinalSound
<1>6. ServiceSound'
  BY <1>1, <1>4 DEF ServiceSound, TypeOK, Live
<1>7. SubmitSound'
  BY <1>4 DEF SubmitSound, Live, Request, TypeOK
<1>8. UncertainSound'
  <2>1. service \in {"up", "stopping"} /\ Len(operations) \in Nat
    BY LengthTyped DEF ServiceSound, TypeOK
  <2>2. \A p \in Ids : /\ Live(p)' => Live(p) /\ tasks'[p].unknown = tasks[p].unknown
                       /\ ~Live(p)' => ~Live(p)
    BY <1>1, <1>4 DEF Live
  <2>3. \A p \in uncertain : ~Live(p)' => ~Live(p) /\ service \in {"up", "stopping"}
    BY <2>1, <2>2 DEF TypeOK
  <2> QED BY <1>4, <2>1, <2>2, <2>3, UncertainKept
<1> QED BY <1>4, <1>5, <1>6, <1>7, <1>8

\* The tasks stay as they are while a finalization goes on.
LEMMA FinalizeGoesOn ==
  ASSUME IInv, service \in {"up", "stopping"},
         UNCHANGED <<operations, requests, service, tasks, submitting, cancelling, begun, uncertain>>,
         \A r \in Runs : Wrecked(r) => Wrecked(r)',
         \A p \in Ids : Live(p) /\ tasks[p].pc = "act" =>
           LET j == journal'[RunOf(p)]
           IN \/ j = journal[RunOf(p)]
              \/ /\ j # None /\ j.state = "aborted"
                 /\ Marked(journal[RunOf(p)].steps) => Marked(j.steps)
  PROVE  /\ SubmitSound' /\ BegunSound' /\ LockSound' /\ \A p \in Ids : TaskSound(p)'
         /\ MutatingSound' /\ UncertainSound'
<1> USE DEF IInv
<1>1. SubmitSound' /\ BegunSound' /\ LockSound' /\ MutatingSound'
  BY DEF SubmitSound, BegunSound, LockSound, MutatingSound, Mutating, Live, Request, Steps
<1>2. ASSUME NEW p \in Ids PROVE TaskSound(p)'
  BY LengthTyped, TaskFrame
<1>3. UncertainSound'
  <2>1. \A r \in Runs : ~Held(r) => ~Held(r)'
    BY DEF Held, Live, RunOf
  <2> QED BY <2>1, LengthTyped, UncertainKept DEF Live
<1> QED BY <1>1, <1>2, <1>3

LEMMA FinalizeWorkflowKeeps == ASSUME IInv, NEW o \in Ids, FinalizeWorkflow(o) PROVE IInv'
<1> USE DEF IInv
<1>0. PICK r : r = RunOf(o)
  OBVIOUS
<1>1. /\ Live(o) /\ tasks[o].pc = "finalize" /\ finalizing = None /\ StartFinalize(r, o)
      /\ UNCHANGED <<operations, requests, report, pending, service, submitting, cancelling,
                     begun, uncertain, crashes>>
      /\ tasks' = IF AlreadyFinal(r) THEN [tasks EXCEPT ![o] = End(o, Reported(r))] ELSE tasks
  BY <1>0 DEF FinalizeWorkflow
<1>2. o \in 1..Len(operations) /\ r \in Runs /\ service \in {"up", "stopping"}
  <2>1. o \in 1..Len(operations)
    BY <1>1 DEF TaskSound, Ids
  <2> QED BY <1>0, <1>1, <2>1, OperationTyped DEF ServiceSound, TypeOK
<1>3. CASE AlreadyFinal(r)
  <2>1. Reported(r) \in FinalStates
    BY DEF Reported, FinalStates
  <2>2. journal' = journal /\ finalizing' = finalizing
    BY <1>1, <1>3 DEF StartFinalize
  <2> QED BY <1>1, <1>3, <2>1, <2>2, TaskQuits
<1>4. CASE ~AlreadyFinal(r)
  <2>1. /\ journal' \in [Runs -> Journal \cup {None}]
        /\ finalizing' \in Finalization /\ finalizing'.run = r /\ finalizing'.by = o
        /\ journal'[r] # None /\ journal'[r].state \in {"aborted", "finalizing"}
        /\ \A x \in Runs : JournalStands(x) /\ (Wrecked(x) => Wrecked(x)')
        /\ \A x \in Runs : journal[x] # None => journal'[x] # None
    BY <1>1, <1>2, <1>4, FinalizeStarts
  <2>2. tasks' = tasks
    BY <1>1, <1>4
  <2>3. TypeOK'
    BY <1>1, <2>1, <2>2 DEF TypeOK
  <2>4. ServiceSound' /\ FinalSound'
    BY <1>1, <1>2, <2>1, <2>2 DEF ServiceSound, FinalSound, Live, Ids
  <2>5. \A p \in Ids : ~(Live(p) /\ tasks[p].pc = "act")
    BY <1>1 DEF LockSound
  <2>6. /\ SubmitSound' /\ BegunSound' /\ LockSound' /\ \A p \in Ids : TaskSound(p)'
        /\ MutatingSound' /\ UncertainSound'
    BY <1>1, <1>2, <2>1, <2>2, <2>5, FinalizeGoesOn
  <2>7. ReportSound'
    BY <1>1, <2>1 DEF ReportSound
  <2> QED BY <2>3, <2>4, <2>6, <2>7
<1> QED BY <1>3, <1>4

LEMMA FinalizingTyped ==
  ASSUME IInv, finalizing # None
  PROVE  /\ finalizing \in Finalization /\ finalizing.run \in Runs /\ finalizing.by \in Ids \cup {0}
         /\ service \in {"up", "stopping"}
         /\ journal[finalizing.run] # None /\ journal[finalizing.run] \in Journal
         /\ journal[finalizing.run].state \in {"aborted", "finalizing"}
         /\ finalizing.by = 0 => service = "up"
         /\ finalizing.by # 0 => Live(finalizing.by) /\ tasks[finalizing.by].pc = "finalize"
BY DEF IInv, TypeOK, ServiceSound, FinalSound, Finalization

\* The next write of a finalization is due.
LEMMA FinalizeStage ==
  ASSUME IInv, finalizing # None, NEW at \in {"pending", "close"},
         finalizing' = [finalizing EXCEPT !.at = at]
  PROVE  finalizing' \in Finalization /\ finalizing'.run = finalizing.run /\ finalizing'.by = finalizing.by
         /\ finalizing' # None
<1>1. finalizing' \in Finalization /\ finalizing'.run = finalizing.run /\ finalizing'.by = finalizing.by
  BY FinalizingTyped DEF Finalization
<1> QED BY <1>1, NoneAssumption

LEMMA WriteReportKeeps == ASSUME IInv, WriteReport PROVE IInv'
<1> USE DEF IInv
<1>0. PICK r : r = finalizing.run
  OBVIOUS
<1> DEFINE rep == [passed |-> Passed(journal[r].steps), steps |-> journal[r].steps]
<1>1. /\ finalizing # None /\ report' = [report EXCEPT ![r] = rep]
      /\ finalizing' = [finalizing EXCEPT !.at = "pending"]
      /\ UNCHANGED <<operations, requests, journal, pending, service, tasks, submitting, cancelling,
                     begun, uncertain, crashes>>
  BY <1>0 DEF WriteReport
<1>2. /\ r \in Runs /\ journal[r] # None /\ journal[r] \in Journal /\ service \in {"up", "stopping"}
      /\ finalizing' \in Finalization /\ finalizing'.run = finalizing.run /\ finalizing'.by = finalizing.by
      /\ finalizing' # None
  BY <1>0, <1>1, FinalizingTyped, FinalizeStage
<1>3. rep \in Report /\ rep # None /\ (rep.passed => Passed(rep.steps))
  <2>1. journal[r].steps \in Seq(Step)
    BY <1>2 DEF Journal
  <2>2. Passed(journal[r].steps) \in BOOLEAN
    BY DEF Passed
  <2>3. rep \in Report
    BY <2>1, <2>2 DEF Report
  <2> QED BY <2>3, NoneAssumption
<1> HIDE DEF rep
<1>4. /\ report' \in [Runs -> Report \cup {None}] /\ report'[r] = rep
      /\ \A x \in Runs : x # r => report'[x] = report[x]
  BY <1>1, <1>2, <1>3 DEF TypeOK
<1>5. TypeOK'
  BY <1>1, <1>2, <1>4 DEF TypeOK
<1>6. ServiceSound' /\ FinalSound'
  BY <1>1, <1>2, FinalizingTyped DEF ServiceSound, FinalSound, Live
<1>7. /\ SubmitSound' /\ BegunSound' /\ LockSound' /\ \A p \in Ids : TaskSound(p)'
      /\ MutatingSound' /\ UncertainSound'
  <2>1. \A x \in Runs : Wrecked(x) => Wrecked(x)'
    BY <1>1 DEF Wrecked
  <2>2. \A p \in Ids : journal'[RunOf(p)] = journal[RunOf(p)]
    BY <1>1
  <2> QED BY <1>1, <1>2, <2>1, <2>2, FinalizeGoesOn
<1>8. ReportSound'
  BY <1>1, <1>2, <1>3, <1>4 DEF ReportSound
<1> QED BY <1>5, <1>6, <1>7, <1>8

LEMMA WritePendingKeeps == ASSUME IInv, WritePending PROVE IInv'
<1> USE DEF IInv
<1>0. PICK r, by : r = finalizing.run /\ by = finalizing.by
  OBVIOUS
<1>1. /\ finalizing # None
      /\ UNCHANGED <<operations, requests, journal, report, service, submitting, cancelling,
                     begun, uncertain, crashes>>
  BY DEF WritePending
<1>2. /\ r \in Runs /\ by \in Ids \cup {0} /\ service \in {"up", "stopping"}
      /\ by # 0 => Live(by) /\ tasks[by].pc = "finalize"
  BY <1>0, <1>1, FinalizingTyped
<1>3. \A x \in Runs : Wrecked(x) => Wrecked(x)'
  BY <1>1 DEF Wrecked
<1>4. ReportSound' /\ BegunSound'
  BY <1>1 DEF ReportSound, BegunSound
<1>5. CASE Learnable(r) /\ pending[r]
  <2>1. /\ finalizing' = None /\ UNCHANGED pending
        /\ tasks' = IF by = 0 THEN tasks ELSE [tasks EXCEPT ![by] = End(by, "failed")]
    BY <1>0, <1>5 DEF WritePending
  <2>2. CASE by = 0
    <3>1. tasks' = tasks
      BY <2>1, <2>2
    <3>2. TypeOK' /\ ServiceSound' /\ FinalSound'
      BY <1>1, <1>2, <2>1, <3>1 DEF TypeOK, ServiceSound, FinalSound, Live
    <3>3. \A p \in Ids : journal'[RunOf(p)] = journal[RunOf(p)]
      BY <1>1
    <3>4. /\ SubmitSound' /\ BegunSound' /\ LockSound' /\ \A p \in Ids : TaskSound(p)'
          /\ MutatingSound' /\ UncertainSound'
      BY <1>1, <1>2, <1>3, <3>1, <3>3, FinalizeGoesOn
    <3> QED BY <1>4, <3>2, <3>4
  <2>3. CASE by # 0
    <3>1. by \in Ids /\ "failed" \in FinalStates /\ tasks' = [tasks EXCEPT ![by] = End(by, "failed")]
      BY <1>2, <2>1, <2>3 DEF FinalStates
    <3>2. /\ tasks' \in [Ids -> Task \cup {None}] /\ ServiceSound' /\ SubmitSound' /\ FinalSound'
          /\ LockSound' /\ \A p \in Ids : TaskSound(p)'
          /\ MutatingSound' /\ UncertainSound'
      BY <1>0, <1>1, <1>2, <1>3, <2>1, <2>3, <3>1, FinalizerEnds
    <3>3. TypeOK'
      BY <1>1, <2>1, <3>2 DEF TypeOK
    <3> QED BY <1>4, <3>2, <3>3
  <2> QED BY <2>2, <2>3
<1>6. CASE ~(Learnable(r) /\ pending[r])
  <2>1. /\ pending' = [pending EXCEPT ![r] = @ \/ Learnable(r)]
        /\ finalizing' = [finalizing EXCEPT !.at = "close"] /\ UNCHANGED tasks
    BY <1>0, <1>6 DEF WritePending
  <2>2. /\ finalizing' \in Finalization /\ finalizing'.run = finalizing.run
        /\ finalizing'.by = finalizing.by /\ finalizing' # None
    BY <1>1, <2>1, FinalizeStage
  <2>3. TypeOK'
    <3>1. pending' \in [Runs -> BOOLEAN]
      BY <1>2, <2>1 DEF TypeOK
    <3> QED BY <1>1, <2>1, <2>2, <3>1 DEF TypeOK
  <2>4. ServiceSound' /\ FinalSound'
    BY <1>1, <1>2, <2>1, <2>2, FinalizingTyped DEF ServiceSound, FinalSound, Live
  <2>5. \A p \in Ids : journal'[RunOf(p)] = journal[RunOf(p)]
    BY <1>1
  <2>6. /\ SubmitSound' /\ BegunSound' /\ LockSound' /\ \A p \in Ids : TaskSound(p)'
        /\ MutatingSound' /\ UncertainSound'
    BY <1>1, <1>2, <1>3, <2>1, <2>5, FinalizeGoesOn
  <2> QED BY <1>4, <2>3, <2>4, <2>6
<1> QED BY <1>5, <1>6

LEMMA CloseRunKeeps == ASSUME IInv, CloseRun PROVE IInv'
<1> USE DEF IInv
<1>0. PICK r, by : r = finalizing.run /\ by = finalizing.by
  OBVIOUS
<1> DEFINE s == IF report[r].passed THEN "passed" ELSE "failed"
           k == [journal[r] EXCEPT !.state = s]
<1>1. /\ finalizing # None /\ finalizing' = None
      /\ tasks' = IF by = 0 THEN tasks ELSE [tasks EXCEPT ![by] = End(by, Reported(r))]
      /\ UNCHANGED <<operations, requests, report, pending, service, submitting, cancelling,
                     begun, uncertain, crashes>>
  BY <1>0 DEF CloseRun
<1>2. journal' = IF journal[r].state = "aborted" THEN journal ELSE [journal EXCEPT ![r] = k]
  <2>1. [journal EXCEPT ![r].state = s] = [journal EXCEPT ![r] = k]
    OBVIOUS
  <2> QED BY <1>0, <2>1 DEF CloseRun
<1>3. /\ r \in Runs /\ by \in Ids \cup {0} /\ service \in {"up", "stopping"}
      /\ journal[r] # None /\ journal[r] \in Journal /\ journal[r].state \in {"aborted", "finalizing"}
      /\ by # 0 => Live(by) /\ tasks[by].pc = "finalize"
  BY <1>0, <1>1, FinalizingTyped
<1>4. k \in Journal /\ k # None
  <2>1. k \in Journal
    BY <1>3 DEF Journal, Finished
  <2> QED BY <2>1, NoneAssumption
<1> HIDE DEF k
<1>5. /\ journal' \in [Runs -> Journal \cup {None}] /\ journal'[r] # None
      /\ journal[r].state = "aborted" => journal' = journal
      /\ \A x \in Runs : x # r => journal'[x] = journal[x]
  BY <1>2, <1>3, <1>4 DEF TypeOK
<1>6. \A x \in Runs : Wrecked(x) => Wrecked(x)'
  BY <1>5 DEF Wrecked
<1>7. ASSUME NEW p \in Ids, Live(p), tasks[p].pc = "act" PROVE journal'[RunOf(p)] = journal[RunOf(p)]
  <2>1. p \in 1..Len(operations) /\ ActSound(p)
    BY <1>7 DEF TaskSound, Ids
  <2>2. PICK x \in Runs : x = RunOf(p)
    BY <2>1, OperationTyped
  <2>3. journal[x].state \in {"running", "aborted"}
    BY <2>1, <2>2 DEF ActSound
  <2>4. journal'[x] = journal[x]
    BY <1>3, <1>5, <2>3
  <2> QED BY <2>2, <2>4
<1>8. ReportSound' /\ BegunSound'
  BY <1>1, <1>5 DEF ReportSound, BegunSound
<1>9. CASE by = 0
  <2>1. tasks' = tasks
    BY <1>1, <1>9
  <2>2. TypeOK' /\ ServiceSound' /\ FinalSound'
    BY <1>1, <1>3, <1>5, <2>1 DEF TypeOK, ServiceSound, FinalSound, Live
  <2>3. /\ SubmitSound' /\ BegunSound' /\ LockSound' /\ \A p \in Ids : TaskSound(p)'
        /\ MutatingSound' /\ UncertainSound'
    BY <1>1, <1>3, <1>6, <1>7, <2>1, FinalizeGoesOn
  <2> QED BY <1>8, <2>2, <2>3
<1>10. CASE by # 0
  <2>1. by \in Ids /\ Reported(r) \in FinalStates /\ tasks' = [tasks EXCEPT ![by] = End(by, Reported(r))]
    BY <1>1, <1>3, <1>10 DEF FinalStates, Reported
  <2>2. /\ tasks' \in [Ids -> Task \cup {None}] /\ ServiceSound' /\ SubmitSound' /\ FinalSound'
        /\ LockSound' /\ \A p \in Ids : TaskSound(p)'
        /\ MutatingSound' /\ UncertainSound'
    BY <1>0, <1>1, <1>3, <1>6, <1>10, <2>1, FinalizerEnds
  <2>3. TypeOK'
    BY <1>1, <1>5, <2>2 DEF TypeOK
  <2> QED BY <1>8, <2>2, <2>3
<1> QED BY <1>9, <1>10

-------------------------------------------------------------------------------
(* Every reachable state *)

LEMMA InitInv == Init => IInv
<1> SUFFICES ASSUME Init PROVE IInv
  OBVIOUS
<1>1. Len(operations) = 0 /\ operations \in Seq(Operation)
  BY DEF Init
<1>2. \A o \in Ids : ~Live(o)
  BY DEF Init, Live
<1>3. TypeOK
  BY <1>1, BoundsAssumption DEF Init, TypeOK
<1>4. ServiceSound /\ SubmitSound /\ FinalSound /\ UncertainSound /\ ReportSound
  BY <1>2 DEF Init, ServiceSound, SubmitSound, FinalSound, UncertainSound, ReportSound
<1>5. LockSound /\ MutatingSound /\ \A o \in Ids : TaskSound(o)
  BY <1>2 DEF LockSound, MutatingSound, TaskSound, Mutating
<1>6. BegunSound
  BY DEF Init, BegunSound
<1> QED BY <1>3, <1>4, <1>5, <1>6 DEF IInv

LEMMA NextInv == IInv /\ [Next]_vars => IInv'
<1> SUFFICES ASSUME IInv, [Next]_vars PROVE IInv'
  OBVIOUS
<1>1. CASE RecoverRuns
  BY <1>1, RecoverRunsKeeps
<1>2. CASE RecoverOperations
  BY <1>2, RecoverOperationsKeeps
<1>3. CASE Shutdown
  BY <1>3, ShutdownKeeps
<1>4. CASE Stop
  BY <1>4, StopKeeps
<1>5. CASE Crash
  BY <1>5, CrashKeeps
<1>6. ASSUME NEW r \in Runs, PrepareRun(r) \/ FinalizeCommand(r) PROVE IInv'
  BY <1>6, PrepareRunKeeps, FinalizeCommandKeeps
<1>7. ASSUME NEW q \in Requests, Submit(q) PROVE IInv'
  BY <1>7, SubmitKeeps
<1>8. CASE WriteIndex
  BY <1>8, WriteIndexKeeps
<1>9. CASE CancelReturns
  BY <1>9, CancelReturnsKeeps
<1>10. CASE Finalize
  BY <1>10, WriteReportKeeps, WritePendingKeeps, CloseRunKeeps DEF Finalize
<1>11. ASSUME NEW o \in Ids, TaskStep(o) PROVE IInv'
  BY <1>11, TakeLockKeeps, NextStepKeeps, EndTaskKeeps, FinalizeWorkflowKeeps, InterruptKeeps DEF TaskStep
<1>12. ASSUME NEW o \in Ids, Cancel(o) \/ RefuseStep(o) \/ DeadlinePasses(o) PROVE IInv'
  BY <1>12, CancelKeeps, RefuseStepKeeps, DeadlinePassesKeeps
<1>13. ASSUME NEW o \in Ids, NEW late \in BOOLEAN, BeginStep(o, late) PROVE IInv'
  BY <1>13, BeginStepKeeps
<1>14. ASSUME NEW o \in Ids, NEW verdict \in {"passed", "failed", "unknown"}, StepReturns(o, verdict)
       PROVE IInv'
  BY <1>14, StepReturnsKeeps
<1>15. CASE UNCHANGED vars
  BY <1>15, NothingKeeps
<1> QED BY <1>1, <1>2, <1>3, <1>4, <1>5, <1>6, <1>7, <1>8, <1>9, <1>10, <1>11, <1>12, <1>13, <1>14,
           <1>15 DEF Next

LEMMA Invariant == Spec => []IInv
BY InitInv, NextInv, PTL DEF Spec

-------------------------------------------------------------------------------
(* The properties *)

LEMMA InvHonest == IInv => OutcomesHonest
<1> SUFFICES ASSUME IInv PROVE OutcomesHonest
  OBVIOUS
<1> USE DEF IInv
<1>1. ASSUME NEW o \in DOMAIN operations, operations[o].state \in FinalStates \ {"unknown"}
      PROVE  o \notin uncertain /\ ~Mutating(o)
  <2>1. o \in Ids
    BY LengthTyped DEF Ids
  <2> QED BY <1>1, <2>1 DEF UncertainSound, MutatingSound, FinalStates
<1>2. ASSUME NEW o \in uncertain
      PROVE  LET r == RunOf(o)
             IN /\ journal[r].state # "passed"
                /\ report[r] # None /\ report[r].passed /\ report[r].steps = journal[r].steps
                     => OptionalUnknown(report[r].steps)
  <2> DEFINE r == RunOf(o)
  <2>1. /\ journal[r] # None /\ journal[r].state # "passed" /\ Marked(journal[r].steps)
        /\ r \in Runs
    <3>1. o \in 1..Len(operations) /\ Doomed(r)
      BY DEF UncertainSound, TypeOK, Ids
    <3> QED BY <3>1, OperationTyped DEF Doomed, Wrecked, Unfinished, Appendable
  <2>2. ASSUME report[r] # None, report[r].passed, report[r].steps = journal[r].steps
        PROVE  OptionalUnknown(report[r].steps)
    <3> DEFINE steps == journal[r].steps
    <3>1. PICK n \in DOMAIN steps : /\ steps[n].status \in {"running", "unknown"}
                                    /\ steps[n].action.kind = "mutation"
      BY <2>1 DEF Marked
    <3>2. steps[n].status = "unknown" /\ steps[n].action.optional = TRUE
      BY <2>1, <2>2, <3>1 DEF ReportSound, Passed
    <3>3. steps[n].action = [kind |-> "mutation", optional |-> TRUE]
      <4>1. journal[r] \in Journal
        BY <2>1 DEF TypeOK
      <4>2. steps \in Seq(Step)
        BY <4>1 DEF Journal
      <4> HIDE DEF steps
      <4>3. steps[n] \in Step
        BY <4>2, <3>1, ElementOfSeq, LenProperties
      <4>4. steps[n].action \in Action
        BY <4>3 DEF Step
      <4> QED BY <3>1, <3>2, <4>4 DEF Action
    <3> QED BY <2>2, <3>2, <3>3 DEF OptionalUnknown
  <2> QED BY <2>1, <2>2
<1> QED BY <1>1, <1>2 DEF OutcomesHonest

\* What has ended well has ended: no mutation whose outcome was lost to a cancellation, a
\* deadline or a kill is called a success or a failure by its operation, nor has its run
\* passed; a report that passed over one shows it as unknown and optional, for any
\* requests, workflows and number of kills (operations.py:378-470, runs.py:105-127,
\* 325-395, reports.py:36-41).
THEOREM OutcomesAreHonest == Spec => []OutcomesHonest
BY Invariant, InvHonest, PTL

LEMMA BegunStep ==
  ASSUME IInv, [Next]_vars, begun' # begun
  PROVE  \E o \in Ids : BeginStep(o, FALSE)
<1>1. ASSUME NEW o \in Ids, NEW late \in BOOLEAN, BeginStep(o, late) PROVE \E p \in Ids : BeginStep(p, FALSE)
  <2>1. late = FALSE
    BY <1>1 DEF BeginStep
  <2> QED BY <1>1, <2>1
<1> QED BY <1>1 DEF Next, vars, disk, RecoverRuns, RecoverOperations, Shutdown, Stop, Crash, PrepareRun,
     FinalizeCommand, Submit, WriteIndex, CancelReturns, Finalize, WriteReport, WritePending, CloseRun,
     TaskStep, TakeLock, NextStep, EndTask, FinalizeWorkflow, Interrupt, Cancel, RefuseStep,
     DeadlinePasses, StepReturns

LEMMA StepReplaysNothing ==
  ASSUME IInv, IInv', [Next]_vars, NEW q \in Requests, begun'[q] # begun[q]
  PROVE  /\ \A n \in DOMAIN begun[q] : begun'[q][n] <= 1
         /\ \A o \in uncertain : RunOf(o) # Payload[q].run
<1>1. begun[q] \in [DOMAIN Payload[q].steps -> Nat]
  BY DEF IInv, TypeOK
<1>2. \A n \in DOMAIN begun[q] : begun'[q][n] <= 1
  BY <1>1 DEF IInv, BegunSound
<1>3. PICK o \in Ids : BeginStep(o, FALSE)
  BY BegunStep
<1>4. Live(o) /\ tasks[o].pc = "status" /\ begun' = [begun EXCEPT ![Request(o)][tasks[o].step] = @ + 1]
  BY <1>3 DEF BeginStep, Request
<1>5. q = Request(o)
  BY <1>4 DEF IInv, BegunSound
<1>6. Held(Payload[q].run)
  BY <1>4, <1>5 DEF Held, RunOf, Request
<1>7. \A p \in uncertain : RunOf(p) # Payload[q].run
  BY <1>6 DEF IInv, UncertainSound, Held
<1> QED BY <1>2, <1>7

\* Nothing is done twice: whatever is submitted again, and wherever the service was
\* killed, a step that was begun is never begun again, nor is any on a run where the
\* outcome of another is unknown (operations.py:196-247, runs.py:222-224).
THEOREM NothingIsReplayed == Spec => NeverReplayed
<1>1. IInv /\ IInv' /\ [Next]_vars =>
        [\A q \in Requests : begun'[q] # begun[q] =>
           /\ \A n \in DOMAIN begun[q] : begun'[q][n] <= 1
           /\ \A o \in uncertain : RunOf(o) # Payload[q].run]_vars
  BY StepReplaysNothing
<1> QED BY <1>1, Invariant, PTL DEF Spec, NeverReplayed

LEMMA FinishedStays ==
  ASSUME IInv, [Next]_vars, NEW r \in Runs, AlreadyFinal(r), finalizing = None, ~Held(r)
  PROVE  journal'[r] = journal[r] /\ report'[r] = report[r]
<1> USE DEF IInv
<1>1. /\ journal \in [Runs -> Journal \cup {None}] /\ journal[r] # None
      /\ journal[r].state \in Finished
  BY DEF AlreadyFinal, TypeOK, ReportSound
<1>2. CASE RecoverRuns
  BY <1>1, <1>2 DEF RecoverRuns, Unfinished, Appendable, Finished
<1>3. CASE Stop
  BY <1>1, <1>3 DEF Stop, Appendable, Finished
<1>4. ASSUME NEW x \in Runs, PrepareRun(x) PROVE journal'[r] = journal[r] /\ report'[r] = report[r]
  BY <1>1, <1>4 DEF PrepareRun
<1>5. ASSUME NEW x \in Runs, NEW by, StartFinalize(x, by) PROVE journal'[r] = journal[r]
  BY <1>1, <1>5 DEF StartFinalize
<1>6. ASSUME NEW x \in Runs, FinalizeCommand(x) PROVE journal'[r] = journal[r] /\ report'[r] = report[r]
  BY <1>5, <1>6 DEF FinalizeCommand
<1>7. ASSUME NEW o \in Ids, Live(o), tasks[o].pc \in {"status", "act"}, NEW j,
             journal' = [journal EXCEPT ![RunOf(o)] = j]
      PROVE  journal'[r] = journal[r]
  BY <1>1, <1>7 DEF Held
<1>8. ASSUME NEW o \in Ids, FinalizeWorkflow(o) PROVE journal'[r] = journal[r] /\ report'[r] = report[r]
  <2>1. RunOf(o) \in Runs
    <3>1. o \in 1..Len(operations)
      BY <1>8 DEF FinalizeWorkflow, TaskSound, Ids
    <3> QED BY <3>1, OperationTyped
  <2> QED BY <1>5, <1>8, <2>1 DEF FinalizeWorkflow
<1>9. ASSUME NEW o \in Ids, NEW late \in BOOLEAN, BeginStep(o, late)
      PROVE  journal'[r] = journal[r] /\ report'[r] = report[r]
  <2>1. Live(o) /\ tasks[o].pc = "status" /\ report' = report
    BY <1>9 DEF BeginStep
  <2>2. PICK j : journal' = [journal EXCEPT ![RunOf(o)] = j]
    BY <1>9 DEF BeginStep
  <2> QED BY <1>7, <2>1, <2>2
<1>10. ASSUME NEW o \in Ids, NEW verdict \in {"passed", "failed", "unknown"}, StepReturns(o, verdict)
       PROVE  journal'[r] = journal[r] /\ report'[r] = report[r]
  <2>1. Live(o) /\ tasks[o].pc = "act" /\ report' = report /\ SaveVerdict(o, verdict, FALSE)
    BY <1>10 DEF StepReturns
  <2>2. PICK j : journal' = [journal EXCEPT ![RunOf(o)] = j]
    BY <2>1 DEF SaveVerdict
  <2> QED BY <1>7, <2>1, <2>2
<1>11. ASSUME NEW o \in Ids, NEW result \in {"cancelled", "deadline_exceeded"}, Interrupt(o, result)
       PROVE  journal'[r] = journal[r] /\ report'[r] = report[r]
  <2>1. CASE tasks[o].pc = "act"
    <3>1. Live(o) /\ report' = report /\ SaveVerdict(o, IF Mutating(o) THEN "unknown" ELSE "failed", TRUE)
      BY <1>11, <2>1 DEF Interrupt
    <3>2. PICK j : journal' = [journal EXCEPT ![RunOf(o)] = j]
      BY <3>1 DEF SaveVerdict
    <3> QED BY <1>7, <2>1, <3>1, <3>2
  <2>2. CASE tasks[o].pc # "act"
    BY <1>11, <2>2 DEF Interrupt
  <2> QED BY <2>1, <2>2
<1>12. CASE journal' = journal /\ report' = report
  BY <1>12
<1>13. \/ journal' = journal /\ report' = report
       \/ RecoverRuns \/ Stop
       \/ \E x \in Runs : PrepareRun(x) \/ FinalizeCommand(x)
       \/ \E o \in Ids : \/ FinalizeWorkflow(o)
                         \/ \E late \in BOOLEAN : BeginStep(o, late)
                         \/ \E verdict \in {"passed", "failed", "unknown"} : StepReturns(o, verdict)
                         \/ \E result \in {"cancelled", "deadline_exceeded"} : Interrupt(o, result)
  BY DEF Next, vars, disk, RecoverOperations, Shutdown, Crash, Submit, WriteIndex, CancelReturns, Finalize,
     WriteReport, WritePending, CloseRun, TaskStep, TakeLock, NextStep, EndTask, Cancel, RefuseStep,
     DeadlinePasses
<1>14. CASE RecoverRuns \/ Stop
  BY <1>2, <1>3, <1>14 DEF RecoverRuns, Stop
<1> QED BY <1>4, <1>6, <1>8, <1>9, <1>10, <1>11, <1>12, <1>13, <1>14

\* What was reported stands: a finished run keeps its journal and its report through
\* everything that may happen later, unless a task held its journal all along
\* (runs.py:222-224, 463-467).
THEOREM FinishedRunsStay == Spec => FinishedRunStays
<1>1. IInv /\ [Next]_vars =>
        [\A r \in Runs : AlreadyFinal(r) /\ finalizing = None /\ ~Held(r) =>
           journal'[r] = journal[r] /\ report'[r] = report[r]]_vars
  BY FinishedStays
<1> QED BY <1>1, Invariant, PTL DEF Spec, FinishedRunStays
-------------------------------------------------------------------------------
(* What the invariant says besides                                            *)

\* operations.py _run, runs.py recover: a page mutation whose outcome nobody
\* knows shows in the journal of its run, which is aborted and has the mark of the step, at
\* the latest when the service that lost it is started again.
THEOREM UnknownOutcomesShow ==
  Spec => [](\A o \in uncertain : service # "down" => Wrecked(RunOf(o)))
<1>1. IInv => \A o \in uncertain : service # "down" => Wrecked(RunOf(o))
  BY DEF IInv, UncertainSound, Doomed
<1> QED BY <1>1, Invariant, PTL

\* operations.py _run: one operation at a time is between taking the lock and its end, through
\* cancellations, deadlines and restarts.
THEOREM OperationsTakeTurns ==
  Spec => [](\A o, p \in Ids : Live(o) /\ Live(p) /\ o # p =>
               tasks[o].pc \in {"queued", "end"} \/ tasks[p].pc \in {"queued", "end"})
<1>1. IInv => \A o, p \in Ids : Live(o) /\ Live(p) /\ o # p =>
               tasks[o].pc \in {"queued", "end"} \/ tasks[p].pc \in {"queued", "end"}
  BY DEF IInv, LockSound
<1> QED BY <1>1, Invariant, PTL
===============================================================================
