------------------------- MODULE ExecutionLedgerProofs -------------------------
(* Proofs about ExecutionLedger, for any stages, validations, contracts and    *)
(* bounds: what a receipt says is true, what a completed stage stands on is    *)
(* there, what the final check accepts is proved, and what an amendment        *)
(* removes is archived.                                                        *)
EXTENDS ExecutionLedger, TLAPS

--------------------------------------------------------------------------------
(* The review *)

AnswerType == [by : {"agent", "self"}, target : Target, context : Context,
               verdict : Verdicts, seen : Contents]

ReviewTyped ==
  /\ review \in ReviewType \cup {None}
  /\ dispatch \in [Attempts -> DispatchOf(Context) \cup {None}]
  /\ agent \in [Attempts -> AgentStates]
  /\ answer \in [Attempts -> AnswerType \cup {None}]
  /\ receipt \in ReceiptType \cup {None}

\* A receipt that counts tells of what it names, and a strict one is an agent's.
Truthful(r) ==
  r.ready => /\ SawTarget(r)
             /\ r.independent = (r.by = "agent")
             /\ r.policy = "strict" => r.by = "agent"

\* What an attempt at the review has come to.
AttemptSound(a) ==
  LET d == dispatch[a]
  IN /\ agent[a] # "none" => d # None /\ d.decision = "delegate"
     /\ agent[a] = "answered" => answer[a].by = "agent"
     /\ answer[a] # None /\ TargetFresh(review.target) =>
          answer[a].seen = review.target.content \/ review.restored
     /\ answer[a] # None => d # None /\ (d.decision = "fallback" => answer[a].by = "self")
     /\ d # None =>
          /\ review # None /\ d.context.claims = review.context.claims
          /\ d.decision = "fallback" => review.policy # "strict"
          /\ d.status = "prepared" => agent[a] \notin {"closed", "unclosed"}
          /\ d.status = "completed" => agent[a] = "closed" /\ answer[a].by = "agent"
          /\ d.status = "fallback" => agent[a] = "none" /\ d.decision = "fallback"
          /\ d.status = "failed" /\ d.closed => agent[a] = "closed"

ReviewSound ==
  /\ \A a \in Attempts : AttemptSound(a)
  /\ dispatch[2] # None => dispatch[1] # None /\ Retriable(dispatch[1])
  /\ receipt # None => Truthful(receipt)

\* What is frozen, and what a reviewer reads, has the type of a content.
LEMMA ContentTyped ==
  ASSUME TypeOK, NEW kind \in TargetKinds
  PROVE  Content(kind) \in Contents
<1>1. /\ plan \in Plans /\ tree \in [Paths -> 0..MaxVersion]
      /\ head \in [Paths -> 0..MaxVersion]
  BY DEF TypeOK
<1>2. 0..MaxVersion \subseteq Nat
  BY BoundsAssumption
<1>3. tree \in Trees /\ head \in Trees
  BY <1>1, <1>2 DEF Trees
<1> QED BY <1>1, <1>3 DEF Content, Contents, TargetKinds

\* A reviewer that reads a fresh target reads what was frozen.
LEMMA ResultTyped ==
  ASSUME TypeOK, review \in ReviewType, NEW a \in Attempts, dispatch[a] \in DispatchOf(Context),
         NEW who \in {"agent", "self"}, NEW verdict \in Verdicts
  PROVE  LET r == Result(a, who, verdict)
         IN /\ r \in AnswerType /\ r.by = who
            /\ TargetFresh(review.target) => r.seen = review.target.content
<1> DEFINE t == review.target
<1>1. t \in Target /\ dispatch[a].context \in Context
  BY DEF ReviewType, ReviewOf, DispatchOf
<1>2. t.kind \in TargetKinds /\ t.content \in Contents
  BY <1>1 DEF Target
<1>3. Content(t.kind) \in Contents
  BY <1>2, ContentTyped
<1>4. (IF t.kind = "commit-range" THEN t.content ELSE Content(t.kind)) \in Contents
  BY <1>2, <1>3
<1> QED BY <1>1, <1>4 DEF Result, AnswerType, TargetFresh

LEMMA FreshSame ==
  UNCHANGED <<tree, head, plan, review>> =>
    TargetFresh(review.target)' = TargetFresh(review.target)
BY DEF TargetFresh, Content

\* The steps that change one attempt and leave the review itself.
LEMMA AttemptStep ==
  ASSUME ReviewSound, UNCHANGED <<tree, head, plan, review, receipt>>,
         NEW a \in Attempts, AttemptSound(a)',
         \A b \in Attempts \ {a} : /\ dispatch'[b] = dispatch[b]
                                   /\ agent'[b] = agent[b] /\ answer'[b] = answer[b],
         review # None,
         a = 1 => dispatch[2] = None \/ (dispatch'[1] = dispatch[1]),
         a = 2 /\ dispatch'[2] # None => dispatch[1] # None /\ Retriable(dispatch[1])
  PROVE  ReviewSound'
<1>1. \A b \in Attempts \ {a} : AttemptSound(b)'
  <2> SUFFICES ASSUME NEW b \in Attempts \ {a} PROVE AttemptSound(b)'
    OBVIOUS
  <2>1. AttemptSound(b)
    BY DEF ReviewSound
  <2>2. TargetFresh(review.target)' = TargetFresh(review.target)
    BY DEF TargetFresh, Content
  <2> QED BY <2>1, <2>2 DEF AttemptSound
<1>3. (dispatch[2] # None => dispatch[1] # None /\ Retriable(dispatch[1]))'
  BY DEF ReviewSound, Attempts
<1>4. (receipt # None => Truthful(receipt))'
  BY DEF ReviewSound, Truthful
<1> QED BY <1>1, <1>3, <1>4 DEF ReviewSound

LEMMA ReviewStepSound ==
  ASSUME TypeOK, ReviewTyped, ReviewSound, ReviewNext
  PROVE  ReviewTyped' /\ ReviewSound'
<1> USE DEF Attempts
<1>1. ASSUME NEW available \in BOOLEAN, Prepare(available)
      PROVE  ReviewTyped' /\ ReviewSound'
  <2>1. Preparation(review.context, available) \in DispatchOf(Context)
    BY <1>1 DEF Prepare, ReviewTyped, ReviewType, ReviewOf, Preparation, Decision, DispatchOf, Policies
  <2>2. ReviewTyped'
    BY <1>1, <2>1 DEF Prepare, ReviewTyped
  <2>a. Decision(review.policy, available) = "fallback" => review.policy # "strict"
    BY DEF Decision
  <2>b. dispatch[1] = None /\ review # None /\ dispatch'[1] = Preparation(review.context, available)
        /\ UNCHANGED <<tree, head, plan, review, agent, answer>>
    BY <1>1 DEF Prepare, ReviewTyped
  <2>c. AttemptSound(1)
    BY DEF ReviewSound
  <2>3. AttemptSound(1)'
    BY <2>a, <2>b, <2>c, FreshSame DEF AttemptSound, Preparation
  <2>4. ReviewSound'
    BY <1>1, <2>1, <2>3, AttemptStep DEF Prepare, ReviewTyped, ReviewSound
  <2> QED BY <2>2, <2>4
<1>2. CASE PrepareRetry
  <2> DEFINE second == Preparation(RetryContext(dispatch[1]), TRUE)
  <2>1. dispatch[1] \in DispatchOf(Context) /\ review \in ReviewType
    BY <1>2 DEF PrepareRetry, ReviewTyped
  <2>2. RetryContext(dispatch[1]) \in Context
        /\ RetryContext(dispatch[1]).claims = dispatch[1].context.claims
    BY <2>1 DEF RetryContext, DispatchOf, Context
  <2>3. second \in DispatchOf(Context) /\ second.context = RetryContext(dispatch[1])
        /\ second.status = "prepared" /\ second.decision = "delegate"
    BY <1>2, <2>1, <2>2 DEF Preparation, Decision, DispatchOf, PrepareRetry
  <2>4. dispatch' = [dispatch EXCEPT ![2] = second]
        /\ UNCHANGED <<tree, head, plan, review, agent, answer, receipt, faults>>
    BY <1>2 DEF PrepareRetry
  <2> HIDE DEF second
  <2>5. ReviewTyped'
    BY <2>3, <2>4 DEF ReviewTyped
  <2>a. /\ dispatch[1] # None /\ dispatch[2] = None /\ review # None
        /\ Retriable(dispatch[1])
    BY <1>2 DEF PrepareRetry
  <2>d. dispatch'[2] = second /\ dispatch'[1] = dispatch[1]
    BY <2>4 DEF ReviewTyped
  <2>b. AttemptSound(1) /\ AttemptSound(2)
    BY DEF ReviewSound
  <2>6. AttemptSound(2)'
    BY <2>2, <2>3, <2>4, <2>a, <2>b, <2>d, FreshSame DEF AttemptSound
  <2>c. \A b \in Attempts \ {2} : /\ dispatch'[b] = dispatch[b]
                                  /\ agent'[b] = agent[b] /\ answer'[b] = answer[b]
    BY <2>4, <2>d
  <2>7. ReviewSound'
    <3> DEFINE a == 2
    <3>1. a \in Attempts /\ AttemptSound(a)'
      BY <2>6
    <3> HIDE DEF a
    <3> QED BY <2>4, <3>1, <2>a, <2>c, <2>d, AttemptStep DEF a
  <2> QED BY <2>5, <2>7
<1>3. CASE GiveUp
  BY <1>3 DEF GiveUp, NothingDispatched, ReviewTyped, ReviewSound, AttemptSound, Truthful,
     AgentStates
<1>4. ASSUME NEW a \in Attempts, Spawn(a)
      PROVE  ReviewTyped' /\ ReviewSound'
  <2>1. ReviewTyped'
    BY <1>4 DEF Spawn, Prepared, ReviewTyped, AgentStates
  <2>2. AttemptSound(a)'
    BY <1>4 DEF Spawn, Prepared, ReviewTyped, ReviewSound, AttemptSound, TargetFresh, Content
  <2>3. ReviewSound'
    BY <1>4, <2>2, AttemptStep DEF Spawn, Prepared, ReviewTyped, ReviewSound, AttemptSound
  <2> QED BY <2>1, <2>3
<1>5. ASSUME NEW a \in Attempts, AgentAsksForContext(a)
      PROVE  ReviewTyped' /\ ReviewSound'
  <2>1. ReviewTyped'
    BY <1>5 DEF AgentAsksForContext, ReviewTyped, AgentStates
  <2>2. AttemptSound(a)'
    BY <1>5 DEF AgentAsksForContext, ReviewTyped, ReviewSound, AttemptSound, TargetFresh, Content
  <2>3. ReviewSound'
    BY <1>5, <2>2, AttemptStep DEF AgentAsksForContext, ReviewTyped, ReviewSound, AttemptSound
  <2> QED BY <2>1, <2>3
<1>6. ASSUME NEW a \in Attempts, AgentLost(a)
      PROVE  ReviewTyped' /\ ReviewSound'
  <2>1. ReviewTyped'
    BY <1>6 DEF AgentLost, Prepared, ReviewTyped, AgentStates
  <2>2. AttemptSound(a)'
    BY <1>6 DEF AgentLost, Prepared, ReviewTyped, ReviewSound, AttemptSound, TargetFresh, Content
  <2>3. ReviewSound'
    BY <1>6, <2>2, AttemptStep DEF AgentLost, Prepared, ReviewTyped, ReviewSound, AttemptSound
  <2> QED BY <2>1, <2>3
<1>7. ASSUME NEW a \in Attempts, FinalizeBlocked(a)
      PROVE  ReviewTyped' /\ ReviewSound'
  <2>1. dispatch[a] \in DispatchOf(Context) /\ dispatch[a] # None /\ review # None
    BY <1>7 DEF FinalizeBlocked, Prepared, ReviewTyped, ReviewSound, AttemptSound
  <2>2. [dispatch[a] EXCEPT !.status = "blocked"] \in DispatchOf(Context)
    BY <2>1 DEF DispatchOf
  <2>3. dispatch' = [dispatch EXCEPT ![a] = [dispatch[a] EXCEPT !.status = "blocked"]]
        /\ UNCHANGED <<tree, head, plan, review, agent, answer, receipt, faults>>
    BY <1>7 DEF FinalizeBlocked
  <2>4. ReviewTyped'
    BY <2>2, <2>3 DEF ReviewTyped
  <2>5. AttemptSound(a) /\ dispatch[a].status = "prepared" /\ dispatch[a].decision = "blocked"
    BY <1>7 DEF ReviewSound, FinalizeBlocked, Prepared
  <2>6. /\ dispatch'[a].context = dispatch[a].context
        /\ dispatch'[a].decision = dispatch[a].decision /\ dispatch'[a].status = "blocked"
        /\ dispatch'[a] # None
    BY <2>1, <2>2, <2>3, NoneAssumption DEF ReviewTyped, DispatchOf
  <2>7. AttemptSound(a)'
    BY <2>1, <2>3, <2>5, <2>6, FreshSame DEF AttemptSound
  <2>8. \A b \in Attempts \ {a} : /\ dispatch'[b] = dispatch[b]
                                  /\ agent'[b] = agent[b] /\ answer'[b] = answer[b]
    BY <2>3
  <2>9. ReviewSound'
    BY <2>1, <2>3, <2>5, <2>7, <2>8, AttemptStep DEF ReviewSound, Retriable
  <2> QED BY <2>4, <2>9
<1>8. ASSUME NEW a \in Attempts, NEW verdict \in Verdicts, AgentAnswers(a, verdict)
      PROVE  ReviewTyped' /\ ReviewSound'
  <2>1. /\ dispatch[a] \in DispatchOf(Context) /\ dispatch[a] # None
        /\ review \in ReviewType /\ review # None /\ AttemptSound(a)
    BY <1>8 DEF AgentAnswers, ReviewTyped, ReviewSound, AttemptSound
  <2>2. answer' = [answer EXCEPT ![a] = Result(a, "agent", verdict)]
        /\ agent[a] \in {"running", "unclosed"}
        /\ agent' = [agent EXCEPT ![a] = IF agent[a] = "running" THEN "answered" ELSE agent[a]]
        /\ UNCHANGED <<tree, head, plan, review, dispatch, receipt>>
    BY <1>8 DEF AgentAnswers
  <2>3. /\ Result(a, "agent", verdict) \in AnswerType
        /\ Result(a, "agent", verdict).by = "agent"
        /\ TargetFresh(review.target) =>
             Result(a, "agent", verdict).seen = review.target.content
    BY <2>1, ResultTyped
  <2> DEFINE result == Result(a, "agent", verdict)
  <2> HIDE DEF result
  <2>4. ReviewTyped'
    BY <2>2, <2>3 DEF ReviewTyped, AgentStates, result
  <2>a. /\ answer'[a] = result
        /\ agent'[a] = IF agent[a] = "running" THEN "answered" ELSE agent[a]
        /\ dispatch' = dispatch /\ review' = review
        /\ TargetFresh(review.target)' = TargetFresh(review.target)
    BY <2>2, FreshSame DEF ReviewTyped, result
  <2>b. result.by = "agent" /\ (TargetFresh(review.target) => result.seen = review.target.content)
    BY <2>3 DEF result
  <2>5. AttemptSound(a)'
    BY <2>1, <2>2, <2>a, <2>b DEF AttemptSound
  <2>6. \A b \in Attempts \ {a} : /\ dispatch'[b] = dispatch[b]
                                  /\ agent'[b] = agent[b] /\ answer'[b] = answer[b]
    BY <2>2 DEF ReviewTyped
  <2>7. ReviewSound'
    BY <2>1, <2>2, <2>5, <2>6, AttemptStep DEF ReviewSound
  <2> QED BY <2>4, <2>7
<1>9. ASSUME NEW a \in Attempts, NEW closed \in BOOLEAN, Finalize(a, closed)
      PROVE  ReviewTyped' /\ ReviewSound'
  <2> DEFINE d == dispatch[a]
             new == Outcome(a, closed)
  <2>1. /\ d \in DispatchOf(Context) /\ d # None /\ d.status = "prepared"
        /\ review # None /\ AttemptSound(a) /\ agent[a] \in {"answered", "asking", "lost"}
    BY <1>9 DEF Finalize, Prepared, ReviewTyped, ReviewSound, AttemptSound
  <2>2. /\ dispatch' = [dispatch EXCEPT ![a] = new]
        /\ agent' = [agent EXCEPT ![a] = IF closed THEN "closed" ELSE "unclosed"]
        /\ UNCHANGED <<tree, head, plan, review, answer, receipt>>
    BY <1>9 DEF Finalize
  <2>3. /\ new \in DispatchOf(Context) /\ new.context = d.context
        /\ new.decision = d.decision /\ new.closed = closed
        /\ new.status \in {"completed", "failed"}
        /\ new.status = "completed" => agent[a] = "answered" /\ closed
    BY <2>1 DEF Outcome, DispatchOf
  <2> HIDE DEF new
  <2>4. new # None
    BY <2>3, NoneAssumption
  <2>5. ReviewTyped'
    BY <2>2, <2>3 DEF ReviewTyped, AgentStates
  <2>6. /\ dispatch'[a] = new /\ answer' = answer /\ review' = review
        /\ agent'[a] = IF closed THEN "closed" ELSE "unclosed"
        /\ TargetFresh(review.target)' = TargetFresh(review.target)
    BY <2>2, FreshSame DEF ReviewTyped
  <2>7. AttemptSound(a)'
    BY <2>1, <2>3, <2>4, <2>6 DEF AttemptSound
  <2>8. \A b \in Attempts \ {a} : /\ dispatch'[b] = dispatch[b]
                                  /\ agent'[b] = agent[b] /\ answer'[b] = answer[b]
    BY <2>2 DEF ReviewTyped
  <2>9. ReviewSound'
    BY <2>1, <2>2, <2>7, <2>8, AttemptStep DEF ReviewSound, Retriable
  <2> QED BY <2>5, <2>9
<1>10. ASSUME NEW a \in Attempts, FinalizeFallback(a)
       PROVE  ReviewTyped' /\ ReviewSound'
  <2> DEFINE d == dispatch[a]
             new == [dispatch[a] EXCEPT !.status = "fallback"]
  <2>1. /\ d \in DispatchOf(Context) /\ d # None /\ d.status = "prepared"
        /\ d.decision = "fallback" /\ review # None /\ AttemptSound(a)
    BY <1>10 DEF FinalizeFallback, Prepared, ReviewTyped, ReviewSound, AttemptSound
  <2>2. /\ dispatch' = [dispatch EXCEPT ![a] = new]
        /\ UNCHANGED <<tree, head, plan, review, agent, answer, receipt>>
    BY <1>10 DEF FinalizeFallback
  <2>3. /\ new \in DispatchOf(Context) /\ new.context = d.context
        /\ new.decision = d.decision /\ new.status = "fallback"
    BY <2>1 DEF DispatchOf
  <2> HIDE DEF new
  <2>5. ReviewTyped'
    BY <2>2, <2>3 DEF ReviewTyped
  <2>6. /\ dispatch'[a] = new /\ answer' = answer /\ review' = review /\ agent' = agent
        /\ TargetFresh(review.target)' = TargetFresh(review.target)
        /\ new # None
    BY <2>2, <2>3, FreshSame, NoneAssumption DEF ReviewTyped
  <2>7. AttemptSound(a)'
    BY <2>1, <2>3, <2>6 DEF AttemptSound
  <2>8. \A b \in Attempts \ {a} : /\ dispatch'[b] = dispatch[b]
                                  /\ agent'[b] = agent[b] /\ answer'[b] = answer[b]
    BY <2>2 DEF ReviewTyped
  <2>9. ReviewSound'
    BY <2>1, <2>2, <2>7, <2>8, AttemptStep DEF ReviewSound, Retriable
  <2> QED BY <2>5, <2>9
<1>12. ASSUME NEW a \in Attempts, NEW verdict \in Verdicts, SelfReviews(a, verdict)
       PROVE  ReviewTyped' /\ ReviewSound'
  <2> DEFINE d == dispatch[a]
             result == Result(a, "self", verdict)
  <2>1. /\ d \in DispatchOf(Context) /\ d # None /\ d.decision = "fallback"
        /\ review # None /\ review \in ReviewType /\ AttemptSound(a)
    BY <1>12 DEF SelfReviews, ReviewTyped, ReviewSound, AttemptSound
  <2>2. /\ answer' = [answer EXCEPT ![a] = result]
        /\ UNCHANGED <<tree, head, plan, review, dispatch, agent, receipt>>
    BY <1>12 DEF SelfReviews
  <2>3. /\ result \in AnswerType /\ result.by = "self"
        /\ TargetFresh(review.target) => result.seen = review.target.content
    BY <2>1, ResultTyped
  <2> HIDE DEF result
  <2>4. ReviewTyped'
    BY <2>2, <2>3 DEF ReviewTyped
  <2>5. /\ answer'[a] = result /\ dispatch' = dispatch /\ review' = review /\ agent' = agent
        /\ TargetFresh(review.target)' = TargetFresh(review.target)
    BY <2>2, FreshSame DEF ReviewTyped
  <2>6. AttemptSound(a)'
    BY <2>1, <2>3, <2>5 DEF AttemptSound
  <2>7. \A b \in Attempts \ {a} : /\ dispatch'[b] = dispatch[b]
                                  /\ agent'[b] = agent[b] /\ answer'[b] = answer[b]
    BY <2>2 DEF ReviewTyped
  <2>8. ReviewSound'
    BY <2>1, <2>2, <2>6, <2>7, AttemptStep DEF ReviewSound
  <2> QED BY <2>4, <2>8
<1>11. ASSUME NEW a \in Attempts, Assemble(a)
       PROVE  ReviewTyped' /\ ReviewSound'
  <2>1. /\ review \in ReviewType /\ review # None
        /\ dispatch[a] \in DispatchOf(Context) /\ dispatch[a] # None
        /\ answer[a] \in AnswerType /\ answer[a] # None
        /\ AttemptSound(a) /\ TargetFresh(review.target)
    BY <1>11 DEF Assemble, Fresh, ReviewTyped, ReviewSound
  <2>2. /\ receipt' = Receipt(a) /\ review' = None /\ NothingDispatched
    BY <1>11 DEF Assemble
  <2>3. Receipt(a) \in ReceiptType
    BY <2>1 DEF Receipt, ReceiptType, ReceiptOf, ReviewType, ReviewOf, AnswerType, DispatchOf, ReceiptReady
  <2>4. Truthful(Receipt(a))
    BY <2>1 DEF Truthful, Receipt, ReceiptReady, AttemptSound, SawTarget
  <2>5. ReviewTyped'
    BY <2>2, <2>3 DEF ReviewTyped, NothingDispatched, AgentStates
  <2>6. Truthful(receipt)'
    BY <2>2, <2>4 DEF Truthful
  <2>7. ReviewSound'
    BY <2>2, <2>6 DEF ReviewSound, AttemptSound, NothingDispatched
  <2> QED BY <2>5, <2>7
<1> QED
  BY <1>1, <1>2, <1>3, <1>4, <1>5, <1>6, <1>7, <1>8, <1>9, <1>10, <1>11, <1>12 DEF ReviewNext

--------------------------------------------------------------------------------
(* The ledger *)

\* A review the ledger keeps.
Kept(r) == r # None => r.ready /\ r.verdict = "passed" /\ Truthful(r)

\* A completed stage and its evidence, which are of one content.
Stood(l, s, terms) ==
  LET r == l.reviews[s]
  IN /\ r # None
     /\ terms.risk[s] = "high" => r.by = "agent"
     /\ \A v \in terms.validations[s] \cap terms.required : l.valid[s][v] = r.target

\* A ledger of its type, whatever the plan is now.
Shaped(l) ==
  /\ l \in Ledger /\ l.rev # 0
  /\ l.current \notin l.completed /\ l.carried \subseteq l.completed
  /\ l.life = "completed" => l.completed = Stages
  /\ Kept(l.final) /\ \A s \in Stages : Kept(l.reviews[s])

\* Its stages were completed on the evidence given and on the terms of the contract.
Evidenced(l, evidence, terms) ==
  /\ \A s \in l.completed : Semantics(terms, s) \in evidence
  /\ \A s \in l.completed \ l.carried : Stood(l, s, terms)

\* A ledger and the plan and attestation in force: one of an earlier revision is no
\* longer theirs.
Sound(l, evidence, p, att) ==
  /\ Shaped(l) /\ l.rev <= p.rev
  /\ l.rev = p.rev => att # None /\ att.plan = p /\ Evidenced(l, evidence, Terms[p.contract])

LedgerSound ==
  ledger # None =>
    \/ ledger = EmptyLedger(0)
    \/ ~ledger.empty /\ Sound(ledger, proved, plan, attested)

\* A revision is attested once, and it is the plan's as long as the plan has it.
AttestationSound ==
  attested # None =>
    /\ attested.plan \in Plans /\ attested.plan.rev <= plan.rev
    /\ attested.plan.rev = plan.rev => attested.plan = plan
    /\ ContractValid(Terms[attested.plan.contract])

\* A command, the history, the plan, the attestation and the archives there are.
Fits(c, e, p, att, arch) ==
  /\ c.step \in {"append", "unlink", "amend"} => ~c.new.empty
  /\ c.step = "append" /\ ~c.late => Sound(c.new, e \cup c.proves, p, att)
  /\ c.step \in {"unlink", "amend"} => Sound(c.new, e, p, att)
  /\ c.step = "archive" => /\ att # None /\ att.plan = p /\ p.rev < MaxRevision
                           /\ arch[p.rev].dir = "partial"

CommandSound(c) == Fits(c, proved, plan, attested, archive)

ArchiveSound(r) ==
  LET old == archive[r]
  IN Archived(r) =>
       /\ attested # None /\ r <= attested.plan.rev
       /\ \A s \in old.completed : Semantics(old.contract, s) \in proved
       /\ old.same => /\ ledger # None
                      /\ ~ledger.empty =>
                           /\ ledger.rev <= r
                           /\ ledger.rev = r => /\ old.completed = ledger.completed
                                                /\ r < plan.rev => ledger.reapproval

AllTerms == {Terms[c] : c \in DOMAIN Terms}
AllSemantics == {Semantics(c, s) : c \in AllTerms, s \in Stages}

CommandType ==
  [step : {"append", "save", "archive", "unlink", "amend"}, new : Ledger,
   proves : SUBSET AllSemantics, late : BOOLEAN]

ArchiveType ==
  [dir : {"none", "partial", "done"}, completed : SUBSET Stages,
   contract : AllTerms \cup {None}, same : BOOLEAN]

TaskTyped ==
  /\ archive \in [1..(MaxRevision - 1) -> ArchiveType]
  /\ command \in [Slots -> CommandType \cup {None}]
  /\ planReview \in ReceiptType \cup {None}

\* One revision is not archived by two commands at a time.
OneArchive ==
  \A j, k \in Slots : command[j] # None /\ command[k] # None /\ j # k =>
    ~(command[j].step = "archive" /\ command[k].step = "archive")

TaskSound ==
  /\ AttestationSound /\ LedgerSound /\ OneArchive
  /\ \A k \in Slots : command[k] # None => CommandSound(command[k])
  /\ \A r \in 1..(MaxRevision - 1) : ArchiveSound(r)
  /\ ledger = None => \A k \in Slots : command[k] = None

IInv == TypeOK /\ ReviewTyped /\ ReviewSound /\ TaskTyped /\ TaskSound

--------------------------------------------------------------------------------
(* What the ledgers keep *)

LEMMA EmptyShaped ==
  ASSUME NEW r \in 0..MaxRevision
  PROVE  /\ EmptyLedger(r) \in Ledger
         /\ r # 0 => Shaped(EmptyLedger(r))
         /\ EmptyLedger(r).completed = {} /\ EmptyLedger(r).rev = r
BY NoneAssumption DEF EmptyLedger, Ledger, Shaped, Kept

LEMMA SoundGrows ==
  ASSUME NEW l, NEW e, NEW more, NEW p, NEW att, Sound(l, e, p, att), e \subseteq more
  PROVE  Sound(l, more, p, att)
BY DEF Sound, Evidenced

\* What was sound stays so when the plan or its attestation becomes another, provided
\* it was not of this revision.
LEMMA SoundPast ==
  ASSUME NEW l, NEW e, NEW more, NEW p \in Plans, NEW q \in Plans, NEW a, NEW b,
         Sound(l, e, p, a), p.rev <= q.rev,
         p.rev < q.rev \/ a = None \/ a.plan # p
  PROVE  Sound(l, more, q, b)
<1>1. l.rev \in Nat /\ p.rev \in Nat /\ q.rev \in Nat
  BY BoundsAssumption DEF Sound, Shaped, Ledger, Plans
<1> QED BY <1>1 DEF Sound

LEMMA ReplaySound ==
  ASSUME IInv, Readable
  PROVE  /\ Sound(Replay, proved, plan, attested)
         /\ Replay.rev = plan.rev /\ Replay \in Ledger
<1>1. plan.rev \in 1..MaxRevision /\ plan \in Plans
  BY DEF IInv, TypeOK, Plans
<1>2. CASE ledger.empty
  <2>1. Replay = EmptyLedger(plan.rev)
    BY <1>2 DEF Replay
  <2> QED BY <1>1, <2>1, EmptyShaped DEF Sound, Evidenced, Readable, Approved
<1>3. CASE ~ledger.empty
  <2>1. Replay = ledger /\ ledger.rev = plan.rev /\ ledger # None
    BY <1>3 DEF Replay, Readable
  <2>2. ledger # EmptyLedger(0)
    BY <1>3 DEF EmptyLedger
  <2> QED BY <2>1, <2>2 DEF IInv, TaskSound, LedgerSound, Sound, Shaped
<1> QED BY <1>2, <1>3

LEMMA ClosedShaped ==
  ASSUME NEW l \in Ledger
  PROVE  /\ [l EXCEPT !.empty = FALSE] \in Ledger /\ ~[l EXCEPT !.empty = FALSE].empty
         /\ \A e, p, a : Sound(l, e, p, a) => Sound([l EXCEPT !.empty = FALSE], e, p, a)
<1> DEFINE m == [l EXCEPT !.empty = FALSE]
<1>1. /\ m \in Ledger /\ m.rev = l.rev /\ m.completed = l.completed /\ m.carried = l.carried
      /\ m.current = l.current /\ m.life = l.life /\ m.final = l.final /\ ~m.empty
      /\ m.reviews = l.reviews /\ m.valid = l.valid
  BY DEF Ledger
<1> HIDE DEF m
<1>2. Shaped(l) => Shaped(m)
  BY <1>1 DEF Shaped
<1>3. \A e, c : Evidenced(l, e, c) => Evidenced(m, e, c)
  BY <1>1 DEF Evidenced, Stood
<1>4. ASSUME NEW e, NEW p, NEW a, Sound(l, e, p, a) PROVE Sound(m, e, p, a)
  BY <1>1, <1>2, <1>3, <1>4 DEF Sound
<1> QED BY <1>1, <1>4 DEF m

--------------------------------------------------------------------------------
(* Steps by what they leave alone *)

\* The steps that leave the review as it is, and what it was frozen from.
LEMMA ReviewKept ==
  ASSUME TypeOK, ReviewTyped, ReviewSound, UNCHANGED <<review, dispatch, agent, answer>>,
         receipt' = receipt \/ receipt' = None,
         UNCHANGED <<tree, head, plan>> \/ review = None
  PROVE  ReviewTyped' /\ ReviewSound'
<1>1. ReviewTyped'
  BY DEF ReviewTyped
<1>2. receipt' # None => Truthful(receipt')
  BY DEF ReviewSound
<1>3. CASE review = None
  <2>1. \A a \in Attempts : dispatch[a] = None /\ answer[a] = None
    BY <1>3 DEF ReviewSound, AttemptSound
  <2>2. \A a \in Attempts : AttemptSound(a)'
    BY <1>3, <2>1 DEF ReviewSound, AttemptSound
  <2> QED BY <1>1, <1>2, <1>3, <2>1, <2>2 DEF ReviewSound, Truthful, Attempts
<1>4. CASE review # None /\ UNCHANGED <<tree, head, plan>>
  <2>1. \A a \in Attempts : AttemptSound(a)'
    BY <1>4, FreshSame DEF ReviewSound, AttemptSound
  <2> QED BY <1>1, <1>2, <1>4, <2>1 DEF ReviewSound, Truthful, Retriable
<1> QED BY <1>1, <1>3, <1>4

\* The working tree changes under a review: if it is as it was frozen after that, it was
\* changed back.
LEMMA TreeWritten ==
  ASSUME TypeOK, ReviewTyped, ReviewSound, NEW content, WriteTree(content),
         UNCHANGED <<head, plan, dispatch, agent, answer, receipt>>
  PROVE  ReviewTyped' /\ ReviewSound'
<1>1. CASE review = None
  BY <1>1, ReviewKept DEF WriteTree
<1>2. CASE review # None
  <2>1. /\ review \in ReviewType /\ review' \in ReviewType /\ review' # None
        /\ review'.target = review.target /\ review'.context = review.context
        /\ review'.policy = review.policy /\ (review.restored => review'.restored)
    <3>1. review \in ReviewType
      BY <1>2 DEF ReviewTyped
    <3>2. /\ [review EXCEPT !.restored = TRUE] \in ReviewType
          /\ review' = review \/ review' = [review EXCEPT !.restored = TRUE]
      BY <3>1 DEF WriteTree, ReviewType, ReviewOf
    <3>3. review' # None
      BY <1>2, <3>2, NoneAssumption
    <3>4. /\ [review EXCEPT !.restored = TRUE].target = review.target
          /\ [review EXCEPT !.restored = TRUE].context = review.context
          /\ [review EXCEPT !.restored = TRUE].policy = review.policy
          /\ [review EXCEPT !.restored = TRUE].restored
      BY <3>1 DEF ReviewType, ReviewOf
    <3> QED BY <3>1, <3>2, <3>3, <3>4
  <2>2. ReviewTyped'
    BY <2>1 DEF ReviewTyped
  <2>3. TargetFresh(review.target)' => TargetFresh(review.target) \/ (review.restored)'
    <3>1. review.target.kind \in TargetKinds
      BY <2>1 DEF ReviewType, ReviewOf, Target
    <3>2. CASE review.target.kind = "git-diff" /\ review.target.content = <<content, head>>
      BY <1>2, <2>1, <3>2 DEF WriteTree, ReviewType, ReviewOf
    <3>3. CASE ~(review.target.kind = "git-diff" /\ review.target.content = <<content, head>>)
      BY <1>2, <2>1, <3>1, <3>3 DEF WriteTree, TargetFresh, Content, TargetKinds
    <3> QED BY <3>2, <3>3
  <2>4. \A a \in Attempts : AttemptSound(a)'
    BY <1>2, <2>1, <2>3 DEF ReviewSound, AttemptSound
  <2> QED BY <1>2, <2>1, <2>2, <2>4 DEF ReviewSound, Truthful, Retriable
<1> QED BY <1>1, <1>2

\* A new review, of what there is now.
LEMMA StartReviewSound ==
  ASSUME TypeOK, ReviewTyped, ReviewSound, NEW scope \in Scope, NEW kind \in TargetKinds,
         NEW claims \in SUBSET Validations, NEW policy \in Policies,
         StartReview(scope, kind, claims, policy)
  PROVE  ReviewTyped' /\ ReviewSound'
<1> DEFINE new == [target |-> TargetOf(scope, kind), context |-> ContextOf(claims),
                   policy |-> policy, restored |-> FALSE]
<1>1. /\ review' = new /\ receipt' = None /\ NothingDispatched /\ UNCHANGED <<tree, head, plan>>
  BY DEF StartReview
<1>2. new \in ReviewType
  BY ContentTyped DEF TargetOf, ContextOf, ReviewType, ReviewOf, Target, Context, TypeOK
<1>3. ReviewTyped'
  BY <1>1, <1>2 DEF ReviewTyped, NothingDispatched, AgentStates
<1>4. ReviewSound'
  BY <1>1 DEF ReviewSound, AttemptSound, NothingDispatched, Attempts
<1> QED BY <1>3, <1>4

\* The steps that leave the task and its commands as they are.
LEMMA TaskKept ==
  ASSUME TaskTyped, TaskSound,
         UNCHANGED <<plan, attested, archive, ledger, proved, command>>,
         planReview' = planReview \/ planReview' \in ReceiptType
  PROVE  TaskTyped' /\ TaskSound'
<1>1. TaskTyped'
  BY DEF TaskTyped
<1>2. AttestationSound' /\ LedgerSound' /\ OneArchive'
  BY DEF TaskSound, AttestationSound, LedgerSound, OneArchive
<1>3. \A k \in Slots : (command[k] # None => CommandSound(command[k]))'
  BY DEF TaskSound, CommandSound, Fits, Approved
<1>4. \A r \in 1..(MaxRevision - 1) : ArchiveSound(r)'
  BY DEF TaskSound, ArchiveSound, Archived
<1> QED BY <1>1, <1>2, <1>3, <1>4 DEF TaskSound

LEMMA FaultTyped ==
  ASSUME TypeOK, Fault \/ UNCHANGED faults
  PROVE  faults' \in 0..MaxFaults
BY FaultsAssumption DEF TypeOK, Fault

--------------------------------------------------------------------------------
(* Events *)

\* A command with an event that is sound when it is issued.
LEMMA EventSound ==
  ASSUME IInv, NEW new, NEW proves \in SUBSET AllSemantics, Event(new, proves),
         Sound(new, proved \cup proves, plan, attested), Fault \/ UNCHANGED faults
  PROVE  IInv'
<1> DEFINE c == Command("append", [new EXCEPT !.empty = FALSE], proves)
<1>1. /\ command' = [command EXCEPT !["waited"] = c] /\ command["waited"] = None
      /\ UNCHANGED <<workVars, taskVars, runtimeVars, dispatchVars>> /\ ledger # None
  BY DEF Event, Issue, Idle, Readable
<1>2. new \in Ledger
  BY DEF Sound, Shaped
<1>3. /\ c \in CommandType /\ c.step = "append" /\ ~c.new.empty /\ ~c.late /\ c.proves = proves
      /\ Sound(c.new, proved \cup proves, plan, attested)
  BY <1>2, ClosedShaped DEF Command, CommandType
<1> HIDE DEF c
<1>4. TypeOK'
  <2>1. \A k \in Slots : command[k] # None => command[k] \in CommandType
    BY DEF IInv, TaskTyped
  <2>2. \A k \in Slots : command'[k] # None => command'[k].step \in
          {"append", "save", "archive", "unlink", "amend"}
    BY <1>1, <1>3, <2>1 DEF CommandType, IInv, TaskTyped, Slots
  <2> QED BY <1>1, <2>2, FaultTyped DEF IInv, TypeOK, workVars, taskVars, runtimeVars,
         dispatchVars
<1>5. ReviewTyped' /\ ReviewSound'
  BY <1>1, ReviewKept DEF IInv, workVars, taskVars, dispatchVars
<1>6. TaskTyped'
  BY <1>1, <1>3 DEF IInv, TaskTyped, taskVars
<1>7. \A k \in Slots : (command[k] # None => CommandSound(command[k]))'
  <2>1. CommandSound(c)'
    BY <1>1, <1>3 DEF CommandSound, Fits, taskVars, runtimeVars
  <2>2. \A k \in Slots \ {"waited"} : command[k] # None => CommandSound(command[k])'
    BY <1>1 DEF IInv, TaskSound, CommandSound, Fits, Approved, taskVars, runtimeVars, TaskTyped
  <2> QED BY <1>1, <2>1, <2>2 DEF IInv, TaskTyped, Slots
<1>8. (AttestationSound /\ LedgerSound)' /\ OneArchive'
  <2>1. (AttestationSound /\ LedgerSound)'
    BY <1>1 DEF IInv, TaskSound, AttestationSound, LedgerSound, taskVars, runtimeVars
  <2>2. OneArchive'
    BY <1>1, <1>3 DEF IInv, TaskSound, TaskTyped, OneArchive, Slots
  <2> QED BY <2>1, <2>2
<1>9. \A r \in 1..(MaxRevision - 1) : ArchiveSound(r)'
  BY <1>1 DEF IInv, TaskSound, ArchiveSound, Archived, taskVars, runtimeVars
<1> QED BY <1>1, <1>4, <1>5, <1>6, <1>7, <1>8, <1>9 DEF IInv, TaskSound, runtimeVars

\* A change of the ledger that leaves the completed stages and their evidence alone.
LEMMA SoundUpdate ==
  ASSUME NEW l, NEW e, NEW p, NEW a, Sound(l, e, p, a),
         NEW m \in Ledger, m.rev = l.rev, m.completed = l.completed, m.carried = l.carried,
         m.current \notin m.completed, m.life = "completed" => m.completed = Stages,
         Kept(m.final), \A s \in Stages : Kept(m.reviews[s]),
         \A s \in l.completed : m.reviews[s] = l.reviews[s] /\ m.valid[s] = l.valid[s]
  PROVE  Sound(m, e, p, a)
<1>1. Shaped(m)
  BY DEF Sound, Shaped
<1>2. \A c : Evidenced(l, e, c) => Evidenced(m, e, c)
  BY DEF Evidenced, Stood
<1> QED BY <1>1, <1>2 DEF Sound

\* The events that only move the life of the task.
LEMMA LifeSound ==
  ASSUME IInv, Readable,
         NEW life \in {"approved", "in_progress", "blocked", "completed", "aborted"},
         NEW reapproval \in BOOLEAN,
         life = "completed" => AllDone(Replay)
  PROVE  Sound([Replay EXCEPT !.life = life, !.reapproval = reapproval], proved, plan, attested)
<1> DEFINE l == Replay
           m == [l EXCEPT !.life = life, !.reapproval = reapproval]
<1>1. Sound(l, proved, plan, attested) /\ l \in Ledger
  BY ReplaySound
<1>2. /\ m \in Ledger /\ m.rev = l.rev /\ m.completed = l.completed /\ m.carried = l.carried
      /\ m.current = l.current /\ m.life = life /\ m.final = l.final
      /\ m.reviews = l.reviews /\ m.valid = l.valid
  BY <1>1 DEF Ledger
<1> HIDE DEF m
<1>3. l.current \notin l.completed /\ Kept(l.final) /\ \A s \in Stages : Kept(l.reviews[s])
  BY <1>1 DEF Sound, Shaped
<1>4. Sound(m, proved, plan, attested)
  BY <1>1, <1>2, <1>3, SoundUpdate DEF AllDone
<1> QED BY <1>4 DEF m

\* A receipt the gate takes may be kept when it passed.
LEMMA GateKept ==
  ASSUME IInv, NEW l, NEW scope, ReviewGate(l, receipt, scope)
  PROVE  /\ receipt \in ReceiptType
         /\ Kept(IF receipt.verdict = "passed" THEN receipt ELSE None)
         /\ receipt.policy = ExpectedPolicy(scope)
BY DEF IInv, ReviewTyped, ReviewSound, ReviewGate, ReceiptValid, Kept

LEMMA LifeEvents ==
  ASSUME IInv, ExecutionStarted \/ Blocked \/ Resumed \/ AmendmentRequested \/ Aborted \/ Completed
  PROVE  IInv'
<1> DEFINE new(life, re) == [Replay EXCEPT !.life = life, !.reapproval = re]
<1>1. ASSUME NEW life \in {"approved", "in_progress", "blocked", "completed", "aborted"},
             NEW re \in BOOLEAN, Event(new(life, re), {}), Fault \/ UNCHANGED faults,
             life = "completed" => AllDone(Replay)
      PROVE  IInv'
  <2>1. Readable
    BY <1>1 DEF Event
  <2>2. Sound(new(life, re), proved, plan, attested)
    BY <1>1, <2>1, LifeSound
  <2> QED BY <1>1, <2>2, SoundGrows, EventSound
<1>2. ASSUME NEW life, Event([Replay EXCEPT !.life = life], {})
      PROVE  Replay.reapproval \in BOOLEAN /\ Event(new(life, Replay.reapproval), {})
  <2>1. Replay \in Ledger
    BY <1>2, ReplaySound DEF Event
  <2>2. [Replay EXCEPT !.life = life] = new(life, Replay.reapproval)
    BY <2>1 DEF Ledger
  <2> QED BY <1>2, <2>1, <2>2 DEF Ledger
<1>3. CASE ExecutionStarted
  BY <1>1, <1>2, <1>3 DEF ExecutionStarted
<1>4. CASE Blocked
  BY <1>1, <1>2, <1>4 DEF Blocked
<1>5. CASE Resumed
  BY <1>1, <1>2, <1>5 DEF Resumed
<1>6. CASE AmendmentRequested
  BY <1>1, <1>6 DEF AmendmentRequested
<1>7. CASE Aborted
  BY <1>1, <1>2, <1>7 DEF Aborted
<1>8. CASE Completed
  BY <1>1, <1>2, <1>8 DEF Completed
<1> QED BY <1>3, <1>4, <1>5, <1>6, <1>7, <1>8

\* An attempt begins, or ends, without evidence, and is not of a completed stage.
LEMMA AttemptLedger ==
  ASSUME IInv, Readable, NEW s \in Stages, s \notin Replay.completed, NEW n \in Nat,
         NEW current \in {s, None}
  PROVE  Sound([Unproved(Replay, s) EXCEPT !.attempts[s] = n, !.current = current],
               proved, plan, attested)
<1> DEFINE l == Replay
           u == Unproved(l, s)
           m == [u EXCEPT !.attempts[s] = n, !.current = current]
           none == [v \in Validations |-> None]
<1>1. Sound(l, proved, plan, attested) /\ l \in Ledger /\ Shaped(l)
  BY ReplaySound DEF Sound
<1>2. u = [l EXCEPT !.valid = [l.valid EXCEPT ![s] = none],
                    !.reviews = [l.reviews EXCEPT ![s] = None]]
  BY <1>1 DEF Unproved, Ledger
<1>3. [l.valid EXCEPT ![s] = none] \in [Stages -> [Validations -> Target \cup {None}]]
      /\ [l.reviews EXCEPT ![s] = None] \in [Stages -> ReceiptType \cup {None}]
  BY <1>1 DEF Ledger
<1>4. u \in Ledger
  BY <1>1, <1>2, <1>3 DEF Ledger
<1>5. /\ u.rev = l.rev /\ u.completed = l.completed /\ u.carried = l.carried
      /\ u.current = l.current /\ u.life = l.life /\ u.final = l.final /\ u.attempts = l.attempts
      /\ u.reviews = [l.reviews EXCEPT ![s] = None]
      /\ u.valid = [l.valid EXCEPT ![s] = none]
  BY <1>1, <1>2 DEF Ledger
<1> HIDE DEF u
<1>6. m = [u EXCEPT !.attempts = [u.attempts EXCEPT ![s] = n], !.current = current]
  OBVIOUS
<1>7. [u.attempts EXCEPT ![s] = n] \in [Stages -> Nat] /\ current \in Stages \cup {None}
  BY <1>4 DEF Ledger
<1>8. /\ m \in Ledger /\ m.rev = u.rev /\ m.completed = u.completed /\ m.carried = u.carried
      /\ m.current = current /\ m.life = u.life /\ m.final = u.final
      /\ m.reviews = u.reviews /\ m.valid = u.valid
  BY <1>4, <1>6, <1>7 DEF Ledger
<1> HIDE DEF m
<1>9. /\ l.completed \subseteq Stages /\ None \notin l.completed
      /\ l.reviews \in [Stages -> ReceiptType \cup {None}]
      /\ l.valid \in [Stages -> [Validations -> Target \cup {None}]]
  BY <1>1, NoneAssumption DEF Ledger
<1>10. Kept(m.final) /\ \A t \in Stages : Kept(m.reviews[t])
  BY <1>1, <1>5, <1>8, <1>9 DEF Shaped, Kept
<1>11. \A t \in l.completed : m.reviews[t] = l.reviews[t] /\ m.valid[t] = l.valid[t]
  BY <1>5, <1>8, <1>9
<1>12. m.life = "completed" => m.completed = Stages
  BY <1>1, <1>5, <1>8 DEF Shaped
<1>13. m.current \notin m.completed
  BY <1>5, <1>8, <1>9
<1>14. m \in Ledger /\ m.rev = l.rev /\ m.completed = l.completed /\ m.carried = l.carried
  BY <1>5, <1>8
<1>15. Sound(m, proved, plan, attested)
  BY <1>1, <1>10, <1>11, <1>12, <1>13, <1>14, SoundUpdate
<1> QED BY <1>15 DEF m, u

LEMMA AttemptEvents ==
  ASSUME IInv, NEW s \in Stages, StageStarted(s) \/ AttemptFailed(s)
  PROVE  IInv'
<1> DEFINE l == Replay
<1>1. Readable
  BY DEF StageStarted, AttemptFailed
<1>2. l \in Ledger /\ Sound(l, proved, plan, attested) /\ l.attempts \in [Stages -> Nat]
      /\ l.current \notin l.completed
  BY <1>1, ReplaySound DEF Ledger, Sound, Shaped
<1>3. Unproved(l, s).attempts = l.attempts
  BY <1>2 DEF Unproved, Ledger
<1>4. CASE StageStarted(s)
  <2> DEFINE n == l.attempts[s] + 1
             m == [Unproved(l, s) EXCEPT !.attempts[s] = n, !.current = s]
  <2>1. Event(m, {}) /\ UNCHANGED faults /\ s \notin l.completed
    BY <1>3, <1>4 DEF StageStarted
  <2>2. n \in Nat
    BY <1>2
  <2> HIDE DEF n
  <2>3. Sound(m, proved, plan, attested)
    BY <1>1, <2>1, <2>2, AttemptLedger
  <2> HIDE DEF m
  <2> QED BY <2>1, <2>3, SoundGrows, EventSound
<1>5. CASE AttemptFailed(s)
  <2> DEFINE m == [Unproved(l, s) EXCEPT !.attempts[s] = l.attempts[s], !.current = None]
  <2>1. Event([Unproved(l, s) EXCEPT !.current = None], {}) /\ Fault /\ s \notin l.completed
    BY <1>2, <1>5 DEF AttemptFailed
  <2>2. Unproved(l, s) \in Ledger
    <3>1. Unproved(l, s) = [l EXCEPT !.valid = [l.valid EXCEPT ![s] = [v \in Validations |-> None]],
                                     !.reviews = [l.reviews EXCEPT ![s] = None]]
      BY <1>2 DEF Unproved, Ledger
    <3>2. [l.valid EXCEPT ![s] = [v \in Validations |-> None]]
            \in [Stages -> [Validations -> Target \cup {None}]]
          /\ [l.reviews EXCEPT ![s] = None] \in [Stages -> ReceiptType \cup {None}]
      BY <1>2 DEF Ledger
    <3> QED BY <1>2, <3>1, <3>2 DEF Ledger
  <2>3. [Unproved(l, s) EXCEPT !.current = None] = m
    <3> DEFINE u == Unproved(l, s)
    <3>1. [u.attempts EXCEPT ![s] = l.attempts[s]] = u.attempts
      BY <1>2, <1>3
    <3>2. m = [u EXCEPT !.attempts = [u.attempts EXCEPT ![s] = l.attempts[s]], !.current = None]
      OBVIOUS
    <3> HIDE DEF u
    <3> QED BY <2>2, <3>1, <3>2 DEF Ledger, u
  <2>4. Sound(m, proved, plan, attested)
    BY <1>1, <1>2, <2>1, AttemptLedger
  <2> HIDE DEF m
  <2> QED BY <2>1, <2>3, <2>4, SoundGrows, EventSound
<1> QED BY <1>4, <1>5

\* Evidence recorded for the stage at hand.
LEMMA StageLedger ==
  ASSUME IInv, Readable, NEW s \in Stages, s \notin Replay.completed,
         NEW val \in [Validations -> Target \cup {None}],
         NEW rev \in ReceiptType \cup {None}, Kept(rev), NEW based \in BOOLEAN
  PROVE  Sound([Replay EXCEPT !.valid = [Replay.valid EXCEPT ![s] = val],
                              !.reviews = [Replay.reviews EXCEPT ![s] = rev],
                              !.based = based], proved, plan, attested)
<1> DEFINE l == Replay
           f == [l.valid EXCEPT ![s] = val]
           g == [l.reviews EXCEPT ![s] = rev]
           m == [l EXCEPT !.valid = f, !.reviews = g, !.based = based]
<1>1. Sound(l, proved, plan, attested) /\ l \in Ledger /\ Shaped(l)
  BY ReplaySound DEF Sound
<1>2. /\ f \in [Stages -> [Validations -> Target \cup {None}]]
      /\ g \in [Stages -> ReceiptType \cup {None}]
      /\ l.completed \subseteq Stages
  BY <1>1 DEF Ledger
<1>3. \A t \in Stages : g[t] = IF t = s THEN rev ELSE l.reviews[t]
  BY <1>1 DEF Ledger
<1>4. \A t \in Stages \ {s} : f[t] = l.valid[t]
  BY <1>1 DEF Ledger
<1> HIDE DEF f, g
<1>5. /\ m \in Ledger /\ m.rev = l.rev /\ m.completed = l.completed /\ m.carried = l.carried
      /\ m.current = l.current /\ m.life = l.life /\ m.final = l.final
      /\ m.reviews = g /\ m.valid = f
  BY <1>1, <1>2 DEF Ledger
<1> HIDE DEF m
<1>6. Kept(m.final) /\ m.current \notin m.completed
      /\ (m.life = "completed" => m.completed = Stages)
  BY <1>1, <1>5 DEF Shaped
<1>7. \A t \in Stages : Kept(m.reviews[t])
  BY <1>1, <1>3, <1>5 DEF Shaped
<1>8. \A t \in l.completed : m.reviews[t] = l.reviews[t] /\ m.valid[t] = l.valid[t]
  BY <1>2, <1>3, <1>4, <1>5
<1>9. Sound(m, proved, plan, attested)
  BY <1>1, <1>5, <1>6, <1>7, <1>8, SoundUpdate
<1> QED BY <1>9 DEF m, f, g

LEMMA EvidenceEvents ==
  ASSUME IInv, NEW s \in Stages,
         \/ \E v \in Validations, passed \in BOOLEAN : RecordValidation(s, v, passed)
         \/ RecordStageReview(s)
  PROVE  IInv'
<1> DEFINE l == Replay
<1>1. Readable /\ l.current = s
  BY DEF RecordValidation, RecordStageReview
<1>2. /\ l \in Ledger /\ s \notin l.completed
      /\ l.valid \in [Stages -> [Validations -> Target \cup {None}]]
      /\ l.reviews \in [Stages -> ReceiptType \cup {None}] /\ l.attempts \in [Stages -> Nat]
      /\ l.based \in BOOLEAN /\ \A t \in Stages : Kept(l.reviews[t])
  BY <1>1, ReplaySound DEF Ledger, Sound, Shaped
<1>3. ASSUME NEW v \in Validations, NEW passed \in BOOLEAN, RecordValidation(s, v, passed)
      PROVE  IInv'
  <2> DEFINE target == IF passed THEN StageTarget(l, s) ELSE None
             rev == IF passed THEN l.reviews[s] ELSE None
             val == [l.valid[s] EXCEPT ![v] = target]
             m == [l EXCEPT !.valid = [l.valid EXCEPT ![s] = val],
                            !.reviews = [l.reviews EXCEPT ![s] = rev], !.based = l.based]
             new == [l EXCEPT !.valid[s][v] = target, !.reviews[s] = rev]
  <2>1. target \in Target \cup {None}
    BY <1>2, ContentTyped DEF IInv, StageTarget, TargetOf, StageScope, Target, Scope, TargetKinds
  <2>2. Event(new, {}) /\ (Fault \/ UNCHANGED faults)
    BY <1>3 DEF RecordValidation, Judged
  <2> HIDE DEF target
  <2>3. val \in [Validations -> Target \cup {None}] /\ rev \in ReceiptType \cup {None}
        /\ Kept(rev)
    BY <1>2, <2>1 DEF Kept
  <2> HIDE DEF rev
  <2>4. new = [l EXCEPT !.valid = [l.valid EXCEPT ![s] = val],
                        !.reviews = [l.reviews EXCEPT ![s] = rev]]
    OBVIOUS
  <2> HIDE DEF val, new
  <2>5. new = m
    BY <1>2, <2>4 DEF Ledger
  <2>6. Sound(m, proved, plan, attested)
    BY <1>1, <1>2, <2>3, StageLedger
  <2> HIDE DEF m
  <2> QED BY <2>2, <2>5, <2>6, SoundGrows, EventSound
<1>4. CASE RecordStageReview(s)
  <2> DEFINE passed == receipt.verdict = "passed"
             rev == IF passed THEN receipt ELSE None
             based == l.based \/ passed
             m == [l EXCEPT !.valid = [l.valid EXCEPT ![s] = l.valid[s]],
                            !.reviews = [l.reviews EXCEPT ![s] = rev], !.based = based]
             new == [l EXCEPT !.reviews[s] = rev, !.based = based]
  <2>1. Event(new, {}) /\ UNCHANGED faults
        /\ ReviewGate(l, receipt, StageScope(s, l.attempts[s]))
    BY <1>4 DEF RecordStageReview
  <2>2. rev \in ReceiptType \cup {None} /\ Kept(rev) /\ based \in BOOLEAN
        /\ l.valid[s] \in [Validations -> Target \cup {None}]
    BY <1>2, <2>1, GateKept
  <2> HIDE DEF rev, based
  <2>3. new = [l EXCEPT !.reviews = [l.reviews EXCEPT ![s] = rev], !.based = based]
    OBVIOUS
  <2>4. [l.valid EXCEPT ![s] = l.valid[s]] = l.valid
    BY <1>2
  <2> HIDE DEF new
  <2>5. new = m
    BY <1>2, <2>3, <2>4 DEF Ledger
  <2>6. Sound(m, proved, plan, attested)
    BY <1>1, <1>2, <2>2, StageLedger
  <2> HIDE DEF m
  <2> QED BY <2>1, <2>5, <2>6, SoundGrows, EventSound
<1> QED BY <1>3, <1>4

LEMMA ExpectedOfHighRisk ==
  ASSUME NEW s, NEW n, contract.risk[s] = "high"
  PROVE  ExpectedPolicy(StageScope(s, n)) = "strict"
BY DEF ExpectedPolicy, StageScope

LEMMA CompletionEvent ==
  ASSUME IInv, NEW s \in Stages, StageCompleted(s)
  PROVE  IInv'
<1> DEFINE l == Replay
           r == l.reviews[s]
           m == [l EXCEPT !.current = None, !.completed = l.completed \cup {s}]
           proves == {Semantics(contract, s)}
<1>1. Readable /\ l.current = s
  BY DEF StageCompleted
<1>2. /\ l \in Ledger /\ Sound(l, proved, plan, attested) /\ Shaped(l)
      /\ l.rev = plan.rev /\ Evidenced(l, proved, contract)
  BY <1>1, ReplaySound DEF Sound, contract
<1>3. /\ Event(m, proves) /\ UNCHANGED faults
      /\ contract.validations[s] \cap contract.required \subseteq Claims(l, s)
      /\ r # None /\ \A v \in Claims(l, s) : l.valid[s][v] = r.target
      /\ ReviewGate(l, r, StageScope(s, l.attempts[s]))
      /\ l.life \notin Terminal
  BY DEF StageCompleted, Event
<1>4. /\ m \in Ledger /\ m.rev = l.rev /\ m.completed = l.completed \cup {s}
      /\ m.carried = l.carried /\ m.current = None /\ m.life = l.life /\ m.final = l.final
      /\ m.reviews = l.reviews /\ m.valid = l.valid
      /\ l.completed \subseteq Stages /\ None \notin Stages
  BY <1>2, NoneAssumption DEF Ledger
<1> HIDE DEF m
<1>5. Shaped(m)
  BY <1>2, <1>3, <1>4 DEF Shaped, Terminal
<1>6. proves \in SUBSET AllSemantics
  BY DEF IInv, TypeOK, Plans, AllSemantics, AllTerms, contract
<1>7. Stood(m, s, contract)
  <2>1. contract.risk[s] = "high" => r.by = "agent"
    BY <1>2, <1>3, ExpectedOfHighRisk DEF ReviewGate, ReceiptValid, Shaped, Kept, Truthful
  <2> QED BY <1>3, <1>4, <2>1 DEF Stood
<1>8. Evidenced(m, proved \cup proves, contract)
  BY <1>2, <1>4, <1>7 DEF Evidenced, Stood
<1>9. Sound(m, proved \cup proves, plan, attested)
  BY <1>2, <1>4, <1>5, <1>8 DEF Sound, contract
<1> HIDE DEF proves
<1> QED BY <1>3, <1>6, <1>9, EventSound

\* Commits and the final review leave the stages alone.
LEMMA ClosingEvents ==
  ASSUME IInv,
         (\E s \in Stages : CommitRecorded(s)) \/ FinalCommitRecorded \/ RecordFinalReview
  PROVE  IInv'
<1> DEFINE l == Replay
           m(commits, final) == [l EXCEPT !.commits = commits, !.final = final]
<1>1. Readable
  BY DEF CommitRecorded, FinalCommitRecorded, RecordFinalReview
<1>2. /\ l \in Ledger /\ Sound(l, proved, plan, attested) /\ Shaped(l)
      /\ l.commits \in SUBSET (Stages \cup {"final"}) /\ l.final \in ReceiptType \cup {None}
      /\ Kept(l.final)
  BY <1>1, ReplaySound DEF Sound, Ledger, Shaped
<1>3. ASSUME NEW commits \in SUBSET (Stages \cup {"final"}), NEW final \in ReceiptType \cup {None},
             Kept(final), Event(m(commits, final), {}), UNCHANGED faults
      PROVE  IInv'
  <2> DEFINE new == m(commits, final)
  <2>1. /\ new \in Ledger /\ new.rev = l.rev /\ new.completed = l.completed
        /\ new.carried = l.carried /\ new.current = l.current /\ new.life = l.life
        /\ new.final = final /\ new.reviews = l.reviews /\ new.valid = l.valid
    BY <1>2 DEF Ledger
  <2>2. Event(new, {})
    BY <1>3
  <2> HIDE DEF new
  <2>3. Sound(new, proved, plan, attested)
    BY <1>2, <1>3, <2>1, SoundUpdate DEF Shaped
  <2> QED BY <1>3, <2>2, <2>3, SoundGrows, EventSound
<1>4. ASSUME NEW s \in Stages, CommitRecorded(s) PROVE IInv'
  <2>1. [l EXCEPT !.commits = l.commits \cup {s}] = m(l.commits \cup {s}, l.final)
    BY <1>2 DEF Ledger
  <2>2. Event([l EXCEPT !.commits = l.commits \cup {s}], {}) /\ UNCHANGED faults
    BY <1>4 DEF CommitRecorded
  <2>3. l.commits \cup {s} \in SUBSET (Stages \cup {"final"})
    BY <1>2
  <2> HIDE DEF m
  <2> QED BY <1>2, <1>3, <2>1, <2>2, <2>3
<1>5. CASE FinalCommitRecorded
  BY <1>2, <1>3, <1>5 DEF FinalCommitRecorded, Kept
<1>6. CASE RecordFinalReview
  <2> DEFINE final == IF receipt.verdict = "passed" THEN receipt ELSE None
  <2>1. Event([l EXCEPT !.final = final], {}) /\ UNCHANGED faults
        /\ ReviewGate(l, receipt, FinalScope)
    BY <1>6 DEF RecordFinalReview
  <2>2. final \in ReceiptType \cup {None} /\ Kept(final)
    BY <2>1, GateKept
  <2> HIDE DEF final
  <2>3. [l EXCEPT !.final = final] = m(l.commits, final)
    BY <1>2 DEF Ledger
  <2> QED BY <1>2, <1>3, <2>1, <2>2, <2>3
<1> QED BY <1>4, <1>5, <1>6

--------------------------------------------------------------------------------
(* Reviews, the work and the active task *)

LEMMA ReviewFrame ==
  ASSUME ReviewNext
  PROVE  UNCHANGED <<tree, head, plan>> /\ (Fault \/ UNCHANGED faults)
<1>1. CASE (\E available \in BOOLEAN : Prepare(available)) \/ PrepareRetry \/ GiveUp
  BY <1>1 DEF Prepare, PrepareRetry, GiveUp
<1>2. ASSUME NEW a \in Attempts,
             \/ Spawn(a) \/ AgentAsksForContext(a) \/ AgentLost(a) \/ FinalizeBlocked(a)
             \/ FinalizeFallback(a) \/ Assemble(a)
      PROVE  UNCHANGED <<tree, head, plan>> /\ (Fault \/ UNCHANGED faults)
  BY <1>2 DEF Spawn, AgentAsksForContext, AgentLost, FinalizeBlocked, FinalizeFallback,
     Assemble
<1>3. ASSUME NEW a \in Attempts, NEW verdict \in Verdicts,
             AgentAnswers(a, verdict) \/ SelfReviews(a, verdict)
      PROVE  UNCHANGED <<tree, head, plan>> /\ (Fault \/ UNCHANGED faults)
  BY <1>3 DEF AgentAnswers, SelfReviews, Judged
<1>4. ASSUME NEW a \in Attempts, NEW closed \in BOOLEAN, Finalize(a, closed)
      PROVE  UNCHANGED <<tree, head, plan>> /\ (Fault \/ UNCHANGED faults)
  BY <1>4 DEF Finalize
<1> QED BY <1>1, <1>2, <1>3, <1>4 DEF ReviewNext

LEMMA ReviewSteps ==
  ASSUME IInv,
         \/ Reviewing(ReviewNext)
         \/ \E scope \in Scopes, policy \in Policies : Review(scope, policy)
  PROVE  IInv'
<1>1. /\ ReviewTyped' /\ ReviewSound' /\ UNCHANGED <<tree, head, plan>>
      /\ Fault \/ UNCHANGED faults
      /\ UNCHANGED <<planReview, attested, archive, pointer, accepted, runtimeVars,
                     command>>
  <2>1. CASE Reviewing(ReviewNext)
    BY <2>1, ReviewStepSound, ReviewFrame DEF Reviewing, IInv
  <2>2. ASSUME NEW scope \in Scopes, NEW policy \in Policies, Review(scope, policy)
        PROVE  /\ ReviewTyped' /\ ReviewSound' /\ UNCHANGED <<tree, head, plan>>
               /\ Fault \/ UNCHANGED faults
               /\ UNCHANGED <<planReview, attested, archive, pointer, accepted,
                              runtimeVars, command>>
    <3> DEFINE kind == IF scope = PlanScope THEN "plan-bundle" ELSE TargetKind(Replay, scope)
               claims == ScopeClaims(Replay, scope)
    <3>1. scope \in Scope
      <4>1. CASE scope \in {PlanScope, FinalScope}
        BY <4>1 DEF PlanScope, FinalScope, Scope
      <4>2. CASE Readable /\ Replay.current # None
                 /\ scope = StageScope(Replay.current, Replay.attempts[Replay.current])
        BY <4>2, ReplaySound DEF StageScope, Scope, Ledger
      <4> QED BY <4>1, <4>2 DEF Scopes
    <3>2. kind \in TargetKinds /\ claims \in SUBSET Validations
      BY <3>1 DEF TargetKind, TargetKinds, ScopeClaims, Claims, Scope
    <3>3. StartReview(scope, kind, claims, policy)
          /\ (Fault \/ UNCHANGED faults)
          /\ UNCHANGED <<planReview, attested, archive, pointer, accepted,
                         runtimeVars, command>>
      BY <2>2 DEF Review
    <3> HIDE DEF kind, claims
    <3>4. ReviewTyped' /\ ReviewSound'
      BY <3>1, <3>2, <3>3, StartReviewSound DEF IInv
    <3> QED BY <3>3, <3>4 DEF StartReview
  <2> QED BY <2>1, <2>2
<1>2. TypeOK'
  BY <1>1, FaultTyped DEF IInv, TypeOK, ReviewTyped, runtimeVars
<1>3. TaskTyped' /\ TaskSound'
  BY <1>1, TaskKept DEF IInv, runtimeVars
<1> QED BY <1>1, <1>2, <1>3 DEF IInv

LEMMA ChangeStep ==
  ASSUME IInv, NEW p \in Paths, NEW version \in 0..MaxVersion, Change(p, version),
         faults' \in 0..MaxFaults
  PROVE  IInv'
<1>1. /\ tree' = [tree EXCEPT ![p] = version] /\ WriteTree(tree')
      /\ UNCHANGED <<head, plan, planReview, attested, archive, pointer, accepted, ledger,
                     snapshot, proved, command, dispatch, agent, answer, receipt>>
  BY DEF Change, WriteTree, taskVars, runtimeVars
<1>2. TypeOK'
  BY <1>1 DEF IInv, TypeOK
<1>3. ReviewTyped' /\ ReviewSound'
  <2> DEFINE content == tree'
  <2>1. WriteTree([tree EXCEPT ![p] = version])
    BY DEF Change
  <2> QED BY <1>1, <2>1, TreeWritten DEF IInv
<1>4. TaskTyped' /\ TaskSound'
  BY <1>1, TaskKept DEF IInv
<1> QED BY <1>2, <1>3, <1>4 DEF IInv

LEMMA WorkSteps ==
  ASSUME IInv,
         (\E p \in Paths : Edit(p) \/ Undo(p)) \/ GitCommit \/ OtherTask \/ ClosePointer \/ FinalCheck
  PROVE  IInv'
<1>1. ASSUME NEW p \in Paths, Edit(p) \/ Undo(p) PROVE IInv'
  <2>1. tree[p] \in 0..MaxVersion /\ MaxVersion \in Nat
    BY BoundsAssumption DEF IInv, TypeOK
  <2>2. CASE Edit(p)
    <3>1. tree[p] + 1 \in 0..MaxVersion /\ Change(p, tree[p] + 1)
      BY <2>1, <2>2 DEF Edit
    <3> QED BY <2>2, <3>1, ChangeStep DEF Edit, IInv, TypeOK
  <2>3. CASE Undo(p)
    <3>1. PICK version \in 0..(tree[p] - 1) : Change(p, version)
      BY <2>3 DEF Undo
    <3>2. version \in 0..MaxVersion
      BY <2>1
    <3>3. faults' \in 0..MaxFaults
      BY <2>3, FaultTyped DEF Undo, IInv
    <3> QED BY <3>1, <3>2, <3>3, ChangeStep
  <2> QED BY <1>1, <2>2, <2>3
<1>2. CASE GitCommit \/ OtherTask \/ ClosePointer \/ FinalCheck
  <2>1. /\ UNCHANGED <<plan, planReview, attested, archive, ledger, snapshot, proved, command, faults>>
        /\ UNCHANGED dispatchVars
    BY <1>2 DEF GitCommit, OtherTask, ClosePointer, FinalCheck, taskVars, runtimeVars
  <2>2. TypeOK' /\ (UNCHANGED <<tree, head, plan>> \/ review = None)
    <3>1. CASE GitCommit
      BY <2>1, <3>1 DEF GitCommit, Idle, IInv, TypeOK, taskVars, dispatchVars
    <3>2. CASE OtherTask \/ ClosePointer \/ FinalCheck
      BY <2>1, <3>2 DEF OtherTask, ClosePointer, FinalCheck, IInv, TypeOK, workVars, dispatchVars
    <3> QED BY <1>2, <3>1, <3>2
  <2>3. ReviewTyped' /\ ReviewSound'
    BY <2>1, <2>2, ReviewKept DEF IInv, dispatchVars
  <2>4. TaskTyped' /\ TaskSound'
    BY <2>1, TaskKept DEF IInv
  <2> QED BY <2>2, <2>3, <2>4 DEF IInv
<1> QED BY <1>1, <1>2

--------------------------------------------------------------------------------
(* Commands and amendments *)

\* A ledger there is has the type of a ledger.
LEMMA LedgerTyped ==
  ASSUME NEW l, NEW e, NEW p \in Plans, NEW a,
         l = EmptyLedger(0) \/ Sound(l, e, p, a)
  PROVE  /\ l \in Ledger /\ l.rev \in 0..p.rev /\ l.completed \subseteq Stages
         /\ l.current \in (Stages \ l.completed) \cup {None}
         /\ l.carried \subseteq l.completed
<1>1. p.rev \in 1..MaxRevision /\ 0 \in 0..MaxRevision
  BY BoundsAssumption DEF Plans
<1>2. CASE l = EmptyLedger(0)
  <2>1. l \in Ledger
    BY <1>1, <1>2, EmptyShaped
  <2> QED BY <1>1, <1>2, <2>1 DEF EmptyLedger
<1>3. CASE Sound(l, e, p, a)
  BY <1>1, <1>3, BoundsAssumption DEF Sound, Shaped, Ledger
<1> QED BY <1>2, <1>3

\* The steps of the task that leave the work alone.
LEMMA TypeStep ==
  ASSUME IInv, UNCHANGED <<workVars, pointer, accepted>>, Fault \/ UNCHANGED faults,
         plan' \in Plans, snapshot' \in {"none", "current", "behind", "foreign"},
         ReviewTyped', TaskTyped', LedgerSound'
  PROVE  TypeOK'
<1>1. \A k \in Slots : command'[k] # None =>
        command'[k].step \in {"append", "save", "archive", "unlink", "amend"}
  BY DEF TaskTyped, CommandType
<1>2. \A r \in DOMAIN archive' : archive'[r].dir \in {"none", "partial", "done"}
  BY DEF TaskTyped, ArchiveType
<1>3. ledger' # None => ledger' = EmptyLedger(0) \/ Sound(ledger', proved', plan', attested')
  BY DEF LedgerSound
<1>4. ledger' # None => /\ ledger'.rev \in 0..plan'.rev /\ ledger'.completed \subseteq Stages
                        /\ ledger'.current \in (Stages \ ledger'.completed) \cup {None}
                        /\ ledger'.carried \subseteq ledger'.completed
  BY <1>3, LedgerTyped
<1> QED BY <1>1, <1>2, <1>4, FaultTyped DEF IInv, TypeOK, ReviewTyped, workVars

LEMMA RevisionTyped ==
  ASSUME IInv
  PROVE  /\ plan \in Plans /\ plan.rev \in 1..MaxRevision /\ plan.rev \in Nat
         /\ MaxRevision \in Nat
         /\ plan.rev < MaxRevision => plan.rev \in 1..(MaxRevision - 1)
BY BoundsAssumption DEF IInv, TypeOK, Plans

LEMMA LedgerInForce ==
  ASSUME IInv, ledger # None
  PROVE  ledger \in Ledger /\ (ledger = EmptyLedger(0) \/ Sound(ledger, proved, plan, attested))
         /\ ledger.rev \in 0..plan.rev
BY LedgerTyped DEF IInv, TypeOK, TaskSound, LedgerSound

\* A command stays sound under a plan that stays, whether or not it is late by now.
LEMMA CommandStays ==
  ASSUME IInv, NEW c \in CommandType, NEW late \in BOOLEAN, c.late => late, CommandSound(c),
         NEW e, proved \subseteq e, NEW arch,
         \A r \in 1..(MaxRevision - 1) : archive[r].dir = "partial" => arch[r].dir = "partial"
  PROVE  /\ [c EXCEPT !.late = late] \in CommandType
         /\ [c EXCEPT !.late = late].step = c.step
         /\ Fits([c EXCEPT !.late = late], e, plan, attested, arch)
<1> DEFINE d == [c EXCEPT !.late = late]
<1>1. /\ d \in CommandType /\ d.step = c.step /\ d.new = c.new /\ d.proves = c.proves
      /\ d.late = late
  BY DEF CommandType
<1> HIDE DEF d
<1>2. Sound(c.new, proved \cup c.proves, plan, attested)
        => Sound(c.new, e \cup c.proves, plan, attested)
  BY SoundGrows
<1>3. Sound(c.new, proved, plan, attested) => Sound(c.new, e, plan, attested)
  BY SoundGrows
<1>4. plan.rev < MaxRevision => plan.rev \in 1..(MaxRevision - 1)
  BY RevisionTyped
<1>5. Fits(d, e, plan, attested, arch)
  BY <1>1, <1>2, <1>3, <1>4 DEF CommandSound, Fits
<1> QED BY <1>1, <1>5 DEF d

\* The steps that only end a command, or let it take its next step.
LEMMA CommandStep ==
  ASSUME IInv, UNCHANGED <<workVars, taskVars, ledger, proved, dispatchVars>>, ledger # None,
         Fault \/ UNCHANGED faults, snapshot' \in {"none", "current", "behind", "foreign"},
         command' \in [Slots -> CommandType \cup {None}],
         \A k \in Slots : command'[k] # None => CommandSound(command'[k]),
         OneArchive'
  PROVE  IInv'
<1>1. ReviewTyped' /\ ReviewSound'
  BY ReviewKept DEF IInv, workVars, taskVars, dispatchVars
<1>2. TaskTyped'
  BY DEF IInv, TaskTyped, taskVars
<1>3. AttestationSound' /\ LedgerSound'
  BY DEF IInv, TaskSound, AttestationSound, LedgerSound, taskVars
<1>4. \A k \in Slots : (command[k] # None => CommandSound(command[k]))'
  BY DEF CommandSound, Fits, Approved, taskVars
<1>5. \A r \in 1..(MaxRevision - 1) : ArchiveSound(r)'
  BY DEF IInv, TaskSound, ArchiveSound, Archived, taskVars
<1>6. TypeOK'
  BY <1>1, <1>2, <1>3, TypeStep DEF IInv, TypeOK, taskVars
<1> QED BY <1>1, <1>2, <1>3, <1>4, <1>5, <1>6 DEF IInv, TaskSound

LEMMA CommandSteps ==
  ASSUME IInv,
         Reconcile \/ TimeOut \/ Kill \/ \E k \in Slots : Unlink(k) \/ AmendmentApproved(k)
  PROVE  IInv'
<1>1. /\ command \in [Slots -> CommandType \cup {None}] /\ OneArchive
      /\ \A k \in Slots : command[k] # None => CommandSound(command[k]) /\ ledger # None
      /\ snapshot \in {"none", "current", "behind", "foreign"}
  BY DEF IInv, TaskTyped, TaskSound, TypeOK
<1>2. CASE Reconcile
  <2> DEFINE c == Command("save", ledger, {})
  <2>1. c \in CommandType /\ c.step = "save" /\ ledger # None
    BY <1>2, LedgerInForce DEF Reconcile, Readable, Command, CommandType
  <2> HIDE DEF c
  <2>2. command' = [command EXCEPT !["waited"] = c]
        /\ UNCHANGED <<workVars, taskVars, runtimeVars, dispatchVars, faults>>
    BY <1>2 DEF Reconcile, Issue, c
  <2>3. CommandSound(c)
    BY <2>1 DEF CommandSound, Fits
  <2>4. OneArchive'
    BY <1>1, <2>1, <2>2 DEF OneArchive, Slots
  <2> QED BY <1>1, <2>1, <2>2, <2>3, <2>4, CommandStep DEF runtimeVars, Slots
<1>3. CASE TimeOut
  <2>1. command' = [k \in Slots |-> IF k = "stray" THEN command["waited"] ELSE None]
        /\ command["waited"] # None /\ Fault
        /\ UNCHANGED <<workVars, taskVars, runtimeVars, dispatchVars>>
    BY <1>3 DEF TimeOut
  <2>2. OneArchive'
    BY <2>1 DEF OneArchive, Slots
  <2> QED BY <1>1, <2>1, <2>2, CommandStep DEF runtimeVars, Slots
<1>4. CASE Kill
  <2>1. command' = [command EXCEPT !["waited"] = None]
        /\ command["waited"] # None /\ Fault
        /\ UNCHANGED <<workVars, taskVars, runtimeVars, dispatchVars>>
    BY <1>4 DEF Kill, Issue
  <2>2. OneArchive'
    BY <1>1, <2>1 DEF OneArchive, Slots
  <2> QED BY <1>1, <2>1, <2>2, CommandStep DEF runtimeVars, Slots
<1>5. ASSUME NEW k \in Slots, Unlink(k) PROVE IInv'
  <2> DEFINE c == [command[k] EXCEPT !.step = "amend"]
  <2>1. command[k] \in CommandType /\ command[k] # None /\ command[k].step = "unlink"
        /\ CommandSound(command[k])
    BY <1>1, <1>5 DEF Unlink
  <2>2. c \in CommandType /\ c.step = "amend" /\ c.new = command[k].new
    BY <2>1 DEF CommandType
  <2>3. command' = [command EXCEPT ![k] = c] /\ snapshot' = "none"
        /\ UNCHANGED <<workVars, taskVars, ledger, proved, dispatchVars, faults>>
    BY <1>5 DEF Unlink
  <2> HIDE DEF c
  <2>4. CommandSound(c)
    BY <2>1, <2>2 DEF CommandSound, Fits
  <2>5. OneArchive'
    BY <1>1, <2>2, <2>3 DEF OneArchive
  <2> QED BY <1>1, <2>1, <2>2, <2>3, <2>4, <2>5, CommandStep
<1>6. ASSUME NEW k \in Slots, AmendmentApproved(k) PROVE IInv'
  <2> DEFINE c == command[k]
             d == Command("append", c.new, {})
  <2>1. c \in CommandType /\ c # None /\ c.step = "amend" /\ CommandSound(c)
    BY <1>1, <1>6 DEF AmendmentApproved
  <2>2. d \in CommandType /\ d.step = "append" /\ d.new = c.new /\ d.proves = {}
    BY <2>1 DEF CommandType, Command
  <2>3. PICK next \in {d, None} : command' = [command EXCEPT ![k] = next]
    BY <1>6 DEF AmendmentApproved
  <2>4. UNCHANGED <<workVars, taskVars, runtimeVars, dispatchVars, faults>>
    BY <1>6 DEF AmendmentApproved
  <2> HIDE DEF d
  <2>5. proved \cup {} = proved
    OBVIOUS
  <2>6. CommandSound(d)
    BY <2>1, <2>2, <2>5 DEF CommandSound, Fits
  <2>7. OneArchive'
    BY <1>1, <2>2, <2>3 DEF OneArchive
  <2> QED BY <1>1, <2>1, <2>2, <2>3, <2>4, <2>6, <2>7, CommandStep DEF runtimeVars
<1> QED BY <1>2, <1>3, <1>4, <1>5, <1>6

\* What drifts from its archive is the archive of nothing that is reset.
LEMMA DriftSound ==
  ASSUME IInv, ledger # None, ArchiveDrifts
  PROVE  /\ archive' \in [1..(MaxRevision - 1) -> ArchiveType]
         /\ \A r \in 1..(MaxRevision - 1) :
              /\ archive'[r].dir = archive[r].dir /\ archive'[r].completed = archive[r].completed
              /\ archive'[r].contract = archive[r].contract
              /\ archive'[r].same => archive[r].same
              /\ Archived(r) => ~archive'[r].same
<1>1. archive \in [1..(MaxRevision - 1) -> ArchiveType]
  BY DEF IInv, TaskTyped
<1>2. archive' = [r \in 1..(MaxRevision - 1) |->
                    IF Archived(r) /\ ledger.rev <= r THEN [archive[r] EXCEPT !.same = FALSE]
                    ELSE archive[r]]
  BY <1>1 DEF ArchiveDrifts
<1>3. ASSUME NEW r \in 1..(MaxRevision - 1)
      PROVE  /\ archive'[r] \in ArchiveType
             /\ archive'[r].dir = archive[r].dir /\ archive'[r].completed = archive[r].completed
             /\ archive'[r].contract = archive[r].contract
             /\ archive'[r].same => archive[r].same
             /\ Archived(r) => ~archive'[r].same
  <2> DEFINE old == archive[r]
  <2>1. old \in ArchiveType
    BY <1>1
  <2>2. /\ [old EXCEPT !.same = FALSE] \in ArchiveType
        /\ [old EXCEPT !.same = FALSE].dir = old.dir
        /\ [old EXCEPT !.same = FALSE].completed = old.completed
        /\ [old EXCEPT !.same = FALSE].contract = old.contract
        /\ ~[old EXCEPT !.same = FALSE].same
    BY <2>1 DEF ArchiveType
  <2>3. CASE Archived(r) /\ ledger.rev <= r
    BY <1>2, <2>2, <2>3
  <2>4. CASE ~(Archived(r) /\ ledger.rev <= r)
    <3>1. archive'[r] = archive[r]
      BY <1>2, <2>4
    <3>2. Archived(r) => ~archive[r].same
      <4>1. ledger.empty => ledger.rev = 0
        BY LedgerInForce DEF IInv, TaskSound, LedgerSound, EmptyLedger
      <4>2. ArchiveSound(r) /\ r \in Nat
        BY DEF IInv, TaskSound
      <4> QED BY <2>4, <4>1, <4>2 DEF ArchiveSound
    <3> QED BY <2>1, <3>1, <3>2
  <2> QED BY <2>3, <2>4
<1> QED BY <1>2, <1>3

LEMMA DriftKept ==
  ASSUME IInv, ledger # None, ArchiveDrifts, attested' = attested, proved \subseteq proved'
  PROVE  \A r \in 1..(MaxRevision - 1) : ArchiveSound(r)'
<1> SUFFICES ASSUME NEW r \in 1..(MaxRevision - 1) PROVE ArchiveSound(r)'
  OBVIOUS
<1>1. ArchiveSound(r)
  BY DEF IInv, TaskSound
<1>2. Archived(r)' = Archived(r)
  BY DriftSound DEF IInv, TaskTyped, Archived
<1> QED BY <1>1, <1>2, DriftSound DEF ArchiveSound

\* An event reaches the ledger, or two of one number make it unreadable.
LEMMA AppendStep ==
  ASSUME IInv, NEW k \in Slots, Append(k)
  PROVE  IInv'
<1> DEFINE c == command[k]
<1>1. /\ c \in CommandType /\ c # None /\ c.step = "append" /\ CommandSound(c) /\ ledger # None
      /\ command \in [Slots -> CommandType \cup {None}] /\ OneArchive
      /\ \A j \in Slots : command[j] # None => CommandSound(command[j])
  BY DEF IInv, TaskTyped, TaskSound, Append
<1>2. /\ ArchiveDrifts
      /\ UNCHANGED <<workVars, plan, planReview, attested, pointer, accepted, snapshot,
                     dispatchVars, faults>>
  BY DEF Append
<1>3. proved \subseteq proved'
  BY DEF Append
<1>4. ReviewTyped' /\ ReviewSound'
  BY <1>2, ReviewKept DEF IInv, workVars, dispatchVars
<1>5. \A r \in 1..(MaxRevision - 1) : ArchiveSound(r)'
  BY <1>1, <1>2, <1>3, DriftKept
<1>6. AttestationSound'
  BY <1>2 DEF IInv, TaskSound, AttestationSound
<1>7. archive' \in [1..(MaxRevision - 1) -> ArchiveType] /\ planReview' \in ReceiptType \cup {None}
  BY <1>1, <1>2, DriftSound DEF IInv, TaskTyped
<1>8. plan' \in Plans /\ snapshot' \in {"none", "current", "behind", "foreign"}
  BY <1>2 DEF IInv, TypeOK
<1>9. CASE c.late
  <2>1. ledger' = None /\ command' = [j \in Slots |-> None]
    BY <1>9 DEF Append
  <2>2. TaskTyped' /\ LedgerSound' /\ OneArchive'
    BY <1>7, <2>1 DEF TaskTyped, LedgerSound, OneArchive
  <2>3. TypeOK'
    BY <1>2, <1>4, <1>8, <2>2, TypeStep
  <2>4. \A j \in Slots : (command[j] = None)'
    BY <2>1
  <2> QED BY <1>4, <1>5, <1>6, <2>2, <2>3, <2>4 DEF IInv, TaskSound
<1>10. CASE ~c.late
  <2> DEFINE d == [c EXCEPT !.step = "save"]
             other(j) == [command[j] EXCEPT !.late = TRUE]
  <2>1. /\ ledger' = c.new /\ proved' = proved \cup c.proves
        /\ command' = [j \in Slots |-> IF j = k THEN d
                                       ELSE IF command[j] = None THEN None ELSE other(j)]
    BY <1>10 DEF Append, Proceed
  <2>2. d \in CommandType /\ d.step = "save"
    BY <1>1 DEF CommandType
  <2>3. Fits(d, proved', plan, attested, archive')
    BY <2>2 DEF Fits
  <2>4. ASSUME NEW j \in Slots, command[j] # None
        PROVE  /\ other(j) \in CommandType /\ other(j).step = command[j].step
               /\ Fits(other(j), proved', plan, attested, archive')
    <3>1. \A r \in 1..(MaxRevision - 1) :
            archive[r].dir = "partial" => archive'[r].dir = "partial"
      BY <1>1, <1>2, DriftSound
    <3>2. command[j] \in CommandType /\ CommandSound(command[j])
      BY <1>1, <2>4
    <3> QED BY <1>3, <3>1, <3>2, CommandStays
  <2> HIDE DEF d, other
  <2>5. TaskTyped'
    BY <1>7, <2>1, <2>2, <2>4 DEF TaskTyped
  <2>6. \A j \in Slots : (command[j] # None => CommandSound(command[j]))'
    BY <1>2, <2>1, <2>3, <2>4 DEF CommandSound
  <2>7. OneArchive'
    BY <1>1, <2>1, <2>2, <2>4 DEF OneArchive
  <2>8. LedgerSound' /\ ledger' # None
    <3>1. Sound(c.new, proved', plan', attested') /\ ~c.new.empty
      BY <1>1, <1>2, <1>10, <2>1 DEF CommandSound, Fits
    <3>2. c.new # None
      BY <1>1, NoneAssumption DEF CommandType
    <3> QED BY <2>1, <3>1, <3>2 DEF LedgerSound
  <2>9. TypeOK'
    BY <1>2, <1>4, <1>8, <2>5, <2>8, TypeStep
  <2> QED BY <1>4, <1>5, <1>6, <2>5, <2>6, <2>7, <2>8, <2>9 DEF IInv, TaskSound
<1> QED BY <1>9, <1>10

LEMMA SaveStep ==
  ASSUME IInv, NEW k \in Slots, Save(k)
  PROVE  IInv'
<1>1. /\ ledger # None /\ command \in [Slots -> CommandType \cup {None}] /\ OneArchive
      /\ \A j \in Slots : command[j] # None => CommandSound(command[j])
  BY DEF IInv, TaskTyped, TaskSound, Save
<1>2. /\ command' = [command EXCEPT ![k] = None]
      /\ archive' = archive \/ ArchiveDrifts
      /\ snapshot' \in {"none", "current", "behind", "foreign"}
      /\ UNCHANGED <<workVars, plan, planReview, attested, pointer, accepted, ledger, proved,
                     dispatchVars, faults>>
  BY DEF Save
<1>3. ReviewTyped' /\ ReviewSound'
  BY <1>2, ReviewKept DEF IInv, workVars, dispatchVars
<1>4. \A r \in 1..(MaxRevision - 1) : ArchiveSound(r)'
  <2>1. CASE archive' = archive
    BY <1>2, <2>1 DEF IInv, TaskSound, ArchiveSound, Archived
  <2>2. CASE ArchiveDrifts
    BY <1>1, <1>2, <2>2, DriftKept
  <2> QED BY <1>2, <2>1, <2>2
<1>5. /\ archive' \in [1..(MaxRevision - 1) -> ArchiveType]
      /\ \A r \in 1..(MaxRevision - 1) : archive[r].dir = "partial" => archive'[r].dir = "partial"
  BY <1>1, <1>2, DriftSound DEF IInv, TaskTyped
<1>6. TaskTyped' /\ LedgerSound' /\ AttestationSound' /\ OneArchive'
  BY <1>1, <1>2, <1>5 DEF IInv, TaskTyped, TaskSound, LedgerSound, AttestationSound, OneArchive
<1>7. \A j \in Slots : (command[j] # None => CommandSound(command[j]))'
  <2> SUFFICES ASSUME NEW j \in Slots, command'[j] # None
               PROVE  Fits(command[j], proved, plan, attested, archive')
    BY <1>1, <1>2 DEF CommandSound
  <2>1. plan.rev < MaxRevision => plan.rev \in 1..(MaxRevision - 1)
    BY RevisionTyped
  <2> QED BY <1>1, <1>2, <1>5, <2>1 DEF CommandSound, Fits
<1>8. TypeOK'
  BY <1>2, <1>3, <1>6, TypeStep DEF IInv, TypeOK
<1> QED BY <1>1, <1>2, <1>3, <1>4, <1>6, <1>7, <1>8 DEF IInv, TaskSound

LEMMA ArchiveStartStep ==
  ASSUME IInv, ArchiveStart
  PROVE  IInv'
<1> DEFINE c == Command("archive", ledger, {})
           n == plan.rev
           new == [archive[n] EXCEPT !.dir = "partial"]
<1>1. /\ ledger # None /\ command \in [Slots -> CommandType \cup {None}] /\ OneArchive
      /\ \A j \in Slots : command[j] # None => CommandSound(command[j])
      /\ archive \in [1..(MaxRevision - 1) -> ArchiveType]
  BY DEF IInv, TaskTyped, TaskSound, ArchiveStart, Readable
<1>2. /\ Approved /\ n < MaxRevision /\ archive[n].dir = "none" /\ command["waited"] = None
      /\ archive' = [archive EXCEPT ![n] = new]
      /\ command' = [command EXCEPT !["waited"] = c]
      /\ UNCHANGED <<workVars, plan, planReview, attested, pointer, accepted, runtimeVars,
                     dispatchVars>>
      /\ Fault \/ UNCHANGED faults
  BY DEF ArchiveStart, Idle, Readable, Issue
<1>3. c \in CommandType /\ c.step = "archive" /\ new \in ArchiveType /\ new.dir = "partial"
      /\ n \in 1..(MaxRevision - 1)
  <2>1. n \in 1..(MaxRevision - 1)
    BY <1>2, RevisionTyped
  <2>2. archive[n] \in ArchiveType /\ ledger \in Ledger
    BY <1>1, <2>1, LedgerInForce
  <2> QED BY <2>1, <2>2 DEF Command, CommandType, ArchiveType
<1> HIDE DEF c, new
<1>4. ReviewTyped' /\ ReviewSound'
  BY <1>2, ReviewKept DEF IInv, workVars, dispatchVars
<1>5. TaskTyped' /\ LedgerSound' /\ AttestationSound'
  BY <1>1, <1>2, <1>3 DEF IInv, TaskTyped, TaskSound, LedgerSound, AttestationSound, runtimeVars
<1>6. \A j \in Slots \ {"waited"} : command[j] # None => command[j].step # "archive"
  BY <1>1, <1>2 DEF CommandSound, Fits
<1>7. OneArchive'
  BY <1>1, <1>2, <1>3, <1>6 DEF OneArchive, Slots
<1>8. \A j \in Slots : (command[j] # None => CommandSound(command[j]))'
  <2>1. Fits(c, proved, plan, attested, archive')
    BY <1>1, <1>2, <1>3 DEF Fits, Approved
  <2>2. \A j \in Slots \ {"waited"} : command[j] # None =>
          Fits(command[j], proved, plan, attested, archive')
    BY <1>1, <1>6 DEF CommandSound, Fits
  <2> QED BY <1>1, <1>2, <2>1, <2>2 DEF CommandSound, runtimeVars, Slots
<1>9. \A r \in 1..(MaxRevision - 1) : ArchiveSound(r)'
  <2> SUFFICES ASSUME NEW r \in 1..(MaxRevision - 1) PROVE ArchiveSound(r)'
    OBVIOUS
  <2>1. CASE r = n
    BY <1>1, <1>2, <1>3, <2>1 DEF ArchiveSound, Archived
  <2>2. CASE r # n
    <3>1. archive'[r] = archive[r] /\ Archived(r)' = Archived(r)
      BY <1>1, <1>2, <2>2 DEF Archived
    <3>2. ArchiveSound(r) /\ UNCHANGED <<plan, attested, ledger, proved>>
      BY <1>2 DEF IInv, TaskSound, runtimeVars
    <3> QED BY <3>1, <3>2 DEF ArchiveSound
  <2> QED BY <2>1, <2>2
<1>10. TypeOK'
  BY <1>2, <1>4, <1>5, TypeStep DEF IInv, TypeOK, runtimeVars
<1> QED BY <1>1, <1>2, <1>4, <1>5, <1>7, <1>8, <1>9, <1>10 DEF IInv, TaskSound, runtimeVars

LEMMA ArchiveDoneStep ==
  ASSUME IInv, NEW k \in Slots, ArchiveDone(k)
  PROVE  IInv'
<1> DEFINE n == plan.rev
           new == [dir |-> "done", completed |-> Replayable,
                   contract |-> Terms[attested.plan.contract], same |-> TRUE]
<1>1. /\ ledger # None /\ command \in [Slots -> CommandType \cup {None}] /\ OneArchive
      /\ \A j \in Slots : command[j] # None => CommandSound(command[j])
      /\ archive \in [1..(MaxRevision - 1) -> ArchiveType]
      /\ command[k] # None /\ command[k].step = "archive"
  BY DEF IInv, TaskTyped, TaskSound, ArchiveDone
<1>2. /\ attested # None /\ attested.plan = plan /\ n < MaxRevision
      /\ archive[n].dir = "partial" /\ n \in 1..(MaxRevision - 1)
  <2>1. CommandSound(command[k])
    BY <1>1
  <2> QED BY <1>1, <2>1, RevisionTyped DEF CommandSound, Fits
<1>3. /\ archive' = [archive EXCEPT ![n] = new]
      /\ command' = [command EXCEPT ![k] = None]
      /\ UNCHANGED <<workVars, plan, planReview, attested, pointer, accepted, runtimeVars,
                     dispatchVars, faults>>
  BY <1>2 DEF ArchiveDone
<1>4. /\ ledger \in Ledger /\ ledger.rev \in 0..n
      /\ ledger.rev = n => Evidenced(ledger, proved, contract)
  <2>1. ledger # EmptyLedger(0) => Sound(ledger, proved, plan, attested)
    BY <1>1, LedgerInForce
  <2>2. EmptyLedger(0).rev = 0
    BY DEF EmptyLedger
  <2> QED BY <1>1, <1>2, <2>1, <2>2, LedgerInForce DEF Sound, contract
<1>5. /\ new \in ArchiveType /\ new.dir = "done" /\ new.same /\ new.contract = contract
      /\ \A s \in new.completed : Semantics(contract, s) \in proved
      /\ ledger.rev = n => new.completed = ledger.completed
  <2>1. Replayable \subseteq Stages /\ (ledger.rev = n => Replayable = ledger.completed)
        /\ \A s \in Replayable : Semantics(contract, s) \in proved
    BY <1>2, <1>4 DEF Replayable, Ledger, Evidenced
  <2>2. contract \in AllTerms /\ contract = Terms[attested.plan.contract]
    BY <1>2 DEF contract, AllTerms, IInv, TypeOK, Plans
  <2> QED BY <2>1, <2>2 DEF ArchiveType
<1> HIDE DEF new
<1>6. ReviewTyped' /\ ReviewSound'
  BY <1>3, ReviewKept DEF IInv, workVars, dispatchVars
<1>7. TaskTyped' /\ LedgerSound' /\ AttestationSound' /\ OneArchive'
  <2>1. TaskTyped'
    BY <1>1, <1>3, <1>5 DEF IInv, TaskTyped
  <2>2. OneArchive'
    BY <1>1, <1>3 DEF OneArchive
  <2> QED BY <1>3, <2>1, <2>2 DEF IInv, TaskSound, LedgerSound, AttestationSound, runtimeVars
<1>8. \A j \in Slots : (command[j] # None => CommandSound(command[j]))'
  <2>1. ASSUME NEW j \in Slots, command'[j] # None
        PROVE  Fits(command'[j], proved, plan, attested, archive')
    <3>1. j # k /\ command'[j] = command[j] /\ command[j].step # "archive"
      BY <1>1, <1>3, <2>1 DEF OneArchive
    <3> QED BY <1>1, <2>1, <3>1 DEF CommandSound, Fits
  <2> QED BY <1>3, <2>1 DEF CommandSound, runtimeVars
<1>9. \A r \in 1..(MaxRevision - 1) : ArchiveSound(r)'
  <2> SUFFICES ASSUME NEW r \in 1..(MaxRevision - 1) PROVE ArchiveSound(r)'
    OBVIOUS
  <2>1. CASE r = n
    <3>1. archive'[r] = new
      BY <1>1, <1>2, <1>3, <2>1
    <3>2. n \in Nat /\ ledger.rev \in Nat
      BY <1>2, <1>4
    <3> QED BY <1>1, <1>2, <1>3, <1>4, <1>5, <2>1, <3>1, <3>2 DEF ArchiveSound, runtimeVars
  <2>2. CASE r # n
    <3>1. archive'[r] = archive[r] /\ Archived(r)' = Archived(r)
      BY <1>1, <1>3, <2>2 DEF Archived
    <3>2. ArchiveSound(r) /\ UNCHANGED <<plan, attested, ledger, proved>>
      BY <1>3 DEF IInv, TaskSound, runtimeVars
    <3> QED BY <3>1, <3>2 DEF ArchiveSound
  <2> QED BY <2>1, <2>2
<1>10. TypeOK'
  BY <1>3, <1>6, <1>7, TypeStep DEF IInv, TypeOK, runtimeVars
<1> QED BY <1>1, <1>3, <1>6, <1>7, <1>8, <1>9, <1>10 DEF IInv, TaskSound, runtimeVars

LEMMA PlanReviewStep ==
  ASSUME IInv, RecordPlanReview
  PROVE  IInv'
<1>1. /\ planReview' = receipt /\ receipt # None /\ receipt' = None
      /\ UNCHANGED <<workVars, plan, attested, archive, pointer, accepted, runtimeVars, command,
                     review, dispatch, agent, answer, faults>>
  BY DEF RecordPlanReview
<1>2. ReviewTyped' /\ ReviewSound'
  BY <1>1, ReviewKept DEF IInv, workVars
<1>3. planReview' \in ReceiptType
  BY <1>1 DEF IInv, ReviewTyped
<1>4. TaskTyped' /\ TaskSound'
  BY <1>1, <1>3, TaskKept DEF IInv, runtimeVars
<1>5. TypeOK'
  BY <1>1, <1>2, <1>4, TypeStep DEF IInv, TypeOK, TaskSound, runtimeVars
<1> QED BY <1>2, <1>4, <1>5 DEF IInv

\* The steps that change the plan, or approve it: no ledger and no command is of the
\* revision as it becomes.
LEMMA PlanStep ==
  ASSUME IInv, review = None,
         UNCHANGED <<workVars, archive, pointer, accepted, runtimeVars, command, dispatchVars,
                     faults>>,
         plan' \in Plans, planReview' \in ReceiptType \cup {None}, plan.rev <= plan'.rev,
         plan.rev < plan'.rev \/ attested = None \/ attested.plan # plan,
         plan.rev < MaxRevision /\ Approved => archive[plan.rev].dir # "partial",
         AttestationSound', \A r \in 1..(MaxRevision - 1) : ArchiveSound(r)'
  PROVE  IInv'
<1>1. ReviewTyped' /\ ReviewSound'
  BY ReviewKept DEF IInv, dispatchVars
<1>2. TaskTyped' /\ OneArchive'
  BY DEF IInv, TaskTyped, TaskSound, OneArchive
<1>3. \A l, e : Sound(l, e, plan, attested) => Sound(l, e, plan', attested')
  BY RevisionTyped, SoundPast
<1>4. LedgerSound'
  BY <1>3 DEF IInv, TaskSound, LedgerSound, runtimeVars
<1>5. \A k \in Slots : (command[k] # None => CommandSound(command[k]))'
  <2> SUFFICES ASSUME NEW k \in Slots, command[k] # None
               PROVE  Fits(command[k], proved, plan', attested', archive)
    BY DEF CommandSound, runtimeVars
  <2>1. Fits(command[k], proved, plan, attested, archive)
    BY DEF IInv, TaskSound, CommandSound
  <2>2. command[k].step # "archive"
    BY <2>1 DEF Fits, Approved
  <2> QED BY <1>3, <2>1, <2>2 DEF Fits
<1>6. TypeOK'
  BY <1>1, <1>2, <1>4, TypeStep DEF IInv, TypeOK, runtimeVars
<1> QED BY <1>1, <1>2, <1>4, <1>5, <1>6 DEF IInv, TaskSound, runtimeVars

LEMMA PlanSteps ==
  ASSUME IInv,
         \/ \E c \in DOMAIN Terms : Replan(c) \/ Revise(c)
         \/ \E commit \in Authorizations : Attest(commit)
  PROVE  IInv'
<1>1. /\ AttestationSound /\ \A r \in 1..(MaxRevision - 1) : ArchiveSound(r)
      /\ planReview \in ReceiptType \cup {None}
      /\ archive \in [1..(MaxRevision - 1) -> ArchiveType]
  BY DEF IInv, TaskSound, TaskTyped
<1>2. ASSUME NEW c \in DOMAIN Terms, Replan(c) PROVE IInv'
  <2>1. /\ review = None /\ ~Approved /\ plan' = [plan EXCEPT !.contract = c] /\ planReview' = None
        /\ UNCHANGED <<workVars, attested, archive, pointer, accepted, runtimeVars, command,
                       dispatchVars, faults>>
    BY <1>2 DEF Replan, Idle
  <2>2. plan' \in Plans /\ plan'.rev = plan.rev
    BY <1>2, <2>1, RevisionTyped DEF Plans
  <2>3. attested = None \/ attested.plan # plan
    BY <2>1 DEF Approved
  <2>4. AttestationSound'
    BY <1>1, <2>1, <2>2, <2>3 DEF AttestationSound
  <2>5. \A r \in 1..(MaxRevision - 1) : ArchiveSound(r)'
    BY <1>1, <2>1, <2>2 DEF ArchiveSound, Archived, runtimeVars
  <2> QED BY <2>1, <2>2, <2>3, <2>4, <2>5, RevisionTyped, PlanStep
<1>3. ASSUME NEW c \in DOMAIN Terms, Revise(c) PROVE IInv'
  <2>1. /\ review = None /\ Archived(plan.rev) /\ Amending /\ Approved /\ ledger # None
        /\ plan' = [rev |-> plan.rev + 1, contract |-> c] /\ planReview' = None
        /\ UNCHANGED <<workVars, attested, archive, pointer, accepted, runtimeVars, command,
                       dispatchVars, faults>>
    BY <1>3 DEF Revise, Idle, Readable
  <2>2. plan.rev \in 1..(MaxRevision - 1)
    BY <1>1, <2>1 DEF Archived
  <2>3. plan' \in Plans /\ plan'.rev = plan.rev + 1 /\ plan.rev \in Nat
    BY <2>1, <2>2, RevisionTyped DEF Plans
  <2>4. AttestationSound'
    BY <1>1, <2>1, <2>3 DEF AttestationSound, Approved
  <2>5. \A r \in 1..(MaxRevision - 1) : ArchiveSound(r)'
    <3> SUFFICES ASSUME NEW r \in 1..(MaxRevision - 1) PROVE ArchiveSound(r)'
      OBVIOUS
    <3>1. ArchiveSound(r) /\ UNCHANGED <<attested, archive, ledger, proved>>
      BY <1>1, <2>1 DEF runtimeVars
    <3>2. Archived(r)' = Archived(r) /\ r \in Nat
      BY <3>1 DEF Archived
    <3>3. ledger.rev = r /\ r < plan'.rev /\ r >= plan.rev /\ ~ledger.empty => ledger.reapproval
      BY <2>1 DEF Amending, Replay
    <3>4. Archived(r) => r <= plan.rev
      BY <2>1, <3>1 DEF ArchiveSound, Approved
    <3> QED BY <2>3, <3>1, <3>2, <3>3, <3>4 DEF ArchiveSound
  <2> QED BY <2>1, <2>2, <2>3, <2>4, <2>5, PlanStep DEF Archived
<1>4. ASSUME NEW commit \in Authorizations, Attest(commit) PROVE IInv'
  <2>1. /\ review = None /\ ~Approved /\ ContractValid(contract)
        /\ attested' = [plan |-> plan, commit |-> commit]
        /\ UNCHANGED <<workVars, plan, planReview, archive, pointer, accepted, runtimeVars,
                       command, dispatchVars, faults>>
    BY <1>4 DEF Attest, Idle, PlannerApproves
  <2>2. plan' \in Plans /\ plan'.rev = plan.rev /\ plan.rev \in Nat
    BY <2>1, RevisionTyped
  <2>3. attested = None \/ attested.plan # plan
    BY <2>1 DEF Approved
  <2>4. AttestationSound'
    BY <2>1, <2>2 DEF AttestationSound, contract
  <2>5. \A r \in 1..(MaxRevision - 1) : ArchiveSound(r)'
    <3> SUFFICES ASSUME NEW r \in 1..(MaxRevision - 1) PROVE ArchiveSound(r)'
      OBVIOUS
    <3>1. ArchiveSound(r) /\ UNCHANGED <<plan, archive, ledger, proved>>
      BY <1>1, <2>1 DEF runtimeVars
    <3>2. Archived(r)' = Archived(r) /\ r \in Nat
      BY <3>1 DEF Archived
    <3>3. Archived(r) => r <= plan.rev
      <4>1. attested # None => attested.plan.rev \in Nat /\ attested.plan.rev <= plan.rev
        BY <1>1 DEF AttestationSound, Plans
      <4> QED BY <2>2, <3>1, <3>2, <4>1 DEF ArchiveSound
    <3>4. attested' # None /\ attested'.plan = plan
      <4>1. [plan |-> plan, commit |-> commit] \in Attestation
        BY <1>4, RevisionTyped DEF Attestation
      <4> QED BY <2>1, <4>1, NoneAssumption
    <3> QED BY <3>1, <3>2, <3>3, <3>4 DEF ArchiveSound
  <2>6. plan.rev <= plan'.rev /\ planReview' \in ReceiptType \cup {None}
    BY <1>1, <2>1, <2>2
  <2> QED BY <2>1, <2>2, <2>3, <2>4, <2>5, <2>6, PlanStep
<1> QED BY <1>2, <1>3, <1>4

\* A ledger that begins with stages carried over, each proved on the terms it has now.
LEMMA AmendedSound ==
  ASSUME IInv, Approved, NEW carry \in SUBSET Stages,
         \A s \in carry : Semantics(contract, s) \in proved
  PROVE  Amended(carry) \in Ledger /\ ~Amended(carry).empty
         /\ Sound(Amended(carry), proved, plan, attested)
<1> DEFINE l == EmptyLedger(plan.rev)
           m == Amended(carry)
<1>1. l \in Ledger /\ Shaped(l) /\ l.rev = plan.rev /\ plan.rev \in Nat
      /\ l.current = None
  <2>1. plan.rev \in 0..MaxRevision /\ plan.rev # 0
    BY RevisionTyped
  <2> QED BY <2>1, EmptyShaped DEF EmptyLedger
<1>2. m = [l EXCEPT !.empty = FALSE, !.life = "in_progress", !.completed = carry, !.carried = carry]
  BY DEF Amended
<1> HIDE DEF l, m
<1>3. /\ m \in Ledger /\ m.rev = l.rev /\ m.completed = carry /\ m.carried = carry
      /\ m.current = None /\ m.life = "in_progress" /\ m.final = l.final /\ ~m.empty
      /\ m.reviews = l.reviews /\ m.valid = l.valid
  BY <1>1, <1>2 DEF Ledger
<1>4. Shaped(m)
  BY <1>1, <1>3, NoneAssumption DEF Shaped
<1>5. Sound(m, proved, plan, attested)
  BY <1>1, <1>3, <1>4 DEF Sound, Evidenced, Approved, contract
<1> QED BY <1>3, <1>5 DEF m

LEMMA ActivateStep ==
  ASSUME IInv, NEW carry \in SUBSET Stages, Activate(carry)
  PROVE  IInv'
<1> DEFINE c == Command("unlink", Amended(carry), {})
           n == plan.rev - 1
<1>1. /\ command \in [Slots -> CommandType \cup {None}] /\ OneArchive
      /\ \A j \in Slots : command[j] # None => CommandSound(command[j])
      /\ archive \in [1..(MaxRevision - 1) -> ArchiveType]
      /\ \A r \in 1..(MaxRevision - 1) : ArchiveSound(r)
  BY DEF IInv, TaskTyped, TaskSound
<1>2. /\ Approved /\ Archived(n) /\ carry \subseteq Carriable(archive[n])
      /\ command["waited"] = None /\ ledger' = EmptyLedger(0)
      /\ snapshot' \in {"none", "foreign"}
      /\ Proceed("waited", c)
      /\ Fault \/ UNCHANGED faults
      /\ UNCHANGED <<workVars, taskVars, proved, dispatchVars>>
  BY DEF Activate, Idle
<1>3. \A s \in carry : Semantics(contract, s) \in proved
  <2>1. n \in 1..(MaxRevision - 1)
    BY <1>1, <1>2 DEF Archived
  <2>2. ArchiveSound(n)
    BY <1>1, <2>1
  <2> QED BY <1>2, <2>2 DEF ArchiveSound, Carriable
<1>4. c \in CommandType /\ c.step = "unlink" /\ ~c.new.empty
      /\ Sound(c.new, proved, plan, attested)
  BY <1>2, <1>3, AmendedSound DEF Command, CommandType
<1>5. Fits(c, proved, plan, attested, archive)
  BY <1>4 DEF Fits
<1> HIDE DEF c
<1> DEFINE other(j) == [command[j] EXCEPT !.late = TRUE]
<1>6. command' = [j \in Slots |-> IF j = "waited" THEN c
                                  ELSE IF command[j] = None THEN None ELSE other(j)]
  BY <1>2 DEF Proceed
<1>7. ASSUME NEW j \in Slots, command[j] # None
      PROVE  /\ other(j) \in CommandType /\ other(j).step = command[j].step
             /\ Fits(other(j), proved, plan, attested, archive)
  BY <1>1, <1>7, CommandStays
<1> HIDE DEF other
<1>8. \A j \in Slots : (command[j] # None => CommandSound(command[j]))'
  BY <1>2, <1>5, <1>6, <1>7 DEF CommandSound, taskVars
<1>9. TaskTyped' /\ OneArchive'
  BY <1>1, <1>2, <1>4, <1>6, <1>7 DEF IInv, TaskTyped, OneArchive, taskVars, Slots
<1>10. EmptyLedger(0) \in Ledger /\ EmptyLedger(0).empty
  BY EmptyShaped, BoundsAssumption DEF EmptyLedger
<1>11. LedgerSound' /\ AttestationSound' /\ ledger' # None
  BY <1>2, <1>10, NoneAssumption DEF LedgerSound, IInv, TaskSound, AttestationSound, taskVars
<1>12. \A r \in 1..(MaxRevision - 1) : ArchiveSound(r)'
  <2> SUFFICES ASSUME NEW r \in 1..(MaxRevision - 1) PROVE ArchiveSound(r)'
    OBVIOUS
  <2>1. ArchiveSound(r) /\ UNCHANGED <<plan, attested, archive, proved>>
    BY <1>1, <1>2 DEF taskVars
  <2>2. ledger' # None /\ ledger'.empty /\ Archived(r)' = Archived(r)
    BY <1>2, <1>10, <1>11, <2>1 DEF Archived
  <2> QED BY <2>1, <2>2 DEF ArchiveSound
<1>13. ReviewTyped' /\ ReviewSound'
  BY <1>2, ReviewKept DEF IInv, workVars, taskVars, dispatchVars
<1>14. TypeOK'
  BY <1>2, <1>9, <1>11, <1>13, RevisionTyped, TypeStep DEF taskVars
<1> QED BY <1>8, <1>9, <1>11, <1>12, <1>13, <1>14 DEF IInv, TaskSound

--------------------------------------------------------------------------------
(* The invariant *)

LEMMA InitSound == Init => IInv
<1> SUFFICES ASSUME Init PROVE IInv
  OBVIOUS
<1>1. TypeOK
  <2>1. /\ tree \in [Paths -> 0..MaxVersion] /\ head \in [Paths -> 0..MaxVersion]
        /\ faults \in 0..MaxFaults
    BY BoundsAssumption, FaultsAssumption DEF Init, ReviewInit
  <2>2. plan \in Plans
    <3>1. 1 \in 1..MaxRevision
      BY BoundsAssumption
    <3> QED BY <3>1, ContractsAssumption DEF Init, Plans
  <2>3. /\ dispatch \in [Attempts -> DispatchOf(Context) \cup {None}]
        /\ agent \in [Attempts -> AgentStates]
    BY DEF Init, ReviewInit, AgentStates
  <2>4. ledger = EmptyLedger(0)
    BY DEF Init
  <2>5. \A k \in Slots : command[k] = None
    BY DEF Init
  <2>6. \A r \in DOMAIN archive : archive[r].dir \in {"none", "partial", "done"}
    BY DEF Init
  <2> QED BY <2>1, <2>2, <2>3, <2>4, <2>5, <2>6, LedgerTyped DEF Init, TypeOK
<1>2. ReviewTyped /\ ReviewSound
  BY DEF Init, ReviewInit, ReviewTyped, ReviewSound, AttemptSound, AgentStates, Attempts
<1>3. TaskTyped
  BY DEF Init, TaskTyped, ArchiveType, Slots
<1>4. \A r \in 1..(MaxRevision - 1) : ~Archived(r)
  BY DEF Init, Archived
<1>5. LedgerSound /\ AttestationSound /\ OneArchive
      /\ \A k \in Slots : command[k] = None
  BY DEF Init, LedgerSound, AttestationSound, OneArchive
<1>6. TaskSound
  BY <1>4, <1>5 DEF TaskSound, ArchiveSound
<1> QED BY <1>1, <1>2, <1>3, <1>6 DEF IInv

LEMMA NextSound == IInv /\ [Next]_vars => IInv'
<1> SUFFICES ASSUME IInv, [Next]_vars PROVE IInv'
  OBVIOUS
<1>1. CASE \/ Reviewing(ReviewNext)
           \/ \E scope \in Scopes, policy \in Policies : Review(scope, policy)
  BY <1>1, ReviewSteps
<1>2. CASE \/ \E c \in DOMAIN Terms : Replan(c) \/ Revise(c)
           \/ \E commit \in Authorizations : Attest(commit)
  BY <1>2, PlanSteps
<1>3. CASE RecordPlanReview
  BY <1>3, PlanReviewStep
<1>4. CASE \E k \in Slots : Steps(k)
  BY <1>4, AppendStep, SaveStep, ArchiveDoneStep, CommandSteps DEF Steps
<1>5. CASE Reconcile \/ TimeOut \/ Kill
  BY <1>5, CommandSteps
<1>6. CASE \/ ExecutionStarted \/ Blocked \/ Resumed \/ AmendmentRequested \/ Aborted
           \/ Completed
  BY <1>6, LifeEvents
<1>7. CASE FinalCommitRecorded \/ RecordFinalReview \/ \E s \in Stages : CommitRecorded(s)
  BY <1>7, ClosingEvents
<1>8. ASSUME NEW s \in Stages,
             \/ StageProgress(s) \/ AttemptFailed(s)
             \/ \E v \in Validations : RecordValidation(s, v, FALSE)
      PROVE  IInv'
  BY <1>8, AttemptEvents, EvidenceEvents, CompletionEvent, ClosingEvents DEF StageProgress
<1>9. CASE ArchiveStart \/ \E carry \in SUBSET Stages : Activate(carry)
  BY <1>9, ArchiveStartStep, ActivateStep
<1>10. CASE FinalCheck \/ (\E p \in Paths : Edit(p) \/ Undo(p)) \/ GitCommit \/ OtherTask
              \/ ClosePointer
  BY <1>10, WorkSteps
<1>11. CASE UNCHANGED vars
  <2>1. ReviewTyped' /\ ReviewSound'
    BY <1>11, ReviewKept DEF IInv, vars, workVars, taskVars, dispatchVars
  <2>2. TaskTyped' /\ TaskSound'
    BY <1>11, TaskKept DEF IInv, vars, taskVars, runtimeVars
  <2>3. TypeOK'
    BY <1>11 DEF IInv, TypeOK, vars, workVars, taskVars, runtimeVars, dispatchVars
  <2> QED BY <2>1, <2>2, <2>3 DEF IInv
<1> QED BY <1>1, <1>2, <1>3, <1>4, <1>5, <1>6, <1>7, <1>8, <1>9, <1>10, <1>11 DEF Next

LEMMA Invariant == Spec => []IInv
BY InitSound, NextSound, PTL DEF Spec

\* Only an append and an activation change the ledger, only the final check accepts.
LEMMA WhatChanges ==
  ASSUME [Next]_vars
  PROVE  /\ \/ ledger' = ledger
            \/ \E k \in Slots : Append(k)
            \/ \E carry \in SUBSET Stages : Activate(carry)
         /\ accepted' = accepted \/ FinalCheck
<1> DEFINE Still == ledger' = ledger /\ accepted' = accepted
<1> USE DEF taskVars, runtimeVars
<1>1. ASSUME NEW new, NEW proves, Event(new, proves) PROVE Still
  BY <1>1 DEF Event
<1>2. CASE \/ Reviewing(ReviewNext)
           \/ \E scope \in Scopes, policy \in Policies : Review(scope, policy)
  BY <1>2 DEF Reviewing, Review
<1>3. CASE \/ \E c \in DOMAIN Terms : Replan(c) \/ Revise(c)
           \/ \E commit \in Authorizations : Attest(commit)
           \/ RecordPlanReview
  BY <1>3 DEF Replan, Revise, Attest, RecordPlanReview
<1>4. CASE \E k \in Slots : Save(k) \/ ArchiveDone(k) \/ Unlink(k) \/ AmendmentApproved(k)
  BY <1>4 DEF Save, ArchiveDone, Unlink, AmendmentApproved
<1>5. CASE Reconcile \/ TimeOut \/ Kill \/ ArchiveStart
  BY <1>5 DEF Reconcile, TimeOut, Kill, ArchiveStart
<1>6. CASE \/ ExecutionStarted \/ Blocked \/ Resumed \/ AmendmentRequested \/ Aborted
           \/ Completed \/ FinalCommitRecorded \/ RecordFinalReview
  BY <1>1, <1>6 DEF ExecutionStarted, Blocked, Resumed, AmendmentRequested, Aborted, Completed,
     FinalCommitRecorded, RecordFinalReview
<1>7. ASSUME NEW s \in Stages,
             \/ StageProgress(s) \/ AttemptFailed(s)
             \/ \E v \in Validations : RecordValidation(s, v, FALSE)
      PROVE  Still
  BY <1>1, <1>7 DEF StageProgress, StageStarted, RecordStageReview, StageCompleted, CommitRecorded,
     AttemptFailed, RecordValidation
<1>8. CASE (\E p \in Paths : Edit(p) \/ Undo(p)) \/ GitCommit \/ OtherTask \/ ClosePointer
  BY <1>8 DEF Edit, Undo, Change, GitCommit, OtherTask, ClosePointer
<1>9. ASSUME NEW k \in Slots, Append(k) PROVE accepted' = accepted
  BY <1>9 DEF Append
<1>10. ASSUME NEW carry \in SUBSET Stages, Activate(carry) PROVE accepted' = accepted
  BY <1>10 DEF Activate
<1>11. FinalCheck => ledger' = ledger
  BY DEF FinalCheck
<1>12. CASE UNCHANGED vars
  BY <1>12 DEF vars
<1> QED
  BY <1>2, <1>3, <1>4, <1>5, <1>6, <1>7, <1>8, <1>9, <1>10, <1>11, <1>12 DEF Next, Steps

--------------------------------------------------------------------------------
(* The theorems *)

\* A receipt that counts tells of what it names: its reviewer read exactly the frozen
\* target unless an edit was taken back while it read, and one that claims independence
\* was not written by the coordinator (validate_receipt, verify_target_freshness).  With
\* it, every variable has its type.
THEOREM ReceiptsAreTrue == Spec => []ReceiptTrue
<1>1. IInv => ReceiptTrue
  BY DEF IInv, ReceiptTrue, ReviewSound, Truthful
<1> QED BY <1>1, Invariant, PTL

\* The second agent of a review begins when the first was closed, and reviews the same
\* claims (_validate_retry_predecessor).
THEOREM ReviewersAreOne == Spec => []OneReviewer
<1>1. IInv => OneReviewer
  BY DEF IInv, OneReviewer, ReviewSound, AttemptSound, Retriable, Attempts
<1> QED BY <1>1, Invariant, PTL

\* A readable ledger is sound, and none of an empty one's stages is completed.
LEMMA ReadableSound ==
  ASSUME IInv, Readable
  PROVE  /\ ledger.empty => ledger.completed = {} /\ ledger.life = "approved"
         /\ ~ledger.empty => /\ Shaped(ledger) /\ ledger \in Ledger
                             /\ Evidenced(ledger, proved, contract)
<1>1. ledger.empty => ledger = EmptyLedger(0)
  BY DEF IInv, TaskSound, LedgerSound, Readable
<1>2. ~ledger.empty => ledger # EmptyLedger(0) /\ ledger.rev = plan.rev
  BY DEF EmptyLedger, Readable
<1> QED BY <1>1, <1>2, LedgerInForce DEF EmptyLedger, Sound, Shaped, contract, Readable

\* A completed stage has its passed review and its required validations of one content,
\* which the reviewer saw but for edits taken back meanwhile, and the reviewer of a
\* high-risk one was an agent (apply_event on stage_completed, validate_review_gate).
THEOREM EvidenceIsThere == Spec => []EvidenceStands
<1>1. ASSUME IInv PROVE EvidenceStands
  <2> SUFFICES ASSUME Readable, NEW s \in ledger.completed \ ledger.carried
               PROVE  LET r == ledger.reviews[s]
                      IN /\ r # None /\ r.verdict = "passed" /\ SawTarget(r)
                         /\ contract.risk[s] = "high" => r.by = "agent"
                         /\ \A v \in contract.validations[s] \cap contract.required :
                              ledger.valid[s][v] = r.target
    BY DEF EvidenceStands
  <2>1. Shaped(ledger) /\ ledger \in Ledger /\ Evidenced(ledger, proved, contract)
    BY <1>1, ReadableSound
  <2>2. Stood(ledger, s, contract) /\ s \in Stages
    BY <2>1 DEF Evidenced, Ledger
  <2> QED BY <2>1, <2>2 DEF Stood, Shaped, Kept, Truthful
<1> QED BY <1>1, Invariant, PTL

\* Over any number of amendments a completed stage was completed on evidence, on the very
\* terms the contract in force has for it (validate_carried_stage_semantics).
THEOREM CompletedIsProved == Spec => []CompletedProved
<1>1. IInv => CompletedProved
  BY ReadableSound DEF CompletedProved, Evidenced
<1> QED BY <1>1, Invariant, PTL

\* A ledger is removed only when all it says of the stages is in the archive of its
\* revision and it asked for the amendment, even if a command that ran on appended to it
\* in between (activate_amendment).
THEOREM NothingIsLost == Spec => NothingLost
<1>1. ASSUME IInv, [Next]_vars, ledger # None, ledger' # None, ledger.rev # 0, ledger'.rev = 0
      PROVE  archive[ledger.rev].completed = ledger.completed /\ ledger.reapproval
  <2>1. ASSUME NEW k \in Slots, Append(k) PROVE FALSE
    <3>1. command[k] # None /\ CommandSound(command[k]) /\ command[k].step = "append"
          /\ ~command[k].late /\ ledger' = command[k].new
      BY <1>1, <2>1 DEF Append, IInv, TaskSound
    <3> QED BY <1>1, <3>1 DEF CommandSound, Fits, Sound, Shaped
  <2>2. PICK carry \in SUBSET Stages : Activate(carry)
    BY <1>1, <2>1, WhatChanges
  <2> DEFINE r == plan.rev - 1
  <2>3. Archived(r) /\ Resettable(archive[r])
    BY <2>2 DEF Activate
  <2>4. ledger = EmptyLedger(0) => ledger.rev = 0
    BY DEF EmptyLedger
  <2>5. ~ledger.empty /\ ledger.rev = r
    BY <1>1, <2>3, <2>4 DEF Resettable, IInv, TaskSound, LedgerSound
  <2>6. ArchiveSound(r) /\ r < plan.rev
    BY <1>1, <2>3, RevisionTyped DEF IInv, TaskSound, TaskTyped, Archived
  <2> QED BY <2>3, <2>5, <2>6 DEF ArchiveSound, Resettable
<1>2. IInv /\ [Next]_vars =>
        [ledger # None /\ ledger' # None /\ ledger.rev # 0 /\ ledger'.rev = 0
           => archive[ledger.rev].completed = ledger.completed /\ ledger.reapproval]_vars
  BY <1>1
<1> QED BY <1>2, Invariant, PTL DEF Spec, NothingLost

\* What the final checker accepts has every stage proved on its terms, a required
\* validation for every criterion, and an agent's review whose target is exactly what is
\* there now and was read as it was frozen, but for edits taken back meanwhile (check_final).
THEOREM AcceptedIsProved == Spec => AcceptedWork
<1> DEFINE Good ==
      LET r == ledger.final
      IN /\ \A s \in Stages : Semantics(contract, s) \in proved
         /\ \A x \in Criteria : \E s \in Stages :
              \E v \in contract.validations[s] \cap contract.required : x \in contract.covers[v]
         /\ r.by = "agent" /\ r.target.content = Content(r.target.kind) /\ SawTarget(r)
         /\ r.target.kind = "commit-range" => uncommitted = {}
         /\ attested.plan = plan
<1>1. ASSUME IInv, [Next]_vars, accepted', ~accepted
      PROVE  Good
  <2> DEFINE r == ledger.final
  <2>1. FinalCheck
    BY <1>1, WhatChanges DEF IInv, TypeOK
  <2>2. /\ Readable /\ ledger.life = "completed" /\ r # None
        /\ ReviewGate(ledger, r, FinalScope)
    BY <2>1 DEF FinalCheck
  <2>3. Shaped(ledger) /\ Evidenced(ledger, proved, contract)
    BY <1>1, <2>2, ReadableSound
  <2>4. \A s \in Stages : Semantics(contract, s) \in proved
    BY <2>2, <2>3 DEF Shaped, Evidenced
  <2>5. attested # None /\ attested.plan = plan /\ ContractValid(contract)
    BY <1>1, <2>2 DEF Readable, Approved, IInv, TaskSound, AttestationSound, contract
  <2>6. \A x \in Criteria : \E s \in Stages :
          \E v \in contract.validations[s] \cap contract.required : x \in contract.covers[v]
    BY <2>5 DEF ContractValid, CoverageComplete
  <2>7. ExpectedPolicy(FinalScope) = "strict"
    BY DEF ExpectedPolicy, FinalScope
  <2>8. r.by = "agent" /\ SawTarget(r)
    BY <2>2, <2>3, <2>7 DEF Shaped, Kept, Truthful, ReviewGate, ReceiptValid
  <2>9. /\ r.target.kind = "commit-range" => r.target.content = head /\ uncommitted = {}
        /\ TargetFresh(r.target)
    BY <2>2 DEF ReviewGate, ManagedTarget, FinalScope, ReceiptValid, Fresh
  <2>10. r.target.content = Content(r.target.kind)
    BY <2>9 DEF TargetFresh, Content
  <2> QED BY <2>4, <2>5, <2>6, <2>8, <2>9, <2>10
<1>2. IInv /\ [Next]_vars => [accepted' /\ ~accepted => Good]_vars
  BY <1>1
<1> HIDE DEF Good
<1>3. Spec => [][accepted' /\ ~accepted => Good]_vars
  BY <1>2, Invariant, PTL DEF Spec
<1> QED BY <1>3 DEF AcceptedWork, Good
================================================================================
