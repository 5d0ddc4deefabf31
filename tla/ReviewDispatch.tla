---------------------------- MODULE ReviewDispatch -----------------------------
(* complex-coding-reviewer: one review of a frozen target, by a delegated      *)
(* agent in at most two attempts or by the coordinator itself, up to the       *)
(* receipt that Planner and Executor consume.  The target is a plan bundle,    *)
(* the working tree or a commit; the context is the plan with the evidence the *)
(* brief claims.  Findings, lenses and coverage are abstracted to the verdict  *)
(* they derive, time stamps to the order of the steps.                         *)
EXTENDS Naturals

CONSTANTS MaxFaults, \* how often something goes wrong: a host, an agent or a command
                     \* fails, work is found wanting or undone, an attempt is given up
          None       \* no value

ASSUME FaultsAssumption == MaxFaults \in Nat

VARIABLES tree,     \* content of the working tree
          head,     \* content of HEAD
          plan,     \* the plan bundle: revision and contract
          review,   \* the review at hand: frozen target and context, and policy;
                    \* `restored` is history: the target was changed and changed back
          dispatch, \* per attempt: the preparation, then the final dispatch
          agent,    \* per attempt: the delegated agent
          answer,   \* per attempt: the semantic result it was told to write
          receipt,  \* the receipt assembled
          faults

dispatchVars == <<review, dispatch, agent, answer, receipt>>

Attempts == 1..2
Policies == {"strict", "conditional", "disabled"}
Verdicts == {"passed", "changes_required"}
TargetKinds == {"plan-bundle", "git-diff", "commit-range"}
AgentStates == {"none", "running", "answered", "asking", "lost", "closed", "unclosed"}

ReviewOf(targets, contexts) ==
  [target : targets, context : contexts, policy : Policies, restored : BOOLEAN]

DispatchOf(contexts) ==
  [context : contexts, decision : {"delegate", "fallback", "blocked"},
   status : {"prepared", "completed", "failed", "fallback", "blocked"},
   retryable : BOOLEAN, closed : BOOLEAN, expand : BOOLEAN]

ReceiptOf(targets, contexts, contents) ==
  [target : targets, context : contexts, policy : Policies, ready : BOOLEAN,
   independent : BOOLEAN, by : {"agent", "self"}, seen : contents, restored : BOOLEAN,
   verdict : Verdicts]

-------------------------------------------------------------------------------
(* Targets and contexts *)

\* What a target of this scope and kind freezes: the digest of what is there now.
Content(kind) == CASE kind = "plan-bundle" -> plan
                   [] kind = "git-diff" -> <<tree, head>>
                   [] kind = "commit-range" -> head

TargetOf(scope, kind) == [scope |-> scope, kind |-> kind, content |-> Content(kind)]

\* Mutant: a working tree is compared by its HEAD alone.
FreshByHead(t) ==
  \/ t.kind = "commit-range"
  \/ t.kind = "plan-bundle" /\ t.content = plan
  \/ t.kind = "git-diff" /\ t.content[2] = head

\* A commit range names two commits and so never goes stale; the others are rebuilt.
TargetFresh(t) == t.kind = "commit-range" \/ t.content = Content(t.kind)

ContextOf(claims) == [plan |-> plan, claims |-> claims, expanded |-> FALSE]
ContextFresh(c) == c.plan = plan

Fresh(t, c) == TargetFresh(t) /\ ContextFresh(c)

\* The working tree is written, to something new or back to what it was; a target
\* whose digest is that of the tree again is as fresh as if nothing had happened.
WriteTree(content) ==
  /\ tree' = content
  /\ review' = IF /\ review # None /\ review.target.kind = "git-diff"
                  /\ review.target.content = <<content, head>>
               THEN [review EXCEPT !.restored = TRUE] ELSE review

-------------------------------------------------------------------------------
(* Dispatch *)

ReviewInit ==
  /\ review = None /\ receipt = None
  /\ dispatch = [a \in Attempts |-> None] /\ agent = [a \in Attempts |-> "none"]
  /\ answer = [a \in Attempts |-> None] /\ faults = 0

Fault == faults < MaxFaults /\ faults' = faults + 1

NothingDispatched ==
  /\ dispatch' = [a \in Attempts |-> None] /\ agent' = [a \in Attempts |-> "none"]
  /\ answer' = [a \in Attempts |-> None]

\* A review begins from inputs frozen now; nothing of an earlier one is reused.
StartReview(scope, kind, claims, policy) ==
  /\ review' = [target |-> TargetOf(scope, kind), context |-> ContextOf(claims),
                policy |-> policy, restored |-> FALSE]
  /\ receipt' = None /\ NothingDispatched
  /\ UNCHANGED <<tree, head, plan>>

Decision(policy, available) ==
  CASE policy = "disabled" -> "fallback"
    [] policy # "disabled" /\ available -> "delegate"
    [] policy = "strict" /\ ~available -> "blocked"
    [] OTHER -> "fallback"

Preparation(context, available) ==
  [context |-> context, decision |-> Decision(review.policy, available),
   status |-> "prepared", retryable |-> FALSE, closed |-> TRUE, expand |-> FALSE]

\* Whether attempt 1 permits a second one: a closed, retryable failure of the same
\* review, whose agent is not replaced by the coordinator.
Retriable(first) == first.status = "failed" /\ first.retryable /\ first.closed

\* Attempt 2 keeps the target, and the context unless the agent asked for more.
RetryContext(first) ==
  IF first.expand THEN [first.context EXCEPT !.expanded = TRUE] ELSE first.context

\* A host without spawn, wait and close is a fault; attempt 1.
Prepare(available) ==
  /\ review # None /\ dispatch[1] = None
  /\ Fresh(review.target, review.context)
  /\ dispatch' = [dispatch EXCEPT ![1] = Preparation(review.context, available)]
  /\ IF available THEN UNCHANGED faults ELSE Fault
  /\ UNCHANGED <<tree, head, plan, review, agent, answer, receipt>>

PrepareRetry ==
  /\ review # None /\ dispatch[1] # None /\ dispatch[2] = None
  /\ Retriable(dispatch[1])
  /\ LET context == RetryContext(dispatch[1])
         second == Preparation(context, TRUE)
     IN /\ Fresh(review.target, context)
        /\ second.decision = "delegate"
        /\ dispatch' = [dispatch EXCEPT ![2] = second]
  /\ UNCHANGED <<tree, head, plan, review, agent, answer, receipt, faults>>

Prepared(a) == dispatch[a] # None /\ dispatch[a].status = "prepared"

Spawn(a) ==
  /\ Prepared(a) /\ dispatch[a].decision = "delegate" /\ agent[a] = "none"
  /\ agent' = [agent EXCEPT ![a] = "running"]
  /\ UNCHANGED <<tree, head, plan, review, dispatch, answer, receipt, faults>>

\* The semantic result names the frozen digests; seen is what the reviewer read,
\* which for a commit range git keeps as it was.
Result(a, who, verdict) ==
  LET t == review.target
  IN [by |-> who, target |-> t, context |-> dispatch[a].context, verdict |-> verdict,
      seen |-> IF t.kind = "commit-range" THEN t.content ELSE Content(t.kind)]

Judged(verdict) ==
  IF verdict = "passed" THEN UNCHANGED faults ELSE Fault

\* An agent that could not be closed may still answer, late.
AgentAnswers(a, verdict) ==
  /\ agent[a] \in {"running", "unclosed"} /\ answer[a] = None
  /\ answer' = [answer EXCEPT ![a] = Result(a, "agent", verdict)]
  /\ agent' = [agent EXCEPT ![a] = IF @ = "running" THEN "answered" ELSE @]
  /\ Judged(verdict)
  /\ UNCHANGED <<tree, head, plan, review, dispatch, receipt>>

AgentAsksForContext(a) ==
  /\ agent[a] = "running" /\ Fault
  /\ agent' = [agent EXCEPT ![a] = "asking"]
  /\ UNCHANGED <<tree, head, plan, review, dispatch, answer, receipt>>

\* The agent crashes, times out or cannot be spawned: no answer comes.
AgentLost(a) ==
  /\ Prepared(a) /\ agent[a] \in {"none", "running"}
  /\ dispatch[a].decision = "delegate" /\ Fault
  /\ agent' = [agent EXCEPT ![a] = "lost"]
  /\ UNCHANGED <<tree, head, plan, review, dispatch, answer, receipt>>

\* Mutant: that the agent could not be closed is not recorded of a failed dispatch.
OutcomeForgetsAgent(a, closed) ==
  LET d == dispatch[a]
      fresh == Fresh(review.target, d.context)
      complete == agent[a] = "answered" /\ closed /\ fresh
  IN [d EXCEPT !.status = IF complete THEN "completed" ELSE "failed",
               !.retryable = ~complete /\ fresh /\ a = 1,
               !.expand = agent[a] = "asking" /\ fresh]

\* The lifecycle a final dispatch records.  The inputs must be fresh, or stale be
\* the failure; the last attempt and an unclosed agent are not retried.
Outcome(a, closed) ==
  LET d == dispatch[a]
      fresh == Fresh(review.target, d.context)
      complete == agent[a] = "answered" /\ closed /\ fresh
  IN [d EXCEPT !.status = IF complete THEN "completed" ELSE "failed",
               !.retryable = ~complete /\ closed /\ fresh /\ a = 1,
               !.expand = agent[a] = "asking" /\ closed /\ fresh,
               !.closed = closed]

\* The coordinator closes the agent and finalizes; a close may fail.
Finalize(a, closed) ==
  /\ Prepared(a) /\ agent[a] \in {"answered", "asking", "lost"}
  /\ IF closed THEN UNCHANGED faults ELSE Fault
  /\ dispatch' = [dispatch EXCEPT ![a] = Outcome(a, closed)]
  /\ agent' = [agent EXCEPT ![a] = IF closed THEN "closed" ELSE "unclosed"]
  /\ UNCHANGED <<tree, head, plan, review, answer, receipt>>

\* Without a delegate: the coordinator reviews in its own context, before or after
\* it finalizes, or is blocked.
SelfReviews(a, verdict) ==
  /\ dispatch[a] # None /\ dispatch[a].decision = "fallback" /\ answer[a] = None
  /\ answer' = [answer EXCEPT ![a] = Result(a, "self", verdict)]
  /\ Judged(verdict)
  /\ UNCHANGED <<tree, head, plan, review, dispatch, agent, receipt>>

FinalizeFallback(a) ==
  /\ Prepared(a) /\ dispatch[a].decision = "fallback"
  /\ Fresh(review.target, dispatch[a].context)
  /\ dispatch' = [dispatch EXCEPT ![a].status = "fallback"]
  /\ UNCHANGED <<tree, head, plan, review, agent, answer, receipt, faults>>

FinalizeBlocked(a) ==
  /\ Prepared(a) /\ dispatch[a].decision = "blocked"
  /\ Fresh(review.target, dispatch[a].context)
  /\ dispatch' = [dispatch EXCEPT ![a].status = "blocked"]
  /\ UNCHANGED <<tree, head, plan, review, agent, answer, receipt, faults>>

-------------------------------------------------------------------------------
(* The receipt *)

ReceiptReady(d) == d.status \in {"completed", "fallback"}

\* The answer of an agent that was not closed is kept as a candidate.
Candidate(d) == d.status = "failed" /\ ~d.closed

Receipt(a) ==
  [target |-> review.target, context |-> dispatch[a].context, policy |-> review.policy,
   ready |-> ReceiptReady(dispatch[a]), independent |-> dispatch[a].status = "completed",
   by |-> answer[a].by, seen |-> answer[a].seen, restored |-> review.restored,
   verdict |-> answer[a].verdict]

\* The reviewer read what was frozen: the digests say so unless a change was taken back
\* while it read.
SawTarget(r) == r.seen = r.target.content \/ r.restored

\* The receipt ends the review; what it consumed is not read again.
Assemble(a) ==
  /\ review # None /\ dispatch[a] # None /\ answer[a] # None
  /\ ReceiptReady(dispatch[a]) \/ Candidate(dispatch[a])
  /\ Fresh(review.target, dispatch[a].context)
  /\ answer[a].target = review.target /\ answer[a].context = dispatch[a].context
  /\ receipt' = Receipt(a) /\ review' = None /\ NothingDispatched
  /\ UNCHANGED <<tree, head, plan, faults>>

\* Mutant: a receipt is accepted whatever its dispatch was allowed to do.
ReceiptUnderAnyPolicy(r, policy) ==
  r # None /\ r.ready /\ Fresh(r.target, r.context)

\* What the public validator grants a caller that expects this policy.
ReceiptValid(r, policy) ==
  r # None /\ r.ready /\ r.policy = policy /\ Fresh(r.target, r.context)

\* A review that cannot end in a receipt is given up and a new one may begin.
GiveUp ==
  /\ review # None
  /\ \/ /\ ~Fresh(review.target, review.context)
        /\ \A a \in Attempts : agent[a] \in {"none", "closed", "unclosed"}
     \/ \E a \in Attempts :
          /\ dispatch[a] # None
          /\ dispatch[a].status \in {"blocked", "failed"} /\ ~Retriable(dispatch[a])
          /\ answer[a] = None \/ ~Candidate(dispatch[a])
  /\ review' = None /\ NothingDispatched
  /\ UNCHANGED <<tree, head, plan, receipt, faults>>

Useful(a) ==
  \/ Spawn(a) \/ Finalize(a, TRUE) \/ FinalizeBlocked(a) \/ FinalizeFallback(a)
  \/ AgentAnswers(a, "passed") \/ SelfReviews(a, "passed") \/ Assemble(a)

ReviewProgress ==
  Prepare(TRUE) \/ PrepareRetry \/ GiveUp \/ \E a \in Attempts : Useful(a)

ReviewNext ==
  \/ Prepare(TRUE) \/ Prepare(FALSE) \/ PrepareRetry \/ GiveUp
  \/ \E a \in Attempts :
       \/ Spawn(a) \/ AgentAsksForContext(a) \/ AgentLost(a) \/ FinalizeBlocked(a)
       \/ FinalizeFallback(a) \/ Assemble(a)
       \/ \E verdict \in Verdicts : AgentAnswers(a, verdict) \/ SelfReviews(a, verdict)
       \/ \E closed \in BOOLEAN : Finalize(a, closed)
================================================================================
