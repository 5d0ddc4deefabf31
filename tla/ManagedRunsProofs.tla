-------------------------- MODULE ManagedRunsProofs --------------------------
(* Proofs about ManagedRuns, for any number of runs, services, sessions,     *)
(* threads and managers, both kinds of owner and any limits.  A step is      *)
(* first seen as what it does to the repository, which RunRepositoryProofs   *)
(* has proved consistent; then as what it does to one thread and one run.    *)
EXTENDS ManagedRuns, RunRepositoryProofs

\* A thread that started the run of its key, whether it goes on or cleans up.
Starter(t) == th[t].mode \in {"start", "host"}
Early == {"reserved", "hosted", "owned"}
EvidenceOf(k) == IF processes[k] = NoRecord THEN "none" ELSE processes[k].evidence

\* The owner of k has no process to answer for and never will.
Spent(k) ==
  /\ HostGone(k)
  /\ \A t \in Threads : th[t].pc = "reserved" => th[t].key # k
  /\ IF backend = "cgroup" THEN alive[k] = {}
     ELSE InGroup(k) = {} \/ (k \notin identified /\ EvidenceOf(k) # "full")

\* What a thread holds by where it is.
ThreadOK(t) ==
  /\ th[t].pc # "idle" => manager # None
  /\ th[t].pc \notin {"idle", "next"} => th[t].key \in Keys \cap issued
  /\ Starter(t) => /\ th[t].call = "run"
                   /\ th[t].pc \in StartPcs \cup {"running", "clean", "killed", "late", "commit"}
  /\ th[t].pc \in StartPcs \cup {"running"} => th[t].mode = "start"
  /\ th[t].pc = "late" => Starter(t)
  /\ th[t].pc = "commit" \/ (th[t].pc \in {"enrich", "clean", "killed"} /\ ~Starter(t)) =>
       th[t].claim \in ClaimIds
  /\ th[t].call = "close" => th[t].session \in Sessions
  /\ th[t].mode = "live" /\ th[t].pc \in FinalizePcs => th[t].key \in bound
  /\ th[t].pc \in {"bound", "told", "full", "running"} => th[t].key \in bound
  /\ th[t].pc \in {"full", "running"} => th[t].key \in identified
  /\ th[t].pc \in {"idle", "next"} => th[t].seen = "none"
  /\ th[t].seen # "none" => th[t].key \in Keys /\ EvidenceOf(th[t].key) # "none"
  /\ th[t].seen = "full" => EvidenceOf(th[t].key) = "full"
  /\ th[t].verified => th[t].pc \in {"late", "commit"} /\ Spent(th[t].key)

\* How far the host and the target of a starting run may be.
StartOK(t) ==
  LET k == th[t].key
  IN  k \in Keys =>
        /\ th[t].pc = "reserved" => host[k] = "none" /\ k \notin bound
        /\ th[t].pc \in Early \/ th[t].mode = "host" => EvidenceOf(k) = "none"
        /\ th[t].pc \in Early \cup {"evidenced"} \/ th[t].mode = "host" =>
             host[k] \in {"none", "waiting", "exited"} /\ alive[k] = {} /\ k \notin identified
        /\ th[t].mode = "start" /\ k \notin bound =>
             /\ host[k] \notin {"told", "serving", "ending"}
             /\ k \notin identified /\ EvidenceOf(k) # "full"

\* A run has one thread that started it.
OneStarter == \A t, u \in Threads : Starter(t) /\ Starter(u) /\ th[t].key = th[u].key => t = u

\* A run is not begun, or live, or over.
RunOK(k) ==
  IF k \in issued THEN processes[k] # NoRecord /\ (IsActive(processes[k]) \/ Spent(k))
  ELSE host[k] = "none" /\ alive[k] = {} /\ k \notin identified /\ k \notin bound

ManagerSound == (gate => manager # None) /\ runs \subseteq bound

MInv ==
  /\ ManagedTypeOK
  /\ ManagerSound
  /\ \A t \in Threads : ThreadOK(t) /\ StartOK(t)
  /\ OneStarter
  /\ \A k \in Keys : RunOK(k)

IInv == SInv /\ MInv

--------------------------------------------------------------------------------
(* What a step does to the repository.                                       *)

\* Nothing, except that readers remember other revisions.
Quiet ==
  /\ UNCHANGED <<processes, active, sessions, history, issued, intakeFence, workGeneration>>
  /\ current' \in [Keys -> SUBSET Readers]

RepositoryStep ==
  \/ Quiet
  \/ \E k \in Keys, i \in Sessions \cup {None}, m \in Instances : Reserve(k, i, m)
  \/ \E k \in Keys, status \in ActiveStates, evidence \in Evidence,
        remembering \in SUBSET Readers :
       /\ processes[k] # NoRecord
       /\ UpdateActive(k, status, evidence, processes[k].claim, remembering)
  \/ \E k \in Keys, id \in ClaimIds, m \in Instances, inspected \in BOOLEAN,
        remembering \in SUBSET Readers :
       ClaimFinalization(k, id, m, inspected, remembering)
  \/ \E k \in Keys : ExpireClaim(k)
  \/ \E k \in Keys, id \in ClaimIds, completed \in BOOLEAN : CommitFinalization(k, id, completed)
  \/ \E i \in Sessions, m \in Instances : OpenSession(i, m)
  \/ \E i \in Sessions : CloseRequest(i) \/ ExpireSession(i) \/ FinishSession(i)

LEMMA UpdateKeepsSInv ==
  ASSUME SInv, NEW k \in Keys, NEW status \in ActiveStates, NEW evidence \in Evidence,
         NEW claim \in Claim \cup {NoClaim}, NEW remembering \in SUBSET Readers,
         UpdateActive(k, status, evidence, claim, remembering)
  PROVE  SInv'
BY TInvUpdate, SValidUpdate DEF SInv

LEMMA RepositoryStepKeepsSInv ==
  ASSUME SInv, RepositoryStep
  PROVE  SInv'
<1>a. /\ \A k \in Keys : processes[k] \in Record \cup {NoRecord}
      /\ "terminating" \in ActiveStates
  BY DEF SInv, TInv, TypeOK, ActiveStates
<1>1. CASE Quiet
  BY <1>1 DEF Quiet, history, SInv, TInv, TypeOK, IdentitiesIssued, StateValid
<1>2. ASSUME NEW k \in Keys, NEW i \in Sessions \cup {None}, NEW m \in Instances,
             Reserve(k, i, m)
      PROVE  SInv'
  BY <1>2, TInvReserve, SValidReserve DEF SInv
<1>3. ASSUME NEW k \in Keys, NEW status \in ActiveStates, NEW evidence \in Evidence,
             NEW remembering \in SUBSET Readers, processes[k] # NoRecord,
             UpdateActive(k, status, evidence, processes[k].claim, remembering)
      PROVE  SInv'
  <2>1. processes[k].claim \in Claim \cup {NoClaim}
    BY <1>a, <1>3, RecordFields
  <2> QED BY <1>3, <2>1, UpdateKeepsSInv
<1>4. ASSUME NEW k \in Keys, NEW id \in ClaimIds, NEW m \in Instances,
             NEW inspected \in BOOLEAN, NEW remembering \in SUBSET Readers,
             ClaimFinalization(k, id, m, inspected, remembering)
      PROVE  SInv'
  <2>1. UpdateActive(k, "terminating", processes[k].evidence,
                     [id |-> id, by |-> m, expired |-> FALSE], remembering)
    BY <1>4 DEF ClaimFinalization
  <2>2. processes[k].evidence \in Evidence
    BY <1>a, <2>1, RecordFields DEF UpdateActive
  <2>3. [id |-> id, by |-> m, expired |-> FALSE] \in Claim \cup {NoClaim}
    BY DEF Claim
  <2> QED BY <1>a, <2>1, <2>2, <2>3, UpdateKeepsSInv
<1>5. ASSUME NEW k \in Keys, ExpireClaim(k) PROVE SInv'
  BY <1>5, TInvExpire, SValidExpire DEF SInv
<1>6. ASSUME NEW k \in Keys, NEW id \in ClaimIds, NEW completed \in BOOLEAN,
             CommitFinalization(k, id, completed)
      PROVE  SInv'
  <2>1. CASE completed
    BY <1>6, <2>1, TInvCommitTerminal, SValidCommitTerminal DEF CommitFinalization, SInv
  <2>2. CASE ~completed
    <3>1. processes[k] # NoRecord
          /\ UpdateActive(k, "terminating", processes[k].evidence, NoClaim, {})
      BY <1>6, <2>2 DEF CommitFinalization, CommitPending
    <3>2. processes[k].evidence \in Evidence
      BY <1>a, <3>1, RecordFields
    <3> QED BY <1>a, <3>1, <3>2, UpdateKeepsSInv
  <2> QED BY <2>1, <2>2
<1>7. ASSUME NEW i \in Sessions, NEW m \in Instances, OpenSession(i, m) PROVE SInv'
  BY <1>7, TInvSession, SValidSession DEF SInv
<1>8. ASSUME NEW i \in Sessions, CloseRequest(i) \/ ExpireSession(i) \/ FinishSession(i)
      PROVE  SInv'
  <2>a. /\ {"open"} \in SUBSET SessionActiveStates
        /\ {"open", "cleanup_failed"} \in SUBSET SessionActiveStates
        /\ {"terminating", "expired", "cleanup_failed"} \subseteq SessionActiveStates
    BY DEF SessionActiveStates
  <2>1. ASSUME NEW from \in SUBSET SessionActiveStates, NEW to \in SessionActiveStates,
               SetClosing(i, from, to)
        PROVE  SInv'
    BY <2>1, TInvSession, SValidSession DEF SInv
  <2>2. CASE SessionEmpty(i) /\ Compact({i}) /\ sessions[i].state \in SessionActiveStates
    <3>1. {i} \in SUBSET {j \in ActiveSessionIds : SessionEmpty(j)}
      BY <2>2 DEF ActiveSessionIds
    <3> QED BY <2>2, <3>1, TInvCompact, SValidCompact DEF SInv
  <2> QED BY <1>8, <2>a, <2>1, <2>2 DEF CloseRequest, ExpireSession, FinishSession
<1> QED BY <1>1, <1>2, <1>3, <1>4, <1>5, <1>6, <1>7, <1>8 DEF RepositoryStep

\* What the types say of a thread and of the run it is about.
LEMMA ThreadFields ==
  ASSUME IInv, NEW t \in Threads
  PROVE  /\ th[t] \in Thread
         /\ th[t].pc \in StartPcs \cup FinalizePcs \cup {"running", "next", "idle"}
         /\ th[t].key \in Keys \cup {None} /\ th[t].mode \in Modes
         /\ th[t].claim \in ClaimIds \cup {None} /\ th[t].seen \in Evidence
         /\ th[t].verified \in BOOLEAN /\ th[t].call \in {"run", "close", "boot"}
         /\ th[t].session \in Sessions \cup {None} /\ th[t].todo \in SUBSET Keys
         /\ ThreadOK(t) /\ StartOK(t)
         /\ th[t].pc \notin {"idle", "next"} => th[t].key \in Keys /\ th[t].key \in issued
         /\ th[t].pc # "idle" => manager \in Instances
BY DEF IInv, MInv, ManagedTypeOK, Thread, ThreadOK

LEMMA Unchanged ==
  ASSUME IInv, UNCHANGED repoVars
  PROVE  Quiet
BY DEF repoVars, Quiet, history, IInv, SInv, TInv, TypeOK

LEMMA RememberQuietly ==
  ASSUME IInv, NEW k \in Keys, NEW t \in Threads,
         current' = [current EXCEPT ![k] = @ \cup {t}],
         UNCHANGED <<processes, active, sessions, history, issued, intakeFence, workGeneration>>
  PROVE  Quiet
<1>1. current \in [Keys -> SUBSET Readers] /\ t \in Readers
  BY ReadersAssumption DEF IInv, SInv, TInv, TypeOK
<1> QED BY <1>1 DEF Quiet

LEMMA StartUsesRepository ==
  ASSUME IInv, NEW t \in Threads, StartStep(t)
  PROVE  RepositoryStep
<1>0. /\ {"starting", "running"} \subseteq ActiveStates
      /\ {"host", "full"} \subseteq Evidence /\ {} \in SUBSET Readers
  BY DEF ActiveStates, Evidence
<1>1. ASSUME NEW from, NEW to, NEW status \in ActiveStates, NEW evidence \in Evidence,
             StartUpdate(t, from, to, status, evidence), from \notin {"idle", "next"}
      PROVE  RepositoryStep
  <2>1. th[t].key \in Keys
    BY <1>1, ThreadFields DEF StartUpdate
  <2>2. /\ processes[th[t].key] # NoRecord
        /\ UpdateActive(th[t].key, status, evidence, processes[th[t].key].claim, {})
    BY <1>1 DEF StartUpdate, UpdateActive
  <2> QED BY <1>0, <2>1, <2>2 DEF RepositoryStep
<1>2. CASE CommitOwner(t)
  BY <1>0, <1>1, <1>2 DEF CommitOwner
<1>3. CASE CommitTarget(t)
  BY <1>0, <1>1, <1>3 DEF CommitTarget
<1>4. CASE CommitRunning(t)
  BY <1>0, <1>1, <1>4 DEF CommitRunning
<1>5. CASE UNCHANGED repoVars
  BY <1>5, Unchanged DEF RepositoryStep
<1> QED BY <1>2, <1>3, <1>4, <1>5
    DEF StartStep, SpawnHost, CreateOwner, SendSpec, BindTarget, SendIdentity, Register,
        FailStart

LEMMA EnrichUsesRepository ==
  ASSUME IInv, NEW t \in Threads, NEW pc, th[t].pc \notin {"idle", "next"},
         EnrichEvidence(t, pc)
  PROVE  RepositoryStep
<1>1. /\ th[t].key \in Keys /\ {t} \in SUBSET Readers
      /\ "terminating" \in ActiveStates /\ "full" \in Evidence
  BY ThreadFields, ReadersAssumption DEF ActiveStates, Evidence
<1>2. CASE t \in current[th[t].key]
  <2>1. UpdateActive(th[t].key, "terminating", "full", processes[th[t].key].claim, {t})
    BY <1>2 DEF EnrichEvidence
  <2>2. processes[th[t].key] # NoRecord
    BY <2>1 DEF UpdateActive
  <2> QED BY <1>1, <2>1, <2>2 DEF RepositoryStep
<1>3. CASE UNCHANGED repoVars
  BY <1>3, Unchanged DEF RepositoryStep
<1> QED BY <1>2, <1>3 DEF EnrichEvidence

LEMMA FinalizeUsesRepository ==
  ASSUME IInv, NEW t \in Threads, FinalizeStep(t)
  PROVE  RepositoryStep
<1>k. th[t].pc \notin {"idle", "next"} =>
        /\ th[t].key \in Keys /\ {t} \in SUBSET Readers /\ manager \in Instances
  BY ThreadFields, ReadersAssumption
<1>1. CASE Lock(t)
  <2>1. CASE IsActive(processes[th[t].key])
    BY <1>1, <1>k, <2>1, RememberQuietly DEF Lock, RepositoryStep
  <2>2. CASE ~IsActive(processes[th[t].key])
    <3>1. UNCHANGED repoVars
      BY <1>1, <2>2 DEF Lock, repoVars, history
    <3> QED BY <3>1, Unchanged DEF RepositoryStep
  <2> QED BY <2>1, <2>2
<1>2. CASE EnrichExpired(t)
  BY <1>2, EnrichUsesRepository DEF EnrichExpired
<1>3. CASE ClaimRun(t)
  <2> DEFINE k == th[t].key
  <2>1. k \in Keys /\ {t} \in SUBSET Readers /\ manager \in Instances
    BY <1>3, <1>k DEF ClaimRun
  <2>2. CASE /\ current' = [current EXCEPT ![k] = @ \cup {t}]
             /\ UNCHANGED <<processes, active, sessions, history, issued, intakeFence,
                            workGeneration>>
    BY <2>1, <2>2, RememberQuietly DEF RepositoryStep
  <2>3. ASSUME NEW id \in ClaimIds,
               ClaimFinalization(k, id, manager, Inspect(k, th[t].seen) # "unverifiable", {t})
        PROVE  RepositoryStep
    BY <2>1, <2>3 DEF RepositoryStep
  <2> QED BY <1>3, <2>2, <2>3 DEF ClaimRun, Fresh
<1>4. CASE Enrich(t)
  <2>1. CASE Enrichable(t)
    BY <1>4, <2>1, EnrichUsesRepository DEF Enrich
  <2>2. CASE ~Enrichable(t)
    BY <1>4, <2>2, Unchanged DEF Enrich, RepositoryStep
  <2> QED BY <2>1, <2>2
<1>5. CASE Commit(t)
  <2>1. CASE HoldsClaim(th[t].key, th[t].claim)
    <3>1. th[t].claim \in ClaimIds /\ th[t].verified \in BOOLEAN /\ th[t].key \in Keys
      BY <1>5, ThreadFields DEF Commit, ThreadOK
    <3>2. CommitFinalization(th[t].key, th[t].claim, th[t].verified)
      BY <1>5, <2>1 DEF Commit
    <3> QED BY <3>1, <3>2 DEF RepositoryStep
  <2>2. CASE ~HoldsClaim(th[t].key, th[t].claim)
    BY <1>5, <2>2, Unchanged DEF Commit, RepositoryStep
  <2> QED BY <2>1, <2>2
<1>6. CASE UNCHANGED repoVars
  BY <1>6, Unchanged DEF RepositoryStep
<1> QED BY <1>1, <1>2, <1>3, <1>4, <1>5, <1>6
    DEF FinalizeStep, ClaimRefused, ForceOwner, Observe

LEMMA StepUsesRepository ==
  ASSUME IInv, [ManagedNext]_vars
  PROVE  RepositoryStep
<1>1. ASSUME NEW t \in Threads, ThreadStep(t) PROVE RepositoryStep
  <2>1. CASE FinishClose(t)
    <3>1. CASE sessions[th[t].session] = NoSession
      BY <2>1, <3>1, Unchanged DEF FinishClose, RepositoryStep
    <3>2. CASE sessions[th[t].session] # NoSession
      <4>1. th[t].session \in Sessions
        BY <2>1, ThreadFields DEF FinishClose, ThreadOK
      <4> QED BY <2>1, <3>2, <4>1 DEF FinishClose, RepositoryStep
    <3> QED BY <3>1, <3>2
  <2>2. CASE UNCHANGED repoVars
    BY <2>2, Unchanged DEF RepositoryStep
  <2> QED BY <1>1, <2>1, <2>2, StartUsesRepository, FinalizeUsesRepository
          DEF ThreadStep, OpenGate, NextRun, SkipRun
<1>2. ASSUME NEW t \in Threads, NewCall(t) PROVE RepositoryStep
  <2>1. ASSUME NEW k \in Keys, NEW i \in Sessions \cup {None}, StartRun(t, k, i)
        PROVE  RepositoryStep
    <3>1. manager \in Instances
      BY <2>1 DEF StartRun, IInv, MInv, ManagerSound, ManagedTypeOK
    <3> QED BY <2>1, <3>1 DEF StartRun, RepositoryStep
  <2>2. ASSUME NEW i \in Sessions, CloseSession(t, i) PROVE RepositoryStep
    BY <2>2, Unchanged DEF CloseSession, RepositoryStep
  <2>3. ASSUME NEW k \in Keys, FinalizeRun(t, k) PROVE RepositoryStep
    BY <2>3, Unchanged DEF FinalizeRun, RepositoryStep
  <2> QED BY <1>2, <2>1, <2>2, <2>3 DEF NewCall
<1>3. ASSUME NEW k \in Keys, HostStep(k) \/ TargetStep(k) PROVE RepositoryStep
  <2>1. UNCHANGED repoVars
    BY <1>3 DEF HostStep, TargetStep, HostSpawns, HostServes, HostGivesUp, HostStops,
                HostFinishes, HostExits, HostDies, Fork, ProcessExits
  <2> QED BY <2>1, Unchanged DEF RepositoryStep
<1>4. ASSUME NEW i \in Sessions, gate, OpenSession(i, manager) PROVE RepositoryStep
  <2>1. manager \in Instances
    BY <1>4 DEF IInv, MInv, ManagerSound, ManagedTypeOK
  <2> QED BY <1>4, <2>1 DEF RepositoryStep
<1>5. CASE Crash
  BY <1>5 DEF Crash, RepositoryStep, Quiet
<1>6. ASSUME NEW t \in Threads, NEW m \in Instances, Boot(m, t) PROVE RepositoryStep
  BY <1>6, Unchanged DEF Boot, RepositoryStep
<1>7. CASE UNCHANGED vars
  BY <1>7, Unchanged DEF vars, RepositoryStep
<1> QED BY <1>1, <1>2, <1>3, <1>4, <1>5, <1>6, <1>7 DEF ManagedNext, RepositoryStep

--------------------------------------------------------------------------------
(* What a step does to one thread and to one run.                            *)

\* The run of k is what it was.
Same(k) ==
  /\ host'[k] = host[k] /\ alive'[k] = alive[k]
  /\ (k \in identified') = (k \in identified)
  /\ (k \in bound') = (k \in bound)
  /\ (k \in issued') = (k \in issued)
  /\ EvidenceOf(k)' = EvidenceOf(k)
  /\ (processes'[k] = NoRecord) = (processes[k] = NoRecord)
  /\ IsActive(processes[k])' = IsActive(processes[k])

\* What threads know of it stays true.
Grows(k) ==
  /\ k \in issued => k \in issued'
  /\ k \in bound => k \in bound'
  /\ k \in identified => k \in identified'
  /\ EvidenceOf(k) # "none" => EvidenceOf(k)' # "none"
  /\ EvidenceOf(k) = "full" => EvidenceOf(k)' = "full"
  /\ k \in issued /\ Spent(k) => Spent(k)'

\* No thread begins the start of k.
NotReserved(k) ==
  \A t \in Threads : th'[t].pc = "reserved" /\ th'[t].key = k =>
                       th[t].pc = "reserved" /\ th[t].key = k

LEMMA SameRun ==
  ASSUME IInv, NEW k \in Keys, Same(k), NotReserved(k), backend' = backend
  PROVE  /\ Grows(k)
         /\ RunOK(k)'
         /\ \A t \in Threads : th'[t] = th[t] /\ th[t].key = k => StartOK(t)'
<1>1. Spent(k) => Spent(k)'
  BY DEF Spent, HostGone, HostUp, InGroup, Same, NotReserved
<1>2. Grows(k)
  BY <1>1 DEF Grows, Same
<1>3. RunOK(k)'
  BY <1>1 DEF RunOK, Same, IInv, MInv
<1>4. \A t \in Threads : th'[t] = th[t] /\ th[t].key = k => StartOK(t)'
  BY DEF StartOK, Same, IInv, MInv
<1> QED BY <1>2, <1>3, <1>4

LEMMA OtherThread ==
  ASSUME IInv, NEW t \in Threads, th'[t] = th[t], manager # None => manager' # None,
         th[t].key \in Keys => Grows(th[t].key)
  PROVE  ThreadOK(t)'
<1> DEFINE k == th[t].key
<1>1. ThreadOK(t) /\ th'[t].key = k
  BY DEF IInv, MInv
<1>2. CASE th[t].pc \in {"idle", "next"}
  <2>1. /\ ~Starter(t) /\ ~th[t].verified
        /\ th[t].pc \notin StartPcs \cup FinalizePcs \cup {"running"}
    BY <1>1, <1>2 DEF ThreadOK, Starter, StartPcs, FinalizePcs
  <2>2. /\ th[t].seen # "none" => k \in Keys /\ EvidenceOf(k)' # "none"
        /\ th[t].seen = "full" => EvidenceOf(k)' = "full"
    BY <1>1 DEF ThreadOK, Grows
  <2> QED BY <1>1, <1>2, <2>1, <2>2 DEF ThreadOK, Starter, StartPcs, FinalizePcs
<1>3. CASE th[t].pc \notin {"idle", "next"}
  <2>1. k \in Keys /\ Grows(k)
    BY <1>1, <1>3 DEF ThreadOK
  <2>2. /\ th[t].seen # "none" => EvidenceOf(k)' # "none"
        /\ th[t].seen = "full" => EvidenceOf(k)' = "full"
        /\ th[t].verified => th[t].pc \in {"late", "commit"} /\ Spent(k)'
    BY <1>1, <2>1 DEF ThreadOK, Grows
  <2> HIDE DEF k
  <2> QED BY <1>1, <1>3, <2>1, <2>2 DEF ThreadOK, Starter, Grows, k
<1> QED BY <1>2, <1>3

\* A step of one thread that concerns one run.
LEMMA OneRunMoves ==
  ASSUME IInv, ManagedTypeOK', ManagerSound', backend' = backend,
         manager # None => manager' # None,
         NEW t \in Threads, NEW k \in Keys,
         \A u \in Threads \ {t} : th'[u] = th[u],
         \A j \in Keys \ {k} : Same(j),
         th'[t].pc = "reserved" => th'[t].key = k,
         Grows(k), RunOK(k)', ThreadOK(t)', StartOK(t)',
         \A u \in Threads : u # t /\ th[u].key = k => StartOK(u)',
         Starter(t)' => \A u \in Threads \ {t} : ~(Starter(u) /\ th[u].key = th'[t].key)
  PROVE  MInv'
<1>1. \A j \in Keys \ {k} : NotReserved(j)
  BY DEF NotReserved
<1>2. \A j \in Keys \ {k} :
        /\ Grows(j) /\ RunOK(j)'
        /\ \A u \in Threads : th'[u] = th[u] /\ th[u].key = j => StartOK(u)'
  BY <1>1, SameRun
<1>3. \A u \in Threads : ThreadOK(u)'
  BY <1>2, OtherThread
<1>4. \A u \in Threads : StartOK(u)'
  <2>1. ASSUME NEW u \in Threads, u # t, th[u].key \notin Keys PROVE StartOK(u)'
    BY <2>1 DEF StartOK
  <2> QED BY <1>2, <2>1
<1>5. OneStarter'
  BY DEF OneStarter, Starter, IInv, MInv
<1> QED BY <1>2, <1>3, <1>4, <1>5 DEF MInv

\* A step that changes a thread and no run.
LEMMA NoRunMoves ==
  ASSUME IInv, ManagedTypeOK', ManagerSound', backend' = backend,
         manager # None => manager' # None,
         NEW t \in Threads,
         \A u \in Threads \ {t} : th'[u] = th[u],
         \A j \in Keys : Same(j),
         th'[t].pc # "reserved", ThreadOK(t)', StartOK(t)',
         Starter(t)' => Starter(t) /\ th'[t].key = th[t].key
  PROVE  MInv'
<1>1. \A j \in Keys : NotReserved(j)
  BY DEF NotReserved
<1>2. \A j \in Keys :
        /\ Grows(j) /\ RunOK(j)'
        /\ \A u \in Threads : th'[u] = th[u] /\ th[u].key = j => StartOK(u)'
  BY <1>1, SameRun
<1>3. \A u \in Threads : ThreadOK(u)'
  BY <1>2, OtherThread
<1>4. \A u \in Threads : StartOK(u)'
  <2>1. ASSUME NEW u \in Threads, u # t, th[u].key \notin Keys PROVE StartOK(u)'
    BY <2>1 DEF StartOK
  <2> QED BY <1>2, <2>1
<1>5. OneStarter'
  BY DEF OneStarter, Starter, IInv, MInv
<1> QED BY <1>2, <1>3, <1>4, <1>5 DEF MInv

\* A step of the processes of one run.
LEMMA ProcessesMove ==
  ASSUME IInv, ManagedTypeOK', UNCHANGED <<repoVars, memory, th>>, NEW k \in Keys,
         \A j \in Keys \ {k} : Same(j),
         Grows(k), RunOK(k)',
         \A u \in Threads : th[u].key = k => StartOK(u)'
  PROVE  MInv'
<1>1. \A j \in Keys : NotReserved(j)
  BY DEF NotReserved
<1>2. \A j \in Keys \ {k} :
        /\ Grows(j) /\ RunOK(j)'
        /\ \A u \in Threads : th'[u] = th[u] /\ th[u].key = j => StartOK(u)'
  BY <1>1, SameRun DEF memory
<1>3. \A u \in Threads : ThreadOK(u)'
  BY <1>2, OtherThread DEF memory
<1>4. \A u \in Threads : StartOK(u)'
  <2>1. ASSUME NEW u \in Threads, th[u].key \notin Keys PROVE StartOK(u)'
    BY <2>1 DEF StartOK
  <2> QED BY <1>2, <2>1
<1>5. OneStarter' /\ ManagerSound'
  BY DEF OneStarter, Starter, ManagerSound, memory, IInv, MInv
<1> QED BY <1>2, <1>3, <1>4, <1>5 DEF MInv

--------------------------------------------------------------------------------
(* The steps that change a thread and no run.                                *)

LEMMA RunsKept ==
  ASSUME UNCHANGED <<host, alive, identified, bound, issued, processes>>
  PROVE  \A j \in Keys : Same(j)
BY DEF Same, EvidenceOf, IsActive

\* A thread that returns from a run, to the next one of its call or for good.
LEMMA Returned ==
  ASSUME IInv, NEW t \in Threads, th' = Return(t), th[t].pc # "idle", manager' = manager
  PROVE  /\ th' \in [Threads -> Thread]
         /\ \A u \in Threads \ {t} : th'[u] = th[u]
         /\ th'[t].pc # "reserved" /\ ThreadOK(t)' /\ StartOK(t)' /\ ~Starter(t)'
<1>0. th \in [Threads -> Thread] /\ th[t] \in Thread
  BY DEF IInv, MInv, ManagedTypeOK
<1>1. CASE th[t].call = "run"
  <2>1. th' = [th EXCEPT ![t] = Idle]
    BY <1>1 DEF Return
  <2>2. Idle \in Thread
    BY DEF Idle, Calls, Thread, Modes, Evidence
  <2>3. /\ th'[t].pc = "idle" /\ th'[t].mode = "live" /\ th'[t].seen = "none"
        /\ th'[t].verified = FALSE /\ th'[t].call = "run"
    BY <1>0, <2>1 DEF Idle, Calls
  <2> QED BY <1>0, <2>1, <2>2, <2>3
          DEF ThreadOK, StartOK, Starter, StartPcs, FinalizePcs, Early
<1>2. CASE th[t].call # "run"
  <2>1. th' = [th EXCEPT ![t] = [th[t] EXCEPT !.pc = "next", !.claim = None,
                                              !.seen = "none", !.verified = FALSE]]
    BY <1>2 DEF Return
  <2>2. th' \in [Threads -> Thread]
    <3>1. "none" \in Evidence /\ None \in ClaimIds \cup {None}
      BY DEF Evidence
    <3>2. [th[t] EXCEPT !.pc = "next", !.claim = None, !.seen = "none", !.verified = FALSE]
            \in Thread
      BY <1>0, <3>1 DEF Thread
    <3> QED BY <1>0, <2>1, <3>2
  <2>3. /\ th'[t].pc = "next" /\ th'[t].seen = "none" /\ th'[t].verified = FALSE
        /\ th'[t].mode = th[t].mode /\ th'[t].call = th[t].call
        /\ th'[t].session = th[t].session
        /\ \A u \in Threads \ {t} : th'[u] = th[u]
    BY <1>0, <2>1 DEF Thread
  <2>4. ThreadOK(t) /\ ~Starter(t) /\ manager # None
    BY <1>2 DEF ThreadOK, IInv, MInv
  <2>5. ~Starter(t)' /\ StartOK(t)'
    BY <2>3, <2>4 DEF StartOK, Starter, Early
  <2>6. ThreadOK(t)'
    BY <2>3, <2>4, <2>5 DEF ThreadOK, Starter, StartPcs, FinalizePcs
  <2> QED BY <2>2, <2>3, <2>5, <2>6
<1> QED BY <1>1, <1>2

LEMMA ReturnKeepsMInv ==
  ASSUME IInv, TypeOK', NEW t \in Threads, th' = Return(t), th[t].pc # "idle",
         UNCHANGED <<backend, manager, past, gate, bound, host, alive, identified, released>>,
         \A j \in Keys : Same(j),
         runs' \subseteq runs
  PROVE  MInv'
<1>1. ManagedTypeOK' /\ ManagerSound'
  BY Returned DEF ManagedTypeOK, ManagerSound, IInv, MInv
<1> QED BY <1>1, Returned, NoRunMoves

\* A thread at the beginning of a call.
LEMMA Called ==
  ASSUME IInv, NEW t \in Threads, NEW n \in Thread, th' = [th EXCEPT ![t] = n],
         n.pc = "next" \/ (n.pc = "lock" /\ n.key \in Keys \cap issued'),
         n.mode = "live" => n.pc = "next" \/ n.key \in bound',
         n.mode \in {"live", "persisted"}, n.seen = "none", n.verified = FALSE,
         n.call = "close" => n.session \in Sessions,
         manager' # None
  PROVE  /\ th' \in [Threads -> Thread]
         /\ \A u \in Threads \ {t} : th'[u] = th[u]
         /\ th'[t].pc # "reserved" /\ ThreadOK(t)' /\ StartOK(t)' /\ ~Starter(t)'
<1>0. th \in [Threads -> Thread] /\ th'[t] = n
  BY DEF IInv, MInv, ManagedTypeOK
<1>1. ThreadOK(t)'
  BY <1>0 DEF ThreadOK, Starter, StartPcs, FinalizePcs
<1>2. StartOK(t)'
  BY <1>0 DEF StartOK, Early
<1> QED BY <1>0, <1>1, <1>2 DEF Starter

LEMMA FinalizeRunKeepsMInv ==
  ASSUME IInv, TypeOK', NEW t \in Threads, NEW k \in Keys, FinalizeRun(t, k)
  PROVE  MInv'
<1> DEFINE n == Calls("lock", k, Mode(k), "run", None, {})
<1>1. n \in Thread
  BY DEF Calls, Mode, Thread, Modes, Evidence, FinalizePcs
<1>2. /\ n.pc = "lock" /\ n.key = k /\ n.mode = Mode(k) /\ n.seen = "none"
      /\ n.verified = FALSE /\ n.call = "run"
  BY DEF Calls
<1>3. k \in issued
  <2>1. CASE IsActive(processes[k])
    BY <2>1, Absent DEF IInv, SInv, TInv, IdentitiesIssued
  <2>2. CASE k \in runs
    BY <2>2 DEF IInv, MInv, ManagerSound, RunOK
  <2> QED BY <2>1, <2>2 DEF FinalizeRun
<1>4. th' = [th EXCEPT ![t] = n] /\ manager # None /\ UNCHANGED <<repoVars, memory, world>>
  BY DEF FinalizeRun
<1> HIDE DEF n
<1>5. Mode(k) \in {"live", "persisted"} /\ (Mode(k) = "live" => k \in bound)
  BY DEF Mode, IInv, MInv, ManagerSound
<1>6. UNCHANGED <<host, alive, identified, bound, issued, processes, manager, gate, runs, backend>>
  BY <1>4 DEF repoVars, memory, world
<1>7. /\ th' \in [Threads -> Thread]
      /\ \A u \in Threads \ {t} : th'[u] = th[u]
      /\ th'[t].pc # "reserved" /\ ThreadOK(t)' /\ StartOK(t)' /\ ~Starter(t)'
  BY <1>1, <1>2, <1>3, <1>4, <1>5, <1>6, Called
<1>8. ManagedTypeOK' /\ ManagerSound'
  BY <1>4, <1>7 DEF ManagedTypeOK, ManagerSound, IInv, MInv, memory, world
<1> QED BY <1>6, <1>7, <1>8, RunsKept, NoRunMoves

LEMMA CloseSessionKeepsMInv ==
  ASSUME IInv, TypeOK', NEW t \in Threads, NEW i \in Sessions, CloseSession(t, i)
  PROVE  MInv'
<1> DEFINE n == Calls("next", None, "live", "close", i, sessions[i].runKeys)
<1>1. n \in Thread
  <2>1. sessions[i].runKeys \in SUBSET Keys
    BY Absent DEF IInv, SInv, TInv, TypeOK, Session
  <2> QED BY <2>1 DEF Calls, Thread, Modes, Evidence
<1>2. /\ n.pc = "next" /\ n.mode = "live" /\ n.seen = "none" /\ n.verified = FALSE
      /\ n.call = "close" /\ n.session = i
  BY DEF Calls
<1>4. th' = [th EXCEPT ![t] = n] /\ manager # None /\ UNCHANGED <<memory, world>>
  BY DEF CloseSession
<1>5. UNCHANGED <<issued, processes>>
  BY DEF CloseSession, CloseRequest, ExpireSession, SetClosing, repoVars
<1> HIDE DEF n
<1>6. UNCHANGED <<host, alive, identified, bound, issued, processes, manager, gate, runs, backend>>
  BY <1>4, <1>5 DEF memory, world
<1>7. /\ th' \in [Threads -> Thread]
      /\ \A u \in Threads \ {t} : th'[u] = th[u]
      /\ th'[t].pc # "reserved" /\ ThreadOK(t)' /\ StartOK(t)' /\ ~Starter(t)'
  BY <1>1, <1>2, <1>4, <1>6, Called
<1>8. ManagedTypeOK' /\ ManagerSound'
  BY <1>4, <1>7 DEF ManagedTypeOK, ManagerSound, IInv, MInv, memory, world
<1> QED BY <1>6, <1>7, <1>8, RunsKept, NoRunMoves

LEMMA BootKeepsMInv ==
  ASSUME IInv, TypeOK', NEW t \in Threads, NEW m \in Instances, Boot(m, t)
  PROVE  MInv'
<1> DEFINE todo == {k \in ActiveKeys : processes[k].manager # m}
           n == Calls("next", None, "persisted", "boot", None, todo)
<1>1. n \in Thread
  BY DEF Calls, Thread, Modes, Evidence, ActiveKeys
<1>2. /\ n.pc = "next" /\ n.mode = "persisted" /\ n.seen = "none" /\ n.verified = FALSE
      /\ n.call = "boot"
  BY DEF Calls
<1>3. m # None
  BY InstanceAssumption
<1>4. /\ th' = [th EXCEPT ![t] = n] /\ manager' = m /\ manager = None
      /\ past' = past \cup {m}
      /\ UNCHANGED <<repoVars, backend, gate, runs, bound, world>>
  BY DEF Boot
<1> HIDE DEF n
<1>6. UNCHANGED <<host, alive, identified, bound, issued, processes, gate, runs, backend>>
  BY <1>4 DEF repoVars, world
<1>7. /\ th' \in [Threads -> Thread]
      /\ \A u \in Threads \ {t} : th'[u] = th[u]
      /\ th'[t].pc # "reserved" /\ ThreadOK(t)' /\ StartOK(t)' /\ ~Starter(t)'
  BY <1>1, <1>2, <1>3, <1>4, Called
<1>8. ManagedTypeOK' /\ ManagerSound'
  BY <1>3, <1>4, <1>7 DEF ManagedTypeOK, ManagerSound, IInv, MInv, world
<1> QED BY <1>3, <1>4, <1>6, <1>7, <1>8, RunsKept, NoRunMoves

LEMMA NextRunKeepsMInv ==
  ASSUME IInv, TypeOK', NEW t \in Threads, NEW k \in Keys, NextRun(t, k)
  PROVE  MInv'
<1> DEFINE pc == IF IsActive(processes[k]) THEN "lock" ELSE "next"
           n == [th[t] EXCEPT !.todo = @ \ {k}, !.key = k, !.mode = Mode(k), !.pc = pc]
<1>0. th \in [Threads -> Thread] /\ th[t] \in Thread /\ th[t].pc = "next"
  BY DEF NextRun, IInv, MInv, ManagedTypeOK
<1>1. th' = [th EXCEPT ![t] = n] /\ UNCHANGED <<repoVars, memory, world>>
  BY <1>0 DEF NextRun
<1>2. Mode(k) \in {"live", "persisted"} /\ (Mode(k) = "live" => k \in bound)
  BY DEF Mode, IInv, MInv, ManagerSound
<1>3. n \in Thread
  <2>1. pc \in StartPcs \cup FinalizePcs \cup {"running", "next", "idle"} /\ Mode(k) \in Modes
    BY <1>2 DEF FinalizePcs, Modes
  <2> HIDE DEF pc
  <2> QED BY <1>0, <2>1 DEF Thread
<1>4. /\ n.pc = pc /\ n.key = k /\ n.mode = Mode(k) /\ n.seen = th[t].seen
      /\ n.verified = th[t].verified /\ n.call = th[t].call /\ n.session = th[t].session
  BY <1>0 DEF Thread
<1>5. manager # None /\ (th[t].call = "close" => th[t].session \in Sessions) /\ ~th[t].verified
  BY <1>0 DEF ThreadOK, IInv, MInv
<1>6. pc = "lock" => k \in issued
  BY Absent DEF IInv, SInv, TInv, IdentitiesIssued
<1>7. th[t].seen = "none"
  BY <1>0 DEF ThreadOK, IInv, MInv
<1>8. UNCHANGED <<host, alive, identified, bound, issued, processes, manager, gate, runs, backend>>
  BY <1>1 DEF repoVars, memory, world
<1>9. pc \in {"lock", "next"}
  OBVIOUS
<1> HIDE DEF n, pc
<1>10. /\ th' \in [Threads -> Thread]
       /\ \A u \in Threads \ {t} : th'[u] = th[u]
       /\ th'[t].pc # "reserved" /\ ThreadOK(t)' /\ StartOK(t)' /\ ~Starter(t)'
  <2>1. /\ n.pc = "next" \/ (n.pc = "lock" /\ n.key \in Keys \cap issued')
        /\ n.mode = "live" => n.pc = "next" \/ n.key \in bound'
        /\ n.mode \in {"live", "persisted"} /\ n.seen = "none" /\ n.verified = FALSE
        /\ n.call = "close" => n.session \in Sessions
    BY <1>0, <1>2, <1>4, <1>5, <1>6, <1>7, <1>8, <1>9 DEF Thread
  <2>2. th' = [th EXCEPT ![t] = n] /\ n \in Thread /\ manager' # None
    BY <1>1, <1>3, <1>5, <1>8
  <2> QED BY <2>1, <2>2, Called
<1>11. ManagedTypeOK' /\ ManagerSound'
  BY <1>1, <1>10 DEF ManagedTypeOK, ManagerSound, IInv, MInv, memory, world
<1> QED BY <1>8, <1>10, <1>11, RunsKept, NoRunMoves

LEMMA SkipRunKeepsMInv ==
  ASSUME IInv, TypeOK', NEW t \in Threads, NEW k \in Keys, SkipRun(t, k)
  PROVE  MInv'
<1> DEFINE n == [th[t] EXCEPT !.todo = @ \ {k}]
<1>0. th \in [Threads -> Thread] /\ th[t] \in Thread /\ th[t].pc = "next"
  BY DEF SkipRun, IInv, MInv, ManagedTypeOK
<1>1. th' = [th EXCEPT ![t] = n] /\ UNCHANGED <<repoVars, memory, world>>
  BY <1>0 DEF SkipRun
<1>2. n \in Thread
  BY <1>0 DEF Thread
<1>3. \A f \in {"pc", "key", "mode", "seen", "verified", "call", "session", "claim"} :
        n[f] = th[t][f]
  BY <1>0 DEF Thread
<1>4. /\ th'[t].pc = "next" /\ th'[t].key = th[t].key /\ th'[t].mode = th[t].mode
      /\ th'[t].seen = th[t].seen /\ th'[t].verified = th[t].verified
      /\ th'[t].call = th[t].call /\ th'[t].session = th[t].session
  BY <1>0, <1>1, <1>2, <1>3
<1>5. ThreadOK(t) /\ StartOK(t)
  BY DEF IInv, MInv
<1>8. UNCHANGED <<host, alive, identified, bound, issued, processes, manager, gate, runs, backend>>
  BY <1>1 DEF repoVars, memory, world
<1>9. ThreadOK(t)' /\ StartOK(t)' /\ ~Starter(t)'
  <2>1. ~th[t].verified /\ ~Starter(t)
    BY <1>0, <1>5 DEF ThreadOK, StartPcs
  <2> QED BY <1>0, <1>4, <1>5, <1>8, <2>1
          DEF ThreadOK, StartOK, Starter, StartPcs, FinalizePcs, Early, EvidenceOf
<1>10. th' \in [Threads -> Thread] /\ \A u \in Threads \ {t} : th'[u] = th[u]
  BY <1>0, <1>1, <1>2
<1>11. ManagedTypeOK' /\ ManagerSound'
  BY <1>1, <1>10 DEF ManagedTypeOK, ManagerSound, IInv, MInv, memory, world
<1> QED BY <1>4, <1>8, <1>9, <1>10, <1>11, RunsKept, NoRunMoves

\* A thread whose call is over.
LEMMA Idles ==
  ASSUME IInv, TypeOK', NEW t \in Threads, th' = [th EXCEPT ![t] = Idle],
         UNCHANGED <<backend, past, manager, bound, host, alive, identified, released>>,
         \A j \in Keys : Same(j), gate' \in BOOLEAN, ManagerSound'
  PROVE  MInv'
<1>0. th \in [Threads -> Thread]
  BY DEF IInv, MInv, ManagedTypeOK
<1>1. Idle \in Thread
  BY DEF Idle, Calls, Thread, Modes, Evidence
<1>2. /\ th'[t].pc = "idle" /\ th'[t].mode = "live" /\ th'[t].seen = "none"
      /\ th'[t].verified = FALSE /\ th'[t].call = "run"
  BY <1>0 DEF Idle, Calls
<1>3. ThreadOK(t)' /\ StartOK(t)' /\ ~Starter(t)'
  BY <1>2 DEF ThreadOK, StartOK, Starter, StartPcs, FinalizePcs, Early
<1>4. ManagedTypeOK'
  <2>1. runs' \in SUBSET Keys
    BY DEF ManagerSound, IInv, MInv, ManagedTypeOK
  <2> QED BY <1>0, <1>1, <2>1 DEF ManagedTypeOK, IInv, MInv
<1> QED BY <1>0, <1>2, <1>3, <1>4, NoRunMoves

LEMMA FinishCloseKeepsMInv ==
  ASSUME IInv, TypeOK', NEW t \in Threads, FinishClose(t)
  PROVE  MInv'
<1>1. UNCHANGED <<memory, world, processes, issued>> /\ th' = [th EXCEPT ![t] = Idle]
  BY DEF FinishClose, FinishSession, Compact, SetClosing, repoVars
<1>2. UNCHANGED <<host, alive, identified, bound, issued, processes, manager, gate, runs, backend,
                  past, released>>
  BY <1>1 DEF memory, world
<1>3. gate' \in BOOLEAN /\ ManagerSound'
  BY <1>2 DEF ManagerSound, IInv, MInv, ManagedTypeOK
<1> QED BY <1>1, <1>2, <1>3, RunsKept, Idles

LEMMA OpenGateKeepsMInv ==
  ASSUME IInv, TypeOK', NEW t \in Threads, OpenGate(t)
  PROVE  MInv'
<1>1. /\ UNCHANGED <<host, alive, identified, bound, issued, processes, manager, runs, backend,
                     past, released>>
      /\ gate' = TRUE /\ th' = [th EXCEPT ![t] = Idle]
  BY DEF OpenGate, repoVars, world
<1>2. manager # None
  BY ThreadFields DEF OpenGate, ThreadOK
<1>3. gate' \in BOOLEAN /\ ManagerSound'
  BY <1>1, <1>2 DEF ManagerSound, IInv, MInv
<1> QED BY <1>1, <1>3, RunsKept, Idles

LEMMA RegisterKeepsMInv ==
  ASSUME IInv, TypeOK', NEW t \in Threads, Register(t)
  PROVE  MInv'
<1>1. /\ UNCHANGED <<host, alive, identified, bound, issued, processes, manager, gate, backend,
                     past, released>>
      /\ runs' = runs \cup {th[t].key} /\ th' = [th EXCEPT ![t] = Idle]
  BY DEF Register, repoVars, world
<1>2. th[t].key \in bound
  BY DEF Register, ThreadOK, IInv, MInv
<1>3. gate' \in BOOLEAN /\ ManagerSound'
  BY <1>1, <1>2 DEF ManagerSound, IInv, MInv, ManagedTypeOK
<1> QED BY <1>1, <1>3, RunsKept, Idles

LEMMA ClaimRefusedKeepsMInv ==
  ASSUME IInv, TypeOK', NEW t \in Threads, ClaimRefused(t)
  PROVE  MInv'
<1>1. /\ UNCHANGED <<host, alive, identified, bound, issued, processes, manager, gate, runs,
                     backend, past, released>>
      /\ th' = Return(t) /\ th[t].pc # "idle"
  BY DEF ClaimRefused, repoVars, memory, world
<1> QED BY <1>1, RunsKept, ReturnKeepsMInv

--------------------------------------------------------------------------------
(* The steps of a finalizer.                                                 *)

\* A finalizer goes on with the run it has.
LEMMA Finalizing ==
  ASSUME IInv, NEW t \in Threads, th' \in [Threads -> Thread],
         th[t].pc \in FinalizePcs, th'[t].pc \in FinalizePcs, manager' = manager,
         th'[t].key = th[t].key, th'[t].mode = th[t].mode, th'[t].call = th[t].call,
         th'[t].session = th[t].session,
         Grows(th[t].key),
         th'[t].pc = "late" => Starter(t),
         Starter(t) => th'[t].pc \in {"clean", "killed", "late", "commit"},
         \/ th'[t].pc \notin {"commit", "enrich", "clean", "killed"}
         \/ th'[t].pc # "commit" /\ Starter(t)
         \/ th'[t].claim \in ClaimIds,
         th'[t].seen \in {th[t].seen, EvidenceOf(th[t].key)'},
         th'[t].verified => th'[t].pc \in {"late", "commit"} /\ Spent(th[t].key)'
  PROVE  ThreadOK(t)' /\ Starter(t)' = Starter(t) /\ th'[t].pc # "reserved"
<1> DEFINE k == th[t].key
<1>1. /\ th[t].pc \notin {"idle", "next"} /\ th'[t].pc \notin {"idle", "next"}
      /\ th'[t].pc \notin StartPcs \cup {"running"}
      /\ th'[t].pc \notin {"bound", "told", "full", "running", "reserved"}
  BY DEF FinalizePcs, StartPcs
<1>2. ThreadOK(t) /\ k \in Keys /\ k \in issued
  BY <1>1, ThreadFields
<1>3. Starter(t)' = Starter(t)
  BY DEF Starter
<1>4. /\ th'[t].seen # "none" => EvidenceOf(k)' # "none"
      /\ th'[t].seen = "full" => EvidenceOf(k)' = "full"
  BY <1>2 DEF ThreadOK, Grows
<1>5. manager # None /\ k \in issued' /\ (th[t].mode = "live" => k \in bound')
  BY <1>1, <1>2 DEF ThreadOK, Grows
<1>6. /\ Starter(t) => th[t].call = "run"
      /\ th[t].call = "close" => th[t].session \in Sessions
  BY <1>2 DEF ThreadOK
<1> HIDE DEF k
<1>7. th'[t].verified => th'[t].pc \in {"late", "commit"} /\ Spent(k)'
  BY DEF k
<1>8. ThreadOK(t)'
  BY <1>1, <1>2, <1>3, <1>4, <1>5, <1>6, <1>7 DEF ThreadOK, k
<1> QED BY <1>1, <1>3, <1>8

\* The host and the target are as far as before.
LEMMA StartKept ==
  ASSUME IInv, NEW t \in Threads, NEW u \in Threads, th'[u].key = th[u].key,
         th'[u].mode = th[u].mode, th'[u].pc = th[u].pc \/ th'[u].pc \in FinalizePcs,
         th[u].key \in Keys => Same(th[u].key)
  PROVE  StartOK(u)'
<1>1. th'[u].pc \in FinalizePcs => th'[u].pc \notin Early \cup {"evidenced", "reserved"}
  BY DEF FinalizePcs, Early
<1>2. StartOK(u)
  BY DEF IInv, MInv
<1> DEFINE k == th[u].key
<1>3. CASE k \in Keys
  <2>1. Same(k)
    BY <1>3
  <2> HIDE DEF k
  <2> QED BY <1>1, <1>2, <2>1 DEF StartOK, Same, k
<1>4. CASE k \notin Keys
  BY <1>4 DEF StartOK
<1> QED BY <1>3, <1>4

\* A finalizer changes no run.
LEMMA FinalizerMoves ==
  ASSUME IInv, TypeOK', NEW t \in Threads, th' \in [Threads -> Thread],
         th[t].pc \in FinalizePcs, th'[t].pc \in FinalizePcs,
         UNCHANGED <<backend, manager, past, gate, runs, bound, host, alive, identified>>,
         released' \in SUBSET Keys,
         \A u \in Threads \ {t} : th'[u] = th[u],
         \A j \in Keys : Same(j),
         th'[t].key = th[t].key, th'[t].mode = th[t].mode, th'[t].call = th[t].call,
         th'[t].session = th[t].session,
         th'[t].pc = "late" => Starter(t),
         Starter(t) => th'[t].pc \in {"clean", "killed", "late", "commit"},
         \/ th'[t].pc \notin {"commit", "enrich", "clean", "killed"}
         \/ th'[t].pc # "commit" /\ Starter(t)
         \/ th'[t].claim \in ClaimIds,
         th'[t].seen \in {th[t].seen, EvidenceOf(th[t].key)'},
         th'[t].verified => th'[t].pc \in {"late", "commit"} /\ Spent(th[t].key)
  PROVE  MInv'
<1>1. \A j \in Keys : NotReserved(j)
  BY DEF NotReserved, FinalizePcs
<1>2. \A j \in Keys : Grows(j)
  BY <1>1, SameRun
<1>3. th[t].key \in Keys
  BY ThreadFields DEF FinalizePcs
<1>4. Spent(th[t].key) => Spent(th[t].key)'
  BY <1>2, <1>3, ThreadFields DEF Grows, FinalizePcs
<1>5. ThreadOK(t)' /\ Starter(t)' = Starter(t) /\ th'[t].pc # "reserved"
  BY <1>2, <1>3, <1>4, Finalizing
<1>6. StartOK(t)'
  BY <1>3, StartKept
<1>7. ManagedTypeOK' /\ ManagerSound'
  BY DEF ManagedTypeOK, ManagerSound, IInv, MInv
<1> QED BY <1>5, <1>6, <1>7, NoRunMoves

LEMMA LockKeepsMInv ==
  ASSUME IInv, TypeOK', NEW t \in Threads, Lock(t)
  PROVE  MInv'
<1> DEFINE k == th[t].key
<1>0. /\ th \in [Threads -> Thread] /\ th[t] \in Thread /\ th[t].pc = "lock"
      /\ processes \in [Keys -> Record \cup {NoRecord}]
  BY DEF Lock, IInv, MInv, ManagedTypeOK, SInv, TInv, TypeOK
<1>1. UNCHANGED <<processes, issued, backend, manager, past, gate, bound, host, alive,
                  identified, released>>
  BY DEF Lock, world
<1>2. CASE IsActive(processes[k])
  <2>1. th' = [th EXCEPT ![t] = [th[t] EXCEPT !.pc = "claim", !.seen = processes[k].evidence]]
        /\ runs' = runs
    BY <1>0, <1>2 DEF Lock
  <2>2. k \in Keys /\ ~Starter(t) /\ ~th[t].verified
    BY <1>0, ThreadFields DEF ThreadOK, StartPcs
  <2>3. processes[k].evidence \in Evidence /\ EvidenceOf(k) = processes[k].evidence
    BY <1>0, <1>2, <2>2, Absent, RecordFields DEF EvidenceOf
  <2>4. [th[t] EXCEPT !.pc = "claim", !.seen = processes[k].evidence] \in Thread
    BY <1>0, <2>3 DEF Thread, FinalizePcs
  <2>5. /\ th'[t].pc = "claim" /\ th'[t].seen = EvidenceOf(k) /\ th'[t].key = k
        /\ th'[t].mode = th[t].mode /\ th'[t].call = th[t].call
        /\ th'[t].session = th[t].session /\ th'[t].verified = th[t].verified
    BY <1>0, <2>1, <2>3 DEF Thread
  <2>6. th' \in [Threads -> Thread] /\ \A u \in Threads \ {t} : th'[u] = th[u]
    BY <1>0, <2>1, <2>4
  <2>7. EvidenceOf(k)' = EvidenceOf(k)
    BY <1>1, <2>5 DEF EvidenceOf
  <2>8. released' \in SUBSET Keys /\ \A j \in Keys : Same(j)
    BY <1>1, RunsKept DEF IInv, MInv, ManagedTypeOK
  <2> HIDE DEF k
  <2>9. th'[t].seen \in {th[t].seen, EvidenceOf(th[t].key)'}
    BY <2>5, <2>7 DEF k
  <2>10. th[t].pc \in FinalizePcs /\ th'[t].pc \in FinalizePcs
    BY <1>0, <2>5 DEF FinalizePcs
  <2> QED BY <1>1, <2>1, <2>2, <2>5, <2>6, <2>8, <2>9, <2>10, FinalizerMoves DEF k
<1>3. CASE ~IsActive(processes[k])
  <2>1. th' = Return(t) /\ runs' \subseteq runs /\ th[t].pc # "idle"
    BY <1>0, <1>3 DEF Lock
  <2> QED BY <1>1, <2>1, RunsKept, ReturnKeepsMInv
<1> QED BY <1>2, <1>3

\* An update leaves an active run, with the evidence it was given.
LEMMA UpdateRun ==
  ASSUME SInv, NEW k \in Keys, NEW status \in ActiveStates, NEW evidence \in Evidence,
         NEW claim \in Claim \cup {NoClaim}, NEW remembering \in SUBSET Readers,
         UpdateActive(k, status, evidence, claim, remembering)
  PROVE  /\ IsActive(processes[k]) /\ IsActive(processes'[k])
         /\ processes[k] # NoRecord /\ processes'[k] # NoRecord
         /\ EvidenceOf(k)' = evidence
         /\ \A j \in Keys \ {k} : processes'[j] = processes[j]
         /\ issued' = issued
<1>1. /\ IsActive(processes[k]) /\ IsActive(processes'[k])
      /\ \A j \in Keys : j # k => processes'[j] = processes[j]
  BY UpdateNeedsActive
<1>2. processes[k] # NoRecord /\ processes'[k] # NoRecord
  BY <1>1, Absent
<1>3. processes[k] \in Record /\ processes \in [Keys -> Record \cup {NoRecord}]
  BY <1>2 DEF SInv, TInv, TypeOK
<1>4. processes'[k] = [processes[k] EXCEPT !.status = status, !.evidence = evidence,
                                           !.claim = claim]
  BY <1>3 DEF UpdateActive
<1>5. processes'[k].evidence = evidence
  BY <1>3, <1>4 DEF Record
<1>6. EvidenceOf(k)' = evidence
  BY <1>2, <1>5 DEF EvidenceOf
<1> QED BY <1>1, <1>2, <1>6 DEF UpdateActive

\* ... so that an update that keeps the evidence changes no run.
LEMMA UpdateKeepsRuns ==
  ASSUME IInv, NEW k \in Keys, NEW status \in ActiveStates,
         NEW claim \in Claim \cup {NoClaim}, NEW remembering \in SUBSET Readers,
         UpdateActive(k, status, processes[k].evidence, claim, remembering),
         UNCHANGED <<host, alive, identified, bound>>
  PROVE  \A j \in Keys : Same(j)
<1>1. processes[k] # NoRecord /\ processes[k] \in Record \cup {NoRecord}
  BY DEF UpdateActive, IInv, SInv, TInv, TypeOK
<1>2. processes[k].evidence \in Evidence /\ EvidenceOf(k) = processes[k].evidence
  BY <1>1, RecordFields DEF EvidenceOf
<1>3. /\ IsActive(processes[k]) /\ IsActive(processes'[k])
      /\ processes[k] # NoRecord /\ processes'[k] # NoRecord
      /\ EvidenceOf(k)' = EvidenceOf(k)
      /\ \A j \in Keys \ {k} : processes'[j] = processes[j]
      /\ issued' = issued
  BY <1>2, UpdateRun DEF IInv
<1>4. Same(k)
  BY <1>3 DEF Same, IsActive
<1>5. \A j \in Keys \ {k} : Same(j)
  BY <1>3 DEF Same, EvidenceOf, IsActive
<1> QED BY <1>4, <1>5

LEMMA ClaimRunKeepsMInv ==
  ASSUME IInv, TypeOK', NEW t \in Threads, ClaimRun(t)
  PROVE  MInv'
<1> DEFINE k == th[t].key
<1>0. /\ th \in [Threads -> Thread] /\ th[t] \in Thread /\ th[t].pc \in {"claim", "late"}
      /\ processes \in [Keys -> Record \cup {NoRecord}]
      /\ IsActive(processes[k])
      /\ UNCHANGED <<backend, manager, past, gate, runs, bound, host, alive, identified, released>>
  BY DEF ClaimRun, IInv, MInv, ManagedTypeOK, SInv, TInv, TypeOK, memory, world
<1>1. /\ k \in Keys /\ manager \in Instances /\ th[t].pc \in FinalizePcs
      /\ Starter(t) => th[t].pc = "late"
      /\ th[t].pc = "late" => Starter(t)
      /\ th[t].verified => th[t].pc = "late" /\ Spent(k)
  BY <1>0, ThreadFields DEF ThreadOK, StartPcs, FinalizePcs
<1>2. processes[k] # NoRecord /\ processes[k] \in Record
      /\ processes[k].evidence \in Evidence /\ EvidenceOf(k) = processes[k].evidence
  BY <1>0, <1>1, Absent, RecordFields DEF EvidenceOf
<1>3. \E id \in ClaimIds : Claimed(t, NextPc(t), id) /\ \A j \in Keys : Same(j)
  <2>1. CASE ClaimShared(k, manager) /\ Claimed(t, NextPc(t), processes[k].claim.id)
             /\ UNCHANGED <<processes, issued>>
    <3>1. processes[k].claim \in Claim
      BY <1>2, <2>1, RecordFields DEF ClaimShared
    <3>2. processes[k].claim.id \in ClaimIds
      BY <3>1 DEF Claim
    <3> QED BY <1>0, <2>1, <3>2, RunsKept
  <2>2. ASSUME NEW id \in ClaimIds,
               ClaimFinalization(k, id, manager, Inspect(k, th[t].seen) # "unverifiable", {t}),
               Claimed(t, NextPc(t), id)
        PROVE  \A j \in Keys : Same(j)
    <3>1. UpdateActive(k, "terminating", processes[k].evidence,
                       [id |-> id, by |-> manager, expired |-> FALSE], {t})
      BY <2>2 DEF ClaimFinalization
    <3>2. [id |-> id, by |-> manager, expired |-> FALSE] \in Claim \cup {NoClaim}
      BY <1>1 DEF Claim
    <3>3. "terminating" \in ActiveStates /\ {t} \in SUBSET Readers
      BY ReadersAssumption DEF ActiveStates
    <3> QED BY <1>0, <1>1, <3>1, <3>2, <3>3, UpdateKeepsRuns
  <2> QED BY <2>1, <2>2 DEF ClaimRun, Fresh
<1>4. PICK id \in ClaimIds : Claimed(t, NextPc(t), id)
  BY <1>3
<1>5. /\ NextPc(t) \in {"commit", "enrich", "clean"}
      /\ th[t].pc = "late" => NextPc(t) = "commit"
  BY DEF NextPc
<1>6. th' = [th EXCEPT ![t] = [th[t] EXCEPT !.pc = NextPc(t), !.claim = id,
                                            !.seen = processes[k].evidence]]
  BY <1>0, <1>4 DEF Claimed
<1>7. [th[t] EXCEPT !.pc = NextPc(t), !.claim = id, !.seen = processes[k].evidence] \in Thread
  BY <1>0, <1>2, <1>5 DEF Thread, FinalizePcs
<1>8. /\ th'[t].pc = NextPc(t) /\ th'[t].claim = id /\ th'[t].seen = processes[k].evidence
      /\ th'[t].key = k /\ th'[t].mode = th[t].mode /\ th'[t].call = th[t].call
      /\ th'[t].session = th[t].session /\ th'[t].verified = th[t].verified
  BY <1>0, <1>6 DEF Thread
<1>9. th' \in [Threads -> Thread] /\ \A u \in Threads \ {t} : th'[u] = th[u]
  BY <1>0, <1>6, <1>7
<1>10. EvidenceOf(k)' = processes[k].evidence
  <2>1. \A j \in Keys : EvidenceOf(j)' = EvidenceOf(j)
    BY <1>3 DEF Same
  <2>2. th'[t].key = k
    BY <1>8
  <2> QED BY <1>1, <1>2, <2>1, <2>2
<1> HIDE DEF k
<1>11. th'[t].seen \in {th[t].seen, EvidenceOf(th[t].key)'}
  BY <1>8, <1>10 DEF k
<1>12. /\ th'[t].pc \in FinalizePcs /\ th'[t].pc # "late"
       /\ Starter(t) => th'[t].pc \in {"clean", "killed", "late", "commit"}
       /\ th'[t].verified => th'[t].pc \in {"late", "commit"} /\ Spent(th[t].key)
  BY <1>1, <1>5, <1>8 DEF FinalizePcs, k
<1>13. released' \in SUBSET Keys
  BY <1>0 DEF IInv, MInv, ManagedTypeOK
<1> QED BY <1>0, <1>1, <1>3, <1>8, <1>9, <1>11, <1>12, <1>13, FinalizerMoves DEF k

\* What a finalizer takes for an empty owner is one.
LEMMA EmptyIsSpent ==
  ASSUME IInv, NEW t \in Threads, th[t].pc \in {"clean", "killed"}, Verified(t)
  PROVE  Spent(th[t].key)
<1> DEFINE k == th[t].key
<1>1. /\ k \in Keys /\ ThreadOK(t) /\ StartOK(t) /\ th[t].mode \in Modes
      /\ th[t].pc \in FinalizePcs /\ th[t].pc # "reserved"
  BY ThreadFields DEF FinalizePcs
<1>2. \A u \in Threads : th[u].pc = "reserved" => Starter(u) /\ ThreadOK(u) /\ StartOK(u)
  BY DEF ThreadOK, Starter, StartPcs, IInv, MInv
<1>3. CASE th[t].mode = "persisted"
  <2>1. Inspect(k, th[t].seen) = "empty"
    BY <1>3 DEF Verified, OwnerEmpty
  <2>2. EvidenceOf(k) # "none" /\ HostGone(k)
        /\ IF backend = "cgroup" THEN alive[k] = {} ELSE InGroup(k) = {}
    BY <1>1, <2>1
    DEF Inspect, InspectCgroup, InspectGroup, ThreadOK, HostGone, ProcessesGone
  <2>3. \A u \in Threads : th[u].pc = "reserved" => th[u].key # k
    BY <1>1, <1>2, <2>2 DEF StartOK, Early
  <2> QED BY <2>2, <2>3 DEF Spent
<1>4. CASE th[t].mode \in {"start", "host"}
  <2>1. \A u \in Threads : th[u].pc = "reserved" => th[u].key # k
    BY <1>1, <1>2, <1>4 DEF Starter, OneStarter, IInv, MInv
  <2>2. CASE th[t].mode = "host"
    <3>1. HostGone(k) /\ alive[k] = {} /\ k \notin identified
      BY <1>1, <2>2 DEF Verified, OwnerEmpty, StartOK
    <3> QED BY <2>1, <3>1 DEF Spent, InGroup
  <2>3. CASE th[t].mode = "start"
    <3>1. LiveOwnerEmpty(k)
      BY <2>3 DEF Verified, OwnerEmpty
    <3>2. k \notin bound => k \notin identified /\ EvidenceOf(k) # "full"
      BY <1>1, <2>3 DEF StartOK
    <3> QED BY <2>1, <3>1, <3>2 DEF Spent, LiveOwnerEmpty, ProcessesGone, HostGone
  <2> QED BY <1>4, <2>2, <2>3
<1>5. CASE th[t].mode = "live"
  <2>1. LiveOwnerEmpty(k)
    BY <1>5 DEF Verified, OwnerEmpty
  <2>2. k \in bound
    BY <1>1, <1>5 DEF ThreadOK
  <2>3. \A u \in Threads : th[u].pc = "reserved" => th[u].key # k
    BY <1>1, <1>2, <2>2 DEF StartOK
  <2> QED BY <2>1, <2>2, <2>3 DEF Spent, LiveOwnerEmpty, ProcessesGone, HostGone
<1> QED BY <1>1, <1>3, <1>4, <1>5 DEF Modes

LEMMA ObserveKeepsMInv ==
  ASSUME IInv, TypeOK', NEW t \in Threads, Observe(t)
  PROVE  MInv'
<1> DEFINE pc == IF th[t].mode \in {"start", "host"} THEN "late" ELSE "commit"
<1>0. /\ th \in [Threads -> Thread] /\ th[t] \in Thread /\ th[t].pc \in {"clean", "killed"}
      /\ UNCHANGED <<processes, issued, backend, manager, past, gate, runs, bound, host, alive,
                     identified>>
  BY DEF Observe, IInv, MInv, ManagedTypeOK, repoVars, memory
<1>1. th[t].key \in Keys /\ th[t].pc \in FinalizePcs /\ ThreadOK(t)
  BY <1>0, ThreadFields DEF FinalizePcs
<1>2. th' = [th EXCEPT ![t] = [th[t] EXCEPT !.verified = Verified(t), !.pc = pc]]
  BY <1>0 DEF Observe
<1>3. Verified(t) \in BOOLEAN
  BY DEF Verified, OwnerEmpty, LiveOwnerEmpty, HostGone, ProcessesGone
<1>4. [th[t] EXCEPT !.verified = Verified(t), !.pc = pc] \in Thread
  BY <1>0, <1>3 DEF Thread, FinalizePcs
<1>5. /\ th'[t].pc = pc /\ th'[t].verified = Verified(t) /\ th'[t].seen = th[t].seen
      /\ th'[t].key = th[t].key /\ th'[t].mode = th[t].mode /\ th'[t].call = th[t].call
      /\ th'[t].session = th[t].session /\ th'[t].claim = th[t].claim
  BY <1>0, <1>2 DEF Thread
<1>6. th' \in [Threads -> Thread] /\ \A u \in Threads \ {t} : th'[u] = th[u]
  BY <1>0, <1>2, <1>4
<1>7. /\ pc \in FinalizePcs /\ pc \in {"late", "commit"}
      /\ pc = "late" => Starter(t)
      /\ pc = "commit" => ~Starter(t)
  BY DEF Starter, FinalizePcs
<1>8. pc = "late" \/ th'[t].claim \in ClaimIds
  BY <1>0, <1>1, <1>5, <1>7 DEF ThreadOK
<1>9. Verified(t) => Spent(th[t].key)
  BY <1>0, EmptyIsSpent
<1>10. released' \in SUBSET Keys
  BY <1>1 DEF Observe, IInv, MInv, ManagedTypeOK
<1> HIDE DEF pc
<1> QED BY <1>0, <1>1, <1>5, <1>6, <1>7, <1>8, <1>9, <1>10, RunsKept, FinalizerMoves

\* Processes of a run end.
LEMMA Shrinking ==
  ASSUME IInv, NEW k \in Keys, NotReserved(k),
         host'[k] \in {host[k], "exited"}, alive'[k] \subseteq alive[k],
         UNCHANGED <<backend, bound, identified, issued, processes>>,
         host'[k] = host[k] \/ (k \in issued /\ \A u \in Threads : th[u].pc = "reserved" =>
                                                                   th[u].key # k)
  PROVE  /\ Grows(k)
         /\ RunOK(k)'
         /\ \A u \in Threads : /\ th[u].key = k /\ th'[u].key = k /\ th'[u].mode = th[u].mode
                               /\ th'[u].pc = th[u].pc \/ th'[u].pc \in FinalizePcs
                               => StartOK(u)'
<1>1. Spent(k) => Spent(k)'
  BY DEF Spent, HostGone, HostUp, InGroup, NotReserved, EvidenceOf
<1>2. EvidenceOf(k)' = EvidenceOf(k)
  BY DEF EvidenceOf
<1>3. Grows(k)
  BY <1>1, <1>2 DEF Grows
<1>4. RunOK(k)'
  BY <1>1 DEF RunOK, IsActive, IInv, MInv
<1>5. ASSUME NEW u \in Threads, th[u].key = k, th'[u].key = k, th'[u].mode = th[u].mode,
             th'[u].pc = th[u].pc \/ th'[u].pc \in FinalizePcs
      PROVE  StartOK(u)'
  <2>1. StartOK(u)
    BY DEF IInv, MInv
  <2>2. th'[u].pc \in FinalizePcs => th'[u].pc \notin Early \cup {"evidenced", "reserved"}
    BY DEF FinalizePcs, Early
  <2> QED BY <1>2, <1>5, <2>1, <2>2 DEF StartOK
<1> QED BY <1>3, <1>4, <1>5

LEMMA ForceOwnerKeepsMInv ==
  ASSUME IInv, TypeOK', NEW t \in Threads, ForceOwner(t)
  PROVE  MInv'
<1>0. /\ th \in [Threads -> Thread] /\ th[t] \in Thread /\ th[t].pc = "clean"
      /\ host \in [Keys -> HostStates] /\ alive \in [Keys -> SUBSET Members]
      /\ UNCHANGED <<processes, issued, backend, manager, past, gate, runs, bound,
                     identified, released>>
  BY DEF ForceOwner, IInv, MInv, ManagedTypeOK, repoVars, memory
<1>a. PICK k \in Keys : k = th[t].key
  BY <1>0, ThreadFields
<1>1. /\ k \in issued /\ th[t].pc \in FinalizePcs /\ ThreadOK(t) /\ StartOK(t)
      /\ th[t].mode \in Modes
  BY <1>0, <1>a, ThreadFields DEF FinalizePcs
<1>2. th' = [th EXCEPT ![t] = [th[t] EXCEPT !.pc = "killed"]]
  BY <1>0 DEF ForceOwner, Goto
<1>3. [th[t] EXCEPT !.pc = "killed"] \in Thread
  BY <1>0 DEF Thread, FinalizePcs
<1>4. /\ th'[t].pc = "killed" /\ th'[t].verified = th[t].verified /\ th'[t].seen = th[t].seen
      /\ th'[t].key = k /\ th'[t].mode = th[t].mode /\ th'[t].call = th[t].call
      /\ th'[t].session = th[t].session /\ th'[t].claim = th[t].claim
  BY <1>0, <1>2, <1>a DEF Thread
<1>5. th' \in [Threads -> Thread] /\ \A u \in Threads \ {t} : th'[u] = th[u]
  BY <1>0, <1>2, <1>3
<1>6. ForceStop(k, th[t].mode)
  BY <1>a DEF ForceOwner
<1>7. /\ host' \in [Keys -> HostStates] /\ host'[k] \in {host[k], "exited"}
      /\ \A j \in Keys \ {k} : host'[j] = host[j]
  BY <1>0, <1>1, <1>6 DEF ForceStop, KillHost, KillGroup, HostStates, Modes
<1>8. /\ alive' \in [Keys -> SUBSET Members] /\ alive'[k] \subseteq alive[k]
      /\ \A j \in Keys \ {k} : alive'[j] = alive[j]
  BY <1>0, <1>1, <1>6 DEF ForceStop, KillHost, KillGroup, Members, Modes
<1>9. \A u \in Threads : th[u].pc = "reserved" => th[u].key # k
  <2>1. \A u \in Threads : th[u].pc = "reserved" => Starter(u) /\ StartOK(u)
    BY DEF ThreadOK, Starter, StartPcs, IInv, MInv
  <2>2. CASE th[t].mode = "persisted"
    <3>1. Inspect(k, th[t].seen) = "active"
      BY <1>a, <2>2 DEF ForceOwner
    <3>2. th[t].seen # "none"
      BY <3>1 DEF Inspect, InspectCgroup, InspectGroup
    <3>3. EvidenceOf(k) # "none"
      BY <1>1, <1>a, <3>2 DEF ThreadOK
    <3> QED BY <2>1, <3>3 DEF StartOK, Early
  <2>3. CASE th[t].mode = "live"
    <3>1. k \in bound
      BY <1>1, <1>a, <2>3 DEF ThreadOK
    <3> QED BY <2>1, <3>1 DEF StartOK
  <2>4. CASE Starter(t)
    BY <1>0, <1>a, <2>1, <2>4 DEF OneStarter, IInv, MInv
  <2> QED BY <1>1, <2>2, <2>3, <2>4 DEF Modes, Starter
<1>10. NotReserved(k)
  BY <1>4, <1>5 DEF NotReserved
<1>11. Grows(k) /\ RunOK(k)'
  BY <1>0, <1>1, <1>7, <1>8, <1>9, <1>10, Shrinking
<1>12. \A u \in Threads : th[u].key = k => StartOK(u)'
  <2>1. "killed" \in FinalizePcs
    BY DEF FinalizePcs
  <2>2. \A u \in Threads : /\ th[u].key = k /\ th'[u].key = k /\ th'[u].mode = th[u].mode
                           /\ th'[u].pc = th[u].pc \/ th'[u].pc \in FinalizePcs
                           => StartOK(u)'
    BY <1>0, <1>1, <1>7, <1>8, <1>9, <1>10, Shrinking
  <2> QED BY <1>4, <1>5, <1>a, <2>1, <2>2
<1>13. ThreadOK(t)' /\ Starter(t)' = Starter(t)
  <2>1. /\ ~th[t].verified /\ "killed" \in FinalizePcs
        /\ th[t].claim \in ClaimIds \/ Starter(t)
    BY <1>0, <1>1 DEF ThreadOK, FinalizePcs
  <2> QED BY <1>0, <1>1, <1>4, <1>5, <1>11, <1>a, <2>1, Finalizing
<1>14. \A j \in Keys \ {k} : Same(j)
  BY <1>0, <1>7, <1>8 DEF Same, EvidenceOf, IsActive
<1>15. ManagedTypeOK' /\ ManagerSound'
  BY <1>0, <1>5, <1>7, <1>8 DEF ManagedTypeOK, ManagerSound, IInv, MInv
<1>16. Starter(t) => \A u \in Threads \ {t} : ~(Starter(u) /\ th[u].key = k)
  BY <1>a DEF OneStarter, IInv, MInv
<1>17. th'[t].pc # "reserved" /\ StartOK(t)'
  BY <1>4, <1>12, <1>a
<1> QED BY <1>0, <1>4, <1>5, <1>11, <1>12, <1>13, <1>14, <1>15, <1>16, <1>17, <1>a, OneRunMoves

LEMMA EnrichKeepsMInv ==
  ASSUME IInv, TypeOK', NEW t \in Threads, NEW pc \in FinalizePcs, Enrichable(t),
         EnrichEvidence(t, pc), UNCHANGED <<memory, world>>,
         \/ th[t].pc \in {"claim", "late"} /\ pc = th[t].pc
         \/ th[t].pc = "enrich" /\ pc = "clean"
  PROVE  MInv'
<1>0. /\ th \in [Threads -> Thread] /\ th[t] \in Thread
      /\ UNCHANGED <<backend, manager, past, gate, runs, bound, host, alive, identified, released>>
  BY DEF IInv, MInv, ManagedTypeOK, memory, world
<1>1. /\ th[t].pc \in FinalizePcs /\ th[t].pc \notin {"idle", "next", "reserved"}
      /\ pc \in {"claim", "late", "clean"}
  BY DEF FinalizePcs
<1>a. PICK k \in Keys : k = th[t].key
  BY <1>1, ThreadFields
<1>2. k \in issued /\ ThreadOK(t) /\ k \in identified /\ th[t].seen = "host"
  BY <1>1, <1>a, ThreadFields DEF Enrichable
<1>3. CASE t \in current[k]
  <2>1. /\ UpdateActive(k, "terminating", "full", processes[k].claim, {t})
        /\ th' = [th EXCEPT ![t] = [th[t] EXCEPT !.pc = pc, !.seen = "full"]]
    BY <1>0, <1>3, <1>a DEF EnrichEvidence
  <2>2. processes[k].claim \in Claim \cup {NoClaim}
    BY <2>1, RecordFields DEF UpdateActive, IInv, SInv, TInv, TypeOK
  <2>3. "terminating" \in ActiveStates /\ "full" \in Evidence /\ {t} \in SUBSET Readers
    BY ReadersAssumption DEF ActiveStates, Evidence
  <2>4. /\ IsActive(processes[k]) /\ IsActive(processes'[k])
        /\ processes[k] # NoRecord /\ processes'[k] # NoRecord
        /\ EvidenceOf(k)' = "full"
        /\ \A j \in Keys \ {k} : processes'[j] = processes[j]
        /\ issued' = issued
    BY <2>1, <2>2, <2>3, UpdateRun DEF IInv
  <2>5. [th[t] EXCEPT !.pc = pc, !.seen = "full"] \in Thread
    BY <1>0, <2>3 DEF Thread
  <2>6. /\ th'[t].pc = pc /\ th'[t].verified = th[t].verified /\ th'[t].seen = "full"
        /\ th'[t].key = k /\ th'[t].mode = th[t].mode /\ th'[t].call = th[t].call
        /\ th'[t].session = th[t].session /\ th'[t].claim = th[t].claim
    BY <1>0, <2>1, <1>a DEF Thread
  <2>7. th' \in [Threads -> Thread] /\ \A u \in Threads \ {t} : th'[u] = th[u]
    BY <1>0, <2>1, <2>5
  <2>8. NotReserved(k)
    BY <1>1, <2>6, <2>7 DEF NotReserved
  <2>9. Spent(k) => Spent(k)'
    BY <1>0, <1>2, <2>8 DEF Spent, HostGone, HostUp, InGroup, NotReserved
  <2>10. Grows(k)
    BY <1>0, <2>4, <2>9 DEF Grows
  <2>11. RunOK(k)'
    BY <1>2, <2>4 DEF RunOK, IsActive
  <2>12. \A u \in Threads : th[u].key = k => StartOK(u)'
    <3>1. EvidenceOf(k) # "none"
      BY <1>2, <1>a DEF ThreadOK
    <3>2. ASSUME NEW u \in Threads, th[u].key = k PROVE StartOK(u)'
      <4>1. StartOK(u) /\ k \in Keys
        BY DEF IInv, MInv
      <4>2. /\ th[u].pc \notin Early \cup {"evidenced"} /\ th[u].mode # "host"
            /\ th[u].mode = "start" => k \in bound
        BY <1>2, <3>1, <3>2, <4>1 DEF StartOK
      <4>3. th'[u].pc \notin Early \cup {"evidenced", "reserved"}
        BY <1>1, <2>6, <2>7, <4>2 DEF Early
      <4>4. th'[u].key = k /\ th'[u].mode = th[u].mode
        BY <2>6, <2>7, <3>2, <1>a
      <4> QED BY <1>0, <4>2, <4>3, <4>4 DEF StartOK
    <3> QED BY <3>2
  <2>13. ThreadOK(t)' /\ Starter(t)' = Starter(t)
    <3>1. /\ th'[t].pc = "late" => Starter(t)
          /\ Starter(t) => th'[t].pc = "late"
          /\ th'[t].verified => th'[t].pc = "late" /\ Spent(th[t].key)'
      BY <1>2, <1>a, <2>6, <2>9 DEF ThreadOK, StartPcs
    <3>2. th'[t].pc \notin {"commit", "enrich", "clean", "killed"} \/ th'[t].claim \in ClaimIds
      BY <1>2, <2>6, <3>1 DEF ThreadOK
    <3>3. th'[t].seen \in {th[t].seen, EvidenceOf(th[t].key)'}
      BY <2>4, <2>6, <1>a
    <3>4. Grows(th[t].key) /\ th'[t].pc \in FinalizePcs
      BY <2>6, <2>10, <1>a
    <3> QED BY <1>0, <1>1, <1>a, <2>6, <2>7, <3>1, <3>2, <3>3, <3>4, Finalizing
  <2>14. \A j \in Keys \ {k} : Same(j)
    BY <1>0, <2>4 DEF Same, EvidenceOf, IsActive
  <2>15. ManagedTypeOK' /\ ManagerSound'
    BY <1>0, <2>7 DEF ManagedTypeOK, ManagerSound, IInv, MInv
  <2>16. Starter(t) => \A u \in Threads \ {t} : ~(Starter(u) /\ th[u].key = k)
    BY <1>a DEF OneStarter, IInv, MInv
  <2>17. th'[t].pc # "reserved" /\ StartOK(t)'
    BY <1>1, <1>a, <2>6, <2>12
  <2> QED BY <1>0, <1>a, <2>6, <2>7, <2>10, <2>11, <2>12, <2>13, <2>14, <2>15, <2>16, <2>17,
             OneRunMoves
<1>4. CASE t \notin current[k]
  <2>1. th' = Return(t) /\ UNCHANGED repoVars
    BY <1>4, <1>a DEF EnrichEvidence
  <2>2. UNCHANGED <<host, alive, identified, bound, issued, processes>>
    BY <1>0, <2>1 DEF repoVars
  <2> QED BY <1>0, <1>1, <2>1, <2>2, RunsKept, ReturnKeepsMInv
<1> QED BY <1>3, <1>4

LEMMA EnrichStepKeepsMInv ==
  ASSUME IInv, TypeOK', NEW t \in Threads, EnrichExpired(t) \/ Enrich(t)
  PROVE  MInv'
<1>1. CASE EnrichExpired(t)
  <2>1. th[t].pc \in FinalizePcs
    BY <1>1 DEF EnrichExpired, FinalizePcs
  <2> QED BY <1>1, <2>1, EnrichKeepsMInv DEF EnrichExpired
<1>2. CASE Enrich(t) /\ Enrichable(t)
  <2>1. "clean" \in FinalizePcs
    BY DEF FinalizePcs
  <2> QED BY <1>2, <2>1, EnrichKeepsMInv DEF Enrich
<1>3. CASE Enrich(t) /\ ~Enrichable(t)
  <2>0. /\ th \in [Threads -> Thread] /\ th[t] \in Thread /\ th[t].pc = "enrich" /\ ThreadOK(t)
        /\ UNCHANGED <<processes, issued, backend, manager, past, gate, runs, bound, host, alive,
                       identified, released>>
    BY <1>3 DEF Enrich, IInv, MInv, ManagedTypeOK, repoVars, memory, world
  <2>1. th' = [th EXCEPT ![t] = [th[t] EXCEPT !.pc = "clean"]]
    BY <1>3, <2>0 DEF Enrich, Goto
  <2>2. [th[t] EXCEPT !.pc = "clean"] \in Thread
    BY <2>0 DEF Thread, FinalizePcs
  <2>3. /\ th'[t].pc = "clean" /\ th'[t].verified = th[t].verified /\ th'[t].seen = th[t].seen
        /\ th'[t].key = th[t].key /\ th'[t].mode = th[t].mode /\ th'[t].call = th[t].call
        /\ th'[t].session = th[t].session /\ th'[t].claim = th[t].claim
    BY <2>0, <2>1 DEF Thread
  <2>4. th' \in [Threads -> Thread] /\ \A u \in Threads \ {t} : th'[u] = th[u]
    BY <2>0, <2>1, <2>2
  <2>5. /\ ~Starter(t) /\ th[t].claim \in ClaimIds /\ ~th[t].verified
        /\ th[t].pc \in FinalizePcs /\ th'[t].pc \in FinalizePcs
    BY <2>0, <2>3 DEF ThreadOK, StartPcs, FinalizePcs
  <2>6. released' \in SUBSET Keys
    BY <2>0 DEF IInv, MInv, ManagedTypeOK
  <2> QED BY <2>0, <2>3, <2>4, <2>5, <2>6, RunsKept, FinalizerMoves
<1> QED BY <1>1, <1>2, <1>3

\* A run is committed as over only by who has seen its owner empty.
LEMMA CommitKeepsMInv ==
  ASSUME IInv, TypeOK', NEW t \in Threads, Commit(t)
  PROVE  MInv'
<1>0. /\ th[t].pc = "commit" /\ th' = Return(t) /\ runs' \subseteq runs
      /\ UNCHANGED <<backend, manager, past, gate, bound, host, alive, identified, released>>
  BY DEF Commit, world
<1>a. PICK k \in Keys : k = th[t].key
  BY <1>0, ThreadFields
<1>1. ThreadOK(t) /\ th[t].claim \in ClaimIds /\ k \in issued
  BY <1>0, <1>a, ThreadFields DEF ThreadOK
<1>2. CASE ~HoldsClaim(k, th[t].claim)
  <2>1. UNCHANGED <<processes, issued>>
    BY <1>2, <1>a DEF Commit, repoVars
  <2> QED BY <1>0, <2>1, RunsKept, ReturnKeepsMInv
<1>3. CASE HoldsClaim(k, th[t].claim) /\ ~th[t].verified
  <2>1. processes[k] # NoRecord
        /\ UpdateActive(k, "terminating", processes[k].evidence, NoClaim, {})
    BY <1>3, <1>a DEF Commit, CommitFinalization, CommitPending
  <2>2. "terminating" \in ActiveStates /\ {} \in SUBSET Readers
    BY DEF ActiveStates
  <2>3. \A j \in Keys : Same(j)
    BY <1>0, <2>1, <2>2, UpdateKeepsRuns
  <2> QED BY <1>0, <2>3, ReturnKeepsMInv
<1>4. CASE HoldsClaim(k, th[t].claim) /\ th[t].verified
  <2>1. CommitTerminal(k, th[t].claim)
    BY <1>4, <1>a DEF Commit, CommitFinalization
  <2>2. Spent(k)
    BY <1>1, <1>4, <1>a DEF ThreadOK
  <2>3. processes[k] \in Record /\ processes \in [Keys -> Record \cup {NoRecord}]
    BY <2>1, RecordFields DEF CommitTerminal, IInv, SInv, TInv, TypeOK
  <2>4. /\ processes' = [processes EXCEPT ![k] = [processes[k] EXCEPT !.status = "terminal",
                                                                  !.claim = NoClaim]]
        /\ issued' = issued
    BY <2>1, <2>3 DEF CommitTerminal
  <2>5. /\ processes'[k].evidence = processes[k].evidence
        /\ processes'[k].status = "terminal"
        /\ \A j \in Keys \ {k} : processes'[j] = processes[j]
    BY <2>3, <2>4 DEF Record
  <2>6. processes'[k] # NoRecord /\ processes[k] # NoRecord
    BY <2>3, <2>5, Absent
  <2>7. EvidenceOf(k)' = EvidenceOf(k)
    BY <2>5, <2>6 DEF EvidenceOf
  <2>8. /\ th' \in [Threads -> Thread]
        /\ \A u \in Threads \ {t} : th'[u] = th[u]
        /\ th'[t].pc # "reserved" /\ ThreadOK(t)' /\ StartOK(t)' /\ ~Starter(t)'
    BY <1>0, Returned
  <2>9. Spent(k)'
    BY <1>0, <2>2, <2>7, <2>8 DEF Spent, HostGone, HostUp, InGroup
  <2>10. Grows(k)
    BY <1>0, <2>4, <2>7, <2>9 DEF Grows
  <2>11. RunOK(k)'
    BY <1>1, <2>4, <2>6, <2>9 DEF RunOK
  <2>12. \A u \in Threads : u # t /\ th[u].key = k => StartOK(u)'
    BY <1>0, <2>7, <2>8 DEF StartOK, IInv, MInv
  <2>13. \A j \in Keys \ {k} : Same(j)
    BY <1>0, <2>4, <2>5 DEF Same, EvidenceOf, IsActive
  <2>14. ManagedTypeOK' /\ ManagerSound'
    BY <1>0, <2>8 DEF ManagedTypeOK, ManagerSound, IInv, MInv
  <2> QED BY <1>0, <2>8, <2>10, <2>11, <2>12, <2>13, <2>14, OneRunMoves
<1> QED BY <1>2, <1>3, <1>4

LEMMA FinalizeKeepsMInv ==
  ASSUME IInv, TypeOK', NEW t \in Threads, FinalizeStep(t)
  PROVE  MInv'
BY LockKeepsMInv, EnrichStepKeepsMInv, ClaimRunKeepsMInv, ClaimRefusedKeepsMInv,
   ForceOwnerKeepsMInv, ObserveKeepsMInv, CommitKeepsMInv DEF FinalizeStep

--------------------------------------------------------------------------------
(* The steps of the hosts and the targets.                                   *)

LEMMA ShrinkingKeepsMInv ==
  ASSUME IInv, TypeOK', NEW k \in Keys, NEW h, NEW a,
         UNCHANGED <<repoVars, memory, th, identified, released>>,
         host' = [host EXCEPT ![k] = h], alive' = [alive EXCEPT ![k] = a],
         a \subseteq alive[k], h = host[k] \/ (h = "exited" /\ host[k] # "none")
  PROVE  MInv'
<1>0. /\ host \in [Keys -> HostStates] /\ alive \in [Keys -> SUBSET Members]
      /\ UNCHANGED <<processes, issued, backend, manager, past, gate, runs, bound, identified,
                     released, th>>
  BY DEF IInv, MInv, ManagedTypeOK, repoVars, memory
<1>1. /\ host'[k] = h /\ alive'[k] = a
      /\ host' \in [Keys -> HostStates] /\ alive' \in [Keys -> SUBSET Members]
      /\ \A j \in Keys \ {k} : host'[j] = host[j] /\ alive'[j] = alive[j]
  BY <1>0 DEF HostStates
<1>2. host[k] # "none" =>
        k \in issued /\ \A u \in Threads : th[u].pc = "reserved" => th[u].key # k
  BY DEF RunOK, StartOK, IInv, MInv
<1>3. NotReserved(k)
  BY <1>0 DEF NotReserved
<1>4. /\ Grows(k) /\ RunOK(k)'
      /\ \A u \in Threads : th[u].key = k => StartOK(u)'
  BY <1>0, <1>1, <1>2, <1>3, Shrinking
<1>5. \A j \in Keys \ {k} : Same(j)
  BY <1>0, <1>1 DEF Same, EvidenceOf, IsActive
<1>6. ManagedTypeOK'
  BY <1>0, <1>1 DEF ManagedTypeOK, IInv, MInv
<1> QED BY <1>4, <1>5, <1>6, ProcessesMove

\* A host that is up goes on.
LEMMA HostKeepsMInv ==
  ASSUME IInv, TypeOK', NEW k \in Keys, HostStep(k)
  PROVE  MInv'
<1>0. /\ host \in [Keys -> HostStates] /\ alive \in [Keys -> SUBSET Members]
      /\ identified \in SUBSET Keys
  BY DEF IInv, MInv, ManagedTypeOK
<1>1. ASSUME HostUp(k), NEW h \in HostStates \ {"none", "exited"}, NEW a \in SUBSET Members,
             UNCHANGED <<repoVars, memory, th, released>>,
             host' = [host EXCEPT ![k] = h], alive' = [alive EXCEPT ![k] = a],
             identified' \in {identified, identified \cup {k}},
             \A u \in Threads : th[u].key = k => StartOK(u)'
      PROVE  MInv'
  <2>1. UNCHANGED <<processes, issued, backend, manager, past, gate, runs, bound, released, th>>
    BY <1>1 DEF repoVars, memory
  <2>2. /\ host'[k] = h /\ alive'[k] = a
        /\ host' \in [Keys -> HostStates] /\ alive' \in [Keys -> SUBSET Members]
        /\ \A j \in Keys \ {k} : host'[j] = host[j] /\ alive'[j] = alive[j]
    BY <1>0, <1>1
  <2>3. k \in issued /\ ~Spent(k) /\ RunOK(k)
    BY <1>1 DEF RunOK, Spent, HostGone, HostUp, IInv, MInv
  <2>4. EvidenceOf(k)' = EvidenceOf(k)
    BY <2>1 DEF EvidenceOf
  <2>5. Grows(k)
    BY <1>1, <2>1, <2>3, <2>4 DEF Grows
  <2>6. RunOK(k)'
    BY <2>1, <2>3 DEF RunOK, IsActive
  <2>7. \A j \in Keys \ {k} : Same(j)
    BY <1>1, <2>1, <2>2 DEF Same, EvidenceOf, IsActive
  <2>8. ManagedTypeOK'
    BY <1>0, <1>1, <2>1, <2>2 DEF ManagedTypeOK, IInv, MInv
  <2> QED BY <1>1, <2>5, <2>6, <2>7, <2>8, ProcessesMove
<1>2. CASE HostSpawns(k)
  <2>1. /\ UNCHANGED <<repoVars, memory, th, identified, released>> /\ host[k] = "spec"
        /\ host' = [host EXCEPT ![k] = "asking"] /\ alive' = [alive EXCEPT ![k] = {"leader"}]
    BY <1>2 DEF HostSpawns
  <2>2. host'[k] = "asking" /\ HostUp(k) /\ UNCHANGED <<processes, bound>>
    BY <1>0, <2>1 DEF HostUp, repoVars, memory
  <2>3. \A u \in Threads : th[u].key = k => StartOK(u)'
    BY <2>1, <2>2 DEF StartOK, Early, EvidenceOf, IInv, MInv
  <2>4. "asking" \in HostStates \ {"none", "exited"} /\ {"leader"} \in SUBSET Members
    BY DEF HostStates, Members
  <2> QED BY <1>1, <2>1, <2>2, <2>3, <2>4
<1>3. CASE HostServes(k)
  <2>1. /\ UNCHANGED <<repoVars, memory, th, alive, released>> /\ host[k] = "told"
        /\ host' = [host EXCEPT ![k] = "serving"] /\ identified' = identified \cup {k}
    BY <1>3 DEF HostServes
  <2>2. host'[k] = "serving" /\ HostUp(k) /\ UNCHANGED <<processes, bound>>
    BY <1>0, <2>1 DEF HostUp, repoVars, memory
  <2>3. \A u \in Threads : th[u].key = k => StartOK(u)'
    BY <2>1, <2>2 DEF StartOK, Early, EvidenceOf, IInv, MInv
  <2>4. "serving" \in HostStates \ {"none", "exited"} /\ alive[k] \in SUBSET Members
        /\ alive' = [alive EXCEPT ![k] = alive[k]]
    BY <1>0, <2>1 DEF HostStates
  <2> QED BY <1>1, <2>1, <2>2, <2>3, <2>4
<1>4. CASE HostFinishes(k)
  <2>1. /\ UNCHANGED <<repoVars, memory, th, identified, released>> /\ host[k] = "serving"
        /\ host' = [host EXCEPT ![k] = "ending"]
        /\ alive' = [alive EXCEPT ![k] = alive[k] \ {"leader", "child"}]
    BY <1>0, <1>4 DEF HostFinishes, KillGroup
  <2>2. /\ host'[k] = "ending" /\ HostUp(k) /\ UNCHANGED <<processes, bound>>
        /\ alive'[k] \subseteq alive[k]
    BY <1>0, <2>1 DEF HostUp, repoVars, memory
  <2>3. \A u \in Threads : th[u].key = k => StartOK(u)'
    BY <2>1, <2>2 DEF StartOK, Early, EvidenceOf, IInv, MInv
  <2>4. "ending" \in HostStates \ {"none", "exited"}
        /\ alive[k] \ {"leader", "child"} \in SUBSET Members
    BY <1>0 DEF HostStates
  <2> QED BY <1>1, <2>1, <2>2, <2>3, <2>4
<1>5. CASE HostGivesUp(k)
  <2>1. /\ UNCHANGED <<repoVars, memory, th, identified, released>> /\ host[k] # "none"
        /\ host' = [host EXCEPT ![k] = "exited"]
        /\ alive' = [alive EXCEPT ![k] = CleanupTarget(k)]
    BY <1>5 DEF HostGivesUp
  <2>2. CleanupTarget(k) \subseteq alive[k]
    BY DEF CleanupTarget
  <2> QED BY <2>1, <2>2, ShrinkingKeepsMInv
<1>6. CASE HostStops(k)
  <2>1. /\ UNCHANGED <<repoVars, memory, th, identified, released>>
        /\ host' = [host EXCEPT ![k] = host[k]]
        /\ alive' = [alive EXCEPT ![k] = CleanupTarget(k)]
    BY <1>0, <1>6 DEF HostStops
  <2>2. CleanupTarget(k) \subseteq alive[k]
    BY DEF CleanupTarget
  <2> QED BY <2>1, <2>2, ShrinkingKeepsMInv
<1>7. CASE HostExits(k)
  <2>1. /\ UNCHANGED <<repoVars, memory, th, identified, released>> /\ host[k] # "none"
        /\ host' = [host EXCEPT ![k] = "exited"]
        /\ alive' = [alive EXCEPT ![k] = alive[k]]
    BY <1>0, <1>7 DEF HostExits, KillHost
  <2> QED BY <2>1, ShrinkingKeepsMInv
<1> QED BY <1>2, <1>3, <1>4, <1>5, <1>6, <1>7 DEF HostStep

LEMMA TargetKeepsMInv ==
  ASSUME IInv, TypeOK', NEW k \in Keys, TargetStep(k)
  PROVE  MInv'
<1>0. /\ host \in [Keys -> HostStates] /\ alive \in [Keys -> SUBSET Members]
  BY DEF IInv, MInv, ManagedTypeOK
<1>1. CASE HostDies(k)
  <2>1. /\ UNCHANGED <<repoVars, memory, th, identified, released>> /\ host[k] # "none"
        /\ host' = [host EXCEPT ![k] = "exited"]
        /\ alive' = [alive EXCEPT ![k] = alive[k]]
    BY <1>0, <1>1 DEF HostDies, KillHost, HostUp
  <2> QED BY <2>1, ShrinkingKeepsMInv
<1>2. CASE ProcessExits(k)
  <2>1. PICK p \in alive[k] : alive' = [alive EXCEPT ![k] = alive[k] \ {p}]
    BY <1>0, <1>2 DEF ProcessExits
  <2>2. /\ UNCHANGED <<repoVars, memory, th, identified, released>>
        /\ host' = [host EXCEPT ![k] = host[k]]
    BY <1>0, <1>2 DEF ProcessExits
  <2> QED BY <2>1, <2>2, ShrinkingKeepsMInv
<1>3. CASE Fork(k)
  <2>1. PICK p \in Children : /\ p = "child" => InGroup(k) # {}
                              /\ alive' = [alive EXCEPT ![k] = alive[k] \cup {p}]
    BY <1>0, <1>3 DEF Fork
  <2>2. /\ UNCHANGED <<repoVars, memory, th, host, identified, released>> /\ alive[k] # {}
        /\ p \in {"child", "stray"}
    BY <1>3, ChildrenAssumption DEF Fork
  <2>3. /\ alive'[k] = alive[k] \cup {p} /\ alive' \in [Keys -> SUBSET Members]
        /\ \A j \in Keys \ {k} : alive'[j] = alive[j]
    BY <1>0, <2>1, <2>2 DEF Members
  <2>4. UNCHANGED <<processes, issued, backend, manager, past, gate, runs, bound, released, th>>
    BY <2>2 DEF repoVars, memory
  <2>5. InGroup(k) = {} => InGroup(k)' = {}
    BY <2>1, <2>2, <2>3 DEF InGroup
  <2>6. EvidenceOf(k)' = EvidenceOf(k)
    BY <2>4 DEF EvidenceOf
  <2>7. Spent(k) => Spent(k)'
    BY <2>2, <2>4, <2>5, <2>6 DEF Spent, HostGone, HostUp
  <2>8. Grows(k)
    BY <2>2, <2>4, <2>6, <2>7 DEF Grows
  <2>9. RunOK(k)'
    BY <2>2, <2>4, <2>7 DEF RunOK, IsActive, IInv, MInv
  <2>10. \A u \in Threads : th[u].key = k => StartOK(u)'
    BY <2>2, <2>4, <2>6 DEF StartOK, IInv, MInv
  <2>11. \A j \in Keys \ {k} : Same(j)
    BY <2>2, <2>3, <2>4 DEF Same, EvidenceOf, IsActive
  <2>12. ManagedTypeOK'
    BY <2>2, <2>3, <2>4 DEF ManagedTypeOK, IInv, MInv
  <2> QED BY <2>2, <2>8, <2>9, <2>10, <2>11, <2>12, ProcessesMove
<1> QED BY <1>1, <1>2, <1>3 DEF TargetStep

--------------------------------------------------------------------------------
(* The steps of a start.                                                     *)

LEMMA StartingThread ==
  ASSUME IInv, NEW t \in Threads, th' \in [Threads -> Thread], NEW k \in Keys,
         k = th[t].key, manager' = manager, th[t].pc \in StartPcs,
         th'[t].pc \in StartPcs \cup {"running", "clean"} , th'[t].pc # "reserved",
         th'[t].mode = "start" \/ (th'[t].mode = "host" /\ th'[t].pc = "clean"),
         th'[t].key = k, th'[t].call = th[t].call,
         th'[t].session = th[t].session, th'[t].seen = th[t].seen,
         th'[t].verified = th[t].verified,
         Grows(k),
         th'[t].pc \in {"bound", "told", "full", "running"} => k \in bound',
         th'[t].pc \in {"full", "running"} => k \in identified'
  PROVE  ThreadOK(t)'
<1>1. ThreadOK(t) /\ Starter(t) /\ ~th[t].verified /\ k \in issued /\ manager # None
  BY ThreadFields DEF ThreadOK, Starter, StartPcs
<1>2. Starter(t)' /\ th'[t].mode # "live"
  BY DEF Starter
<1>3. /\ th[t].call = "run"
      /\ th[t].seen # "none" => EvidenceOf(k)' # "none"
      /\ th[t].seen = "full" => EvidenceOf(k)' = "full"
      /\ k \in issued'
  BY <1>1 DEF ThreadOK, Grows
<1>4. /\ th'[t].pc \notin {"idle", "next", "late", "commit", "enrich", "killed"}
      /\ th'[t].pc \in StartPcs \cup {"running"} => th'[t].mode = "start"
  BY DEF StartPcs
<1> QED BY <1>1, <1>2, <1>3, <1>4 DEF ThreadOK

\* A step of a start, which no other start of the run can be.
LEMMA StarterMoves ==
  ASSUME IInv, TypeOK', NEW t \in Threads, th' \in [Threads -> Thread], NEW k \in Keys,
         k = th[t].key,
         UNCHANGED <<backend, manager, past, gate, runs, released>>,
         \A u \in Threads \ {t} : th'[u] = th[u],
         bound' \in {bound, bound \cup {k}},
         host' \in [Keys -> HostStates], UNCHANGED <<alive, identified>>,
         \A j \in Keys \ {k} : Same(j),
         th[t].pc \in StartPcs,
         th'[t].pc \in StartPcs \cup {"running", "clean"}, th'[t].pc # "reserved",
         th'[t].mode = "start" \/ (th'[t].mode = "host" /\ th'[t].pc = "clean"),
         th'[t].key = k, th'[t].call = th[t].call,
         th'[t].session = th[t].session, th'[t].seen = th[t].seen,
         th'[t].verified = th[t].verified,
         Grows(k), RunOK(k)', StartOK(t)',
         th'[t].pc \in {"bound", "told", "full", "running"} => k \in bound',
         th'[t].pc \in {"full", "running"} => k \in identified'
  PROVE  MInv'
<1>1. ThreadOK(t)'
  BY StartingThread
<1>2. Starter(t) /\ \A u \in Threads \ {t} : ~(Starter(u) /\ th[u].key = k)
  BY DEF ThreadOK, Starter, OneStarter, IInv, MInv
<1>3. ASSUME NEW u \in Threads, u # t, th[u].key = k PROVE StartOK(u)'
  <2>1. ThreadOK(u) /\ ~Starter(u)
    BY <1>2, <1>3 DEF IInv, MInv
  <2>2. th[u].pc \notin StartPcs /\ th[u].mode \notin {"start", "host"}
    BY <2>1 DEF ThreadOK, Starter
  <2> QED BY <1>3, <2>2 DEF StartOK, StartPcs, Early
<1>4. ManagedTypeOK' /\ ManagerSound'
  BY DEF ManagedTypeOK, ManagerSound, IInv, MInv
<1> QED BY <1>1, <1>2, <1>3, <1>4, OneRunMoves

\* The thread goes on with its start, or to the cleanup in this mode.
Moves(t, pc, mode) == th' = [th EXCEPT ![t] = [th[t] EXCEPT !.pc = pc, !.mode = mode]]

LEMMA Goes ==
  ASSUME IInv, NEW t \in Threads,
         NEW pc \in StartPcs \cup FinalizePcs \cup {"running", "next", "idle"},
         NEW mode \in Modes, Moves(t, pc, mode)
  PROVE  /\ th' \in [Threads -> Thread]
         /\ \A u \in Threads \ {t} : th'[u] = th[u]
         /\ th'[t].pc = pc /\ th'[t].mode = mode /\ th'[t].key = th[t].key
         /\ th'[t].call = th[t].call /\ th'[t].session = th[t].session
         /\ th'[t].seen = th[t].seen /\ th'[t].verified = th[t].verified
<1>0. th \in [Threads -> Thread] /\ th[t] \in Thread
  BY DEF IInv, MInv, ManagedTypeOK
<1>1. [th[t] EXCEPT !.pc = pc, !.mode = mode] \in Thread
  BY <1>0 DEF Thread
<1>2. th'[t] = [th[t] EXCEPT !.pc = pc, !.mode = mode]
  BY <1>0 DEF Moves
<1> QED BY <1>0, <1>1, <1>2 DEF Moves, Thread

LEMMA GotoGoes ==
  ASSUME IInv, NEW t \in Threads,
         NEW pc \in StartPcs \cup FinalizePcs \cup {"running", "next", "idle"}, Goto(t, pc)
  PROVE  /\ th' \in [Threads -> Thread]
         /\ \A u \in Threads \ {t} : th'[u] = th[u]
         /\ th'[t].pc = pc /\ th'[t].mode = th[t].mode /\ th'[t].key = th[t].key
         /\ th'[t].call = th[t].call /\ th'[t].session = th[t].session
         /\ th'[t].seen = th[t].seen /\ th'[t].verified = th[t].verified
<1>0. th \in [Threads -> Thread] /\ th[t] \in Thread
  BY DEF IInv, MInv, ManagedTypeOK
<1>1. th' = [th EXCEPT ![t] = [th[t] EXCEPT !.pc = pc]]
  BY <1>0 DEF Goto
<1>2. [th[t] EXCEPT !.pc = pc] \in Thread
  BY <1>0 DEF Thread
<1>3. th'[t] = [th[t] EXCEPT !.pc = pc]
  BY <1>0, <1>1
<1> QED BY <1>0, <1>1, <1>2, <1>3 DEF Thread

LEMMA StartRunKeepsMInv ==
  ASSUME IInv, TypeOK', NEW t \in Threads, NEW k \in Keys, NEW i \in Sessions \cup {None},
         StartRun(t, k, i)
  PROVE  MInv'
<1> DEFINE n == Calls("reserved", k, "start", "run", None, {})
<1>0. th \in [Threads -> Thread] /\ processes \in [Keys -> Record \cup {NoRecord}]
  BY DEF IInv, MInv, ManagedTypeOK, SInv, TInv, TypeOK
<1>1. /\ Reserve(k, i, manager) /\ th[t] = Idle /\ gate /\ th' = [th EXCEPT ![t] = n]
      /\ UNCHANGED <<backend, manager, past, gate, runs, bound, host, alive, identified, released>>
  BY DEF StartRun, memory, world
<1>2. n \in Thread
  BY DEF Calls, Thread, Modes, Evidence, StartPcs
<1>3. /\ n.pc = "reserved" /\ n.key = k /\ n.mode = "start" /\ n.call = "run"
      /\ n.seen = "none" /\ n.verified = FALSE
  BY DEF Calls
<1> HIDE DEF n
<1>4. th' \in [Threads -> Thread] /\ th'[t] = n /\ \A u \in Threads \ {t} : th'[u] = th[u]
  BY <1>0, <1>1, <1>2
<1>5. k \notin issued /\ issued' = issued \cup {k} /\ processes[k] = NoRecord
  BY <1>1, FreshRun DEF Reserve, IInv
<1>6. /\ processes'[k] = NewRecord(i, manager)
      /\ \A j \in Keys \ {k} : processes'[j] = processes[j]
  BY <1>0, <1>1 DEF Reserve
<1>7. /\ IsActive(processes'[k]) /\ EvidenceOf(k)' = "none" /\ processes'[k] # NoRecord
  <2>1. /\ NewRecord(i, manager).status = "starting"
        /\ NewRecord(i, manager).evidence = "none"
        /\ NewRecord(i, manager) # NoRecord
    BY DEF NewRecord, NoRecord
  <2> QED BY <1>6, <2>1 DEF IsActive, ActiveStates, EvidenceOf
<1>8. host[k] = "none" /\ alive[k] = {} /\ k \notin identified /\ k \notin bound
  BY <1>5 DEF RunOK, IInv, MInv
<1>9. Grows(k)
  BY <1>1, <1>5 DEF Grows, EvidenceOf
<1>10. RunOK(k)'
  BY <1>5, <1>7 DEF RunOK, IsActive
<1>11. manager # None
  BY <1>1 DEF IInv, MInv, ManagerSound
<1>12. ThreadOK(t)'
  BY <1>1, <1>3, <1>4, <1>5, <1>11 DEF ThreadOK, Starter, StartPcs, FinalizePcs
<1>13. StartOK(t)'
  BY <1>1, <1>3, <1>4, <1>7, <1>8 DEF StartOK
<1>14. \A u \in Threads : u # t /\ th[u].key = k => ~Starter(u) /\ StartOK(u)'
  <2>1. ASSUME NEW u \in Threads, u # t, th[u].key = k PROVE ~Starter(u) /\ StartOK(u)'
    <3>1. th[u].pc \in {"idle", "next"} /\ ThreadOK(u)
      BY <1>5, <2>1 DEF ThreadOK, IInv, MInv
    <3>2. ~Starter(u)
      BY <3>1 DEF ThreadOK, StartPcs
    <3> QED BY <1>4, <2>1, <3>1, <3>2 DEF StartOK, Starter, Early
  <2> QED BY <2>1
<1>15. \A j \in Keys \ {k} : Same(j)
  BY <1>1, <1>5, <1>6 DEF Same, EvidenceOf, IsActive
<1>16. ManagedTypeOK' /\ ManagerSound'
  BY <1>1, <1>4 DEF ManagedTypeOK, ManagerSound, IInv, MInv
<1> QED BY <1>1, <1>3, <1>4, <1>9, <1>10, <1>12, <1>13, <1>14, <1>15, <1>16, OneRunMoves

\* What the thread of a start knows before it moves.
LEMMA Starting ==
  ASSUME IInv, NEW t \in Threads, th[t].pc \in StartPcs
  PROVE  \E k \in Keys :
           /\ k = th[t].key /\ k \in issued /\ th[t].mode = "start" /\ RunOK(k)
           /\ ThreadOK(t) /\ StartOK(t)
           /\ th[t].pc = "reserved" \/ HostUp(k) => ~Spent(k) /\ IsActive(processes[k])
<1>1. /\ th[t].key \in Keys /\ th[t].key \in issued /\ th[t].mode = "start"
      /\ ThreadOK(t) /\ StartOK(t)
  BY ThreadFields DEF ThreadOK, StartPcs
<1>2. RunOK(th[t].key)
  BY <1>1 DEF IInv, MInv
<1>3. th[t].pc = "reserved" \/ HostUp(th[t].key) => ~Spent(th[t].key)
  BY DEF Spent, HostGone
<1> QED BY <1>1, <1>2, <1>3 DEF RunOK

\* A step of a start that says something to the host.
LEMMA TellsHost ==
  ASSUME IInv, TypeOK', NEW t \in Threads, NEW pc \in {"hosted", "sent", "told"},
         NEW h \in HostStates \ {"none", "exited"},
         th[t].pc \in StartPcs, Goto(t, pc),
         th[t].pc = "reserved" \/ HostUp(th[t].key),
         host' = [host EXCEPT ![th[t].key] = h],
         UNCHANGED <<repoVars, memory, alive, identified, released>>,
         StartOK(t)', pc = "told" => th[t].key \in bound
  PROVE  MInv'
<1> PICK k \in Keys : /\ k = th[t].key /\ k \in issued /\ th[t].mode = "start" /\ RunOK(k)
                      /\ ThreadOK(t) /\ StartOK(t)
                      /\ th[t].pc = "reserved" \/ HostUp(k) => ~Spent(k) /\ IsActive(processes[k])
  BY Starting
<1>0. /\ host \in [Keys -> HostStates]
      /\ UNCHANGED <<processes, issued, backend, manager, past, gate, runs, bound>>
  BY DEF IInv, MInv, ManagedTypeOK, repoVars, memory
<1>1. /\ th' \in [Threads -> Thread] /\ \A u \in Threads \ {t} : th'[u] = th[u]
      /\ th'[t].pc = pc /\ th'[t].mode = th[t].mode /\ th'[t].key = th[t].key
      /\ th'[t].call = th[t].call /\ th'[t].session = th[t].session
      /\ th'[t].seen = th[t].seen /\ th'[t].verified = th[t].verified
  <2>1. pc \in StartPcs \cup FinalizePcs \cup {"running", "next", "idle"}
    BY DEF StartPcs
  <2> QED BY <2>1, GotoGoes
<1>2. /\ host' \in [Keys -> HostStates] /\ host'[k] = h
      /\ \A j \in Keys \ {k} : host'[j] = host[j]
  BY <1>0
<1>3. EvidenceOf(k)' = EvidenceOf(k) /\ IsActive(processes[k])' = IsActive(processes[k])
  BY <1>0 DEF EvidenceOf, IsActive
<1>4. Grows(k)
  BY <1>0, <1>3 DEF Grows
<1>5. RunOK(k)'
  BY <1>0, <1>3 DEF RunOK
<1>6. \A j \in Keys \ {k} : Same(j)
  BY <1>0, <1>2 DEF Same, EvidenceOf, IsActive
<1>7. pc \in StartPcs /\ pc # "reserved" /\ pc \notin {"bound", "full", "running"}
  BY DEF StartPcs
<1> QED BY <1>0, <1>1, <1>2, <1>4, <1>5, <1>6, <1>7, StarterMoves

LEMMA SpawnHostKeepsMInv ==
  ASSUME IInv, TypeOK', NEW t \in Threads, SpawnHost(t)
  PROVE  MInv'
<1>0. /\ th[t].pc \in StartPcs /\ th[t].pc = "reserved" /\ Goto(t, "hosted")
      /\ host' = [host EXCEPT ![th[t].key] = "waiting"]
      /\ UNCHANGED <<repoVars, memory, alive, identified, released>>
  BY DEF SpawnHost, StartPcs
<1> PICK k \in Keys : k = th[t].key /\ th[t].mode = "start" /\ StartOK(t)
  BY <1>0, Starting
<1>1. th'[t].pc = "hosted" /\ th'[t].mode = "start" /\ th'[t].key = k
  BY <1>0, GotoGoes DEF StartPcs
<1>2. host'[k] = "waiting" /\ UNCHANGED <<processes, bound>>
  BY <1>0 DEF repoVars, memory, IInv, MInv, ManagedTypeOK
<1>3. StartOK(t)'
  BY <1>0, <1>1, <1>2 DEF StartOK, Early, EvidenceOf
<1>4. "waiting" \in HostStates \ {"none", "exited"}
  BY DEF HostStates
<1> QED BY <1>0, <1>3, <1>4, TellsHost

LEMMA SendSpecKeepsMInv ==
  ASSUME IInv, TypeOK', NEW t \in Threads, SendSpec(t)
  PROVE  MInv'
<1>0. /\ th[t].pc \in StartPcs /\ th[t].pc = "evidenced" /\ Goto(t, "sent")
      /\ HostUp(th[t].key)
      /\ host' = [host EXCEPT ![th[t].key] = "spec"]
      /\ UNCHANGED <<repoVars, memory, alive, identified, released>>
  BY DEF SendSpec, StartPcs, HostUp
<1> PICK k \in Keys : k = th[t].key /\ th[t].mode = "start" /\ StartOK(t)
  BY <1>0, Starting
<1>1. th'[t].pc = "sent" /\ th'[t].mode = "start" /\ th'[t].key = k
  BY <1>0, GotoGoes DEF StartPcs
<1>2. host'[k] = "spec" /\ UNCHANGED <<processes, bound>>
  BY <1>0 DEF repoVars, memory, IInv, MInv, ManagedTypeOK
<1>3. StartOK(t)'
  BY <1>0, <1>1, <1>2 DEF StartOK, Early, EvidenceOf
<1>4. "spec" \in HostStates \ {"none", "exited"}
  BY DEF HostStates
<1> QED BY <1>0, <1>3, <1>4, TellsHost

LEMMA SendIdentityKeepsMInv ==
  ASSUME IInv, TypeOK', NEW t \in Threads, SendIdentity(t)
  PROVE  MInv'
<1>0. /\ th[t].pc \in StartPcs /\ th[t].pc = "bound" /\ Goto(t, "told")
      /\ HostUp(th[t].key)
      /\ host' = [host EXCEPT ![th[t].key] = "told"]
      /\ UNCHANGED <<repoVars, memory, alive, identified, released>>
  BY DEF SendIdentity, StartPcs, HostUp
<1> PICK k \in Keys : /\ k = th[t].key /\ th[t].mode = "start"
                      /\ ThreadOK(t) /\ StartOK(t)
  BY <1>0, Starting
<1>1. th'[t].pc = "told" /\ th'[t].mode = "start" /\ th'[t].key = k
  BY <1>0, GotoGoes DEF StartPcs
<1>2. host'[k] = "told" /\ UNCHANGED <<processes, bound>> /\ k \in bound
  BY <1>0 DEF repoVars, memory, IInv, MInv, ManagedTypeOK, ThreadOK
<1>3. StartOK(t)'
  BY <1>0, <1>1, <1>2 DEF StartOK, Early, EvidenceOf
<1>4. "told" \in HostStates \ {"none", "exited"}
  BY DEF HostStates
<1> QED BY <1>0, <1>2, <1>3, <1>4, TellsHost

\* A step of a start that leaves the run as it is.
LEMMA StartGoesOn ==
  ASSUME IInv, TypeOK', NEW t \in Threads,
         NEW pc \in {"owned", "clean"}, NEW mode \in {"start", "host"},
         th[t].pc \in StartPcs,
         Moves(t, pc, mode), mode = "host" => pc = "clean",
         UNCHANGED <<repoVars, memory, world>>,
         StartOK(t)'
  PROVE  MInv'
<1> PICK k \in Keys : k = th[t].key
  BY Starting
<1>0. /\ host \in [Keys -> HostStates]
      /\ UNCHANGED <<processes, issued, backend, manager, past, gate, runs, bound, host, alive,
                     identified, released>>
  BY DEF IInv, MInv, ManagedTypeOK, repoVars, memory, world
<1>1. /\ th' \in [Threads -> Thread] /\ \A u \in Threads \ {t} : th'[u] = th[u]
      /\ th'[t].pc = pc /\ th'[t].mode = mode /\ th'[t].key = th[t].key
      /\ th'[t].call = th[t].call /\ th'[t].session = th[t].session
      /\ th'[t].seen = th[t].seen /\ th'[t].verified = th[t].verified
  <2>1. pc \in StartPcs \cup FinalizePcs \cup {"running", "next", "idle"} /\ mode \in Modes
    BY DEF StartPcs, FinalizePcs, Modes
  <2> QED BY <2>1, Goes
<1>2. \A j \in Keys : Same(j)
  BY <1>0, RunsKept
<1>3. NotReserved(k)
  BY <1>1 DEF NotReserved
<1>4. Grows(k) /\ RunOK(k)'
  BY <1>0, <1>2, <1>3, SameRun
<1>5. pc \in StartPcs \cup {"running", "clean"}
      /\ pc \notin {"bound", "told", "full", "running", "reserved"}
  BY DEF StartPcs
<1> QED BY <1>0, <1>1, <1>2, <1>4, <1>5, StarterMoves

LEMMA CreateOwnerKeepsMInv ==
  ASSUME IInv, TypeOK', NEW t \in Threads, CreateOwner(t)
  PROVE  MInv'
<1>0. /\ th[t].pc \in StartPcs /\ th[t].pc = "hosted" /\ Goto(t, "owned")
      /\ UNCHANGED <<repoVars, memory, world>>
  BY DEF CreateOwner, StartPcs
<1> PICK k \in Keys : k = th[t].key /\ th[t].mode = "start" /\ StartOK(t)
  BY <1>0, Starting
<1>1. /\ th'[t].pc = "owned" /\ th'[t].mode = "start" /\ th'[t].key = k
  BY <1>0, GotoGoes DEF StartPcs
<1>2. Moves(t, "owned", "start")
  <2>1. th \in [Threads -> Thread] /\ th[t] \in Thread
    BY DEF IInv, MInv, ManagedTypeOK
  <2>2. [th[t] EXCEPT !.pc = "owned"] = [th[t] EXCEPT !.pc = "owned", !.mode = "start"]
    BY <2>1 DEF Thread
  <2>3. th' = [th EXCEPT ![t] = [th[t] EXCEPT !.pc = "owned"]]
    BY <1>0, <2>1 DEF Goto
  <2> QED BY <2>2, <2>3 DEF Moves
<1>3. StartOK(t)'
  BY <1>0, <1>1 DEF StartOK, Early, EvidenceOf, repoVars, memory, world
<1> QED BY <1>0, <1>2, <1>3, StartGoesOn

LEMMA FailStartKeepsMInv ==
  ASSUME IInv, TypeOK', NEW t \in Threads, FailStart(t)
  PROVE  MInv'
<1> DEFINE mode == IF th[t].pc \in {"reserved", "hosted"} THEN "host" ELSE "start"
<1>0. /\ th[t].pc \in StartPcs
      /\ Moves(t, "clean", mode)
      /\ UNCHANGED <<repoVars, memory, world>>
      /\ UNCHANGED <<processes, bound, host, alive, identified>>
  BY DEF FailStart, Failed, Moves, repoVars, memory, world, IInv, MInv, ManagedTypeOK
<1>1. mode \in {"start", "host"} /\ (mode = "host" => th[t].pc \in Early)
  BY DEF Early
<1> HIDE DEF mode
<1> PICK k \in Keys : k = th[t].key /\ th[t].mode = "start" /\ StartOK(t)
  BY <1>0, Starting
<1>2. th'[t].pc = "clean" /\ th'[t].mode = mode /\ th'[t].key = k
  BY <1>0, <1>1, Goes DEF FinalizePcs, Modes
<1>3. StartOK(t)'
  BY <1>0, <1>1, <1>2 DEF StartOK, Early, EvidenceOf
<1> QED BY <1>0, <1>1, <1>3, StartGoesOn

LEMMA BindTargetKeepsMInv ==
  ASSUME IInv, TypeOK', NEW t \in Threads, BindTarget(t)
  PROVE  MInv'
<1> DEFINE pc == IF "leader" \in alive[th[t].key] THEN "bound" ELSE "clean"
<1>0. /\ th[t].pc \in StartPcs /\ th[t].pc = "sent" /\ host[th[t].key] = "asking"
      /\ HostUp(th[t].key)
      /\ bound' = bound \cup {th[t].key}
      /\ UNCHANGED <<repoVars, backend, manager, past, gate, runs, world>>
  BY DEF BindTarget, StartPcs, HostUp
<1> PICK k \in Keys : /\ k = th[t].key /\ k \in issued /\ th[t].mode = "start" /\ RunOK(k)
                      /\ StartOK(t)
                      /\ th[t].pc = "reserved" \/ HostUp(k) => ~Spent(k) /\ IsActive(processes[k])
  BY <1>0, Starting
<1>1. Moves(t, pc, "start")
  <2>1. th \in [Threads -> Thread] /\ th[t] \in Thread
    BY DEF IInv, MInv, ManagedTypeOK
  <2>2. [th[t] EXCEPT !.pc = "bound"] = [th[t] EXCEPT !.pc = "bound", !.mode = "start"]
    BY <2>1 DEF Thread
  <2>3. th' = IF "leader" \in alive[k]
              THEN [th EXCEPT ![t] = [th[t] EXCEPT !.pc = "bound"]]
              ELSE [th EXCEPT ![t] = [th[t] EXCEPT !.pc = "clean", !.mode = "start"]]
    BY <2>1 DEF BindTarget, Failed
  <2> QED BY <2>2, <2>3 DEF Moves
<1>2. pc \in {"bound", "clean"}
  OBVIOUS
<1> HIDE DEF pc
<1>3. /\ th' \in [Threads -> Thread] /\ \A u \in Threads \ {t} : th'[u] = th[u]
      /\ th'[t].pc = pc /\ th'[t].mode = "start" /\ th'[t].key = th[t].key
      /\ th'[t].call = th[t].call /\ th'[t].session = th[t].session
      /\ th'[t].seen = th[t].seen /\ th'[t].verified = th[t].verified
  <2>1. pc \in StartPcs \cup FinalizePcs \cup {"running", "next", "idle"} /\ "start" \in Modes
    BY <1>2 DEF StartPcs, FinalizePcs, Modes
  <2> QED BY <1>1, <2>1, Goes
<1>4. /\ UNCHANGED <<processes, issued, host, alive, identified, released>>
      /\ bound' = bound \cup {k} /\ host \in [Keys -> HostStates]
  BY <1>0 DEF repoVars, world, IInv, MInv, ManagedTypeOK
<1>5. Grows(k)
  BY <1>0, <1>4 DEF Grows, EvidenceOf
<1>6. RunOK(k)'
  BY <1>0, <1>4 DEF RunOK, IsActive
<1>7. StartOK(t)'
  BY <1>2, <1>3, <1>4 DEF StartOK, Early
<1>8. \A j \in Keys \ {k} : Same(j)
  BY <1>4 DEF Same, EvidenceOf, IsActive
<1>9. pc \in StartPcs \cup {"running", "clean"} /\ pc \notin {"full", "running", "reserved"}
  BY <1>2 DEF StartPcs
<1> QED BY <1>0, <1>3, <1>4, <1>5, <1>6, <1>7, <1>8, <1>9, StarterMoves

\* A step of a start that updates the record.
LEMMA StartUpdates ==
  ASSUME IInv, TypeOK', NEW t \in Threads,
         NEW from, NEW to \in {"evidenced", "full", "running"},
         NEW status \in ActiveStates, NEW evidence \in {"host", "full"},
         StartUpdate(t, from, to, status, evidence), th[t].pc \in StartPcs,
         th[t].pc # "reserved",
         EvidenceOf(th[t].key) = "full" => evidence = "full",
         HostUp(th[t].key) \/ th[t].key \in identified,
         to # "evidenced" => th[t].key \in bound /\ th[t].key \in identified,
         StartOK(t)'
  PROVE  MInv'
<1> PICK k \in Keys : /\ k = th[t].key /\ k \in issued /\ th[t].mode = "start" /\ RunOK(k)
                      /\ ThreadOK(t) /\ StartOK(t)
                      /\ th[t].pc = "reserved" \/ HostUp(k) => ~Spent(k) /\ IsActive(processes[k])
  BY Starting
<1>0. /\ UpdateActive(k, status, evidence, processes[k].claim, {})
      /\ Goto(t, to)
      /\ UNCHANGED <<backend, manager, past, gate, runs, bound, host, alive, identified, released>>
      /\ host \in [Keys -> HostStates]
  BY DEF StartUpdate, memory, world, IInv, MInv, ManagedTypeOK
<1>1. /\ th' \in [Threads -> Thread] /\ \A u \in Threads \ {t} : th'[u] = th[u]
      /\ th'[t].pc = to /\ th'[t].mode = th[t].mode /\ th'[t].key = th[t].key
      /\ th'[t].call = th[t].call /\ th'[t].session = th[t].session
      /\ th'[t].seen = th[t].seen /\ th'[t].verified = th[t].verified
  <2>1. to \in StartPcs \cup FinalizePcs \cup {"running", "next", "idle"}
    BY DEF StartPcs
  <2> QED BY <1>0, <2>1, GotoGoes
<1>2. processes[k].claim \in Claim \cup {NoClaim} /\ {} \in SUBSET Readers /\ evidence \in Evidence
  <2>1. processes[k] # NoRecord /\ processes[k] \in Record \cup {NoRecord}
    BY <1>0 DEF UpdateActive, IInv, SInv, TInv, TypeOK
  <2> QED BY <2>1, RecordFields DEF Evidence
<1>3. /\ IsActive(processes[k]) /\ IsActive(processes'[k])
      /\ processes[k] # NoRecord /\ processes'[k] # NoRecord
      /\ EvidenceOf(k)' = evidence
      /\ \A j \in Keys \ {k} : processes'[j] = processes[j]
      /\ issued' = issued
  BY <1>0, <1>2, UpdateRun DEF IInv
<1>4. Spent(k) => Spent(k)'
  BY <1>0, <1>1 DEF Spent, HostGone, HostUp, InGroup
<1>5. Grows(k)
  BY <1>0, <1>3, <1>4 DEF Grows
<1>6. RunOK(k)'
  BY <1>3 DEF RunOK, IsActive
<1>7. \A j \in Keys \ {k} : Same(j)
  BY <1>0, <1>3 DEF Same, EvidenceOf, IsActive
<1>8. to \in StartPcs \cup {"running", "clean"} /\ to \notin {"bound", "told", "reserved"}
  BY DEF StartPcs
<1> QED BY <1>0, <1>1, <1>5, <1>6, <1>7, <1>8, StarterMoves

LEMMA CommitStartKeepsMInv ==
  ASSUME IInv, TypeOK', NEW t \in Threads,
         CommitOwner(t) \/ CommitTarget(t) \/ CommitRunning(t)
  PROVE  MInv'
<1>0. ASSUME NEW from \in StartPcs, NEW to \in {"evidenced", "full", "running"},
             NEW status \in ActiveStates, NEW evidence \in {"host", "full"},
             StartUpdate(t, from, to, status, evidence)
      PROVE  /\ th[t].pc = from /\ th[t].pc \in StartPcs
             /\ th[t].key \in Keys /\ EvidenceOf(th[t].key)' = evidence
             /\ th'[t].pc = to /\ th'[t].mode = "start" /\ th[t].mode = "start"
             /\ th'[t].key = th[t].key
             /\ UNCHANGED <<bound, host, alive, identified>>
  <2>1. th[t].pc = from /\ Goto(t, to) /\ UNCHANGED <<bound, host, alive, identified>>
    BY <1>0 DEF StartUpdate, memory, world
  <2>2. th[t].key \in Keys /\ th[t].mode = "start"
    BY <2>1, Starting
  <2>3. to \in StartPcs \cup FinalizePcs \cup {"running", "next", "idle"}
    BY DEF StartPcs
  <2>4. th'[t].pc = to /\ th'[t].mode = "start" /\ th'[t].key = th[t].key
    BY <2>1, <2>2, <2>3, GotoGoes
  <2>5. EvidenceOf(th[t].key)' = evidence
    <3>1. UpdateActive(th[t].key, status, evidence, processes[th[t].key].claim, {})
      BY <1>0 DEF StartUpdate
    <3>2. processes[th[t].key] # NoRecord /\ processes[th[t].key] \in Record \cup {NoRecord}
      BY <2>2, <3>1 DEF UpdateActive, IInv, SInv, TInv, TypeOK
    <3>3. processes[th[t].key].claim \in Claim \cup {NoClaim} /\ evidence \in Evidence
          /\ {} \in SUBSET Readers
      BY <3>2, RecordFields DEF Evidence
    <3>4. PICK k \in Keys : k = th[t].key
      BY <2>2
    <3>5. EvidenceOf(k)' = evidence
      BY <3>1, <3>3, <3>4, UpdateRun DEF IInv
    <3> QED BY <2>1, <2>2, <2>4, <3>4, <3>5 DEF EvidenceOf
  <2> QED BY <2>1, <2>2, <2>4, <2>5
<1>a. {"starting", "running"} \subseteq ActiveStates /\ {"owned", "told", "full"} \subseteq StartPcs
  BY DEF ActiveStates, StartPcs
<1>1. CASE CommitOwner(t)
  <2>1. StartUpdate(t, "owned", "evidenced", "starting", "host") /\ HostUp(th[t].key)
    BY <1>1 DEF CommitOwner
  <2>2. /\ th[t].pc = "owned" /\ th[t].pc \in StartPcs /\ th[t].mode = "start"
        /\ th[t].key \in Keys /\ EvidenceOf(th[t].key)' = "host"
        /\ th'[t].pc = "evidenced" /\ th'[t].mode = "start" /\ th'[t].key = th[t].key
        /\ UNCHANGED <<bound, host, alive, identified>>
    BY <1>0, <1>a, <2>1
  <2> PICK k \in Keys : k = th[t].key /\ k = th'[t].key
    BY <2>2
  <2>4. EvidenceOf(k)' = "host"
    BY <2>2 DEF EvidenceOf
  <2>5. StartOK(t)
    BY DEF IInv, MInv
  <2>6. EvidenceOf(th[t].key) = "none"
    BY <2>2, <2>5 DEF StartOK, Early
  <2>7. StartOK(t)'
    BY <2>2, <2>4, <2>5 DEF StartOK, Early
  <2> QED BY <1>a, <2>1, <2>2, <2>6, <2>7, StartUpdates
<1>2. ASSUME NEW from \in {"told", "full"}, NEW to \in {"full", "running"},
             NEW status \in {"starting", "running"},
             StartUpdate(t, from, to, status, "full"), th[t].key \in identified
      PROVE  MInv'
  <2>1. /\ th[t].pc = from /\ th[t].pc \in StartPcs /\ th[t].mode = "start"
        /\ th[t].key \in Keys /\ EvidenceOf(th[t].key)' = "full"
        /\ th'[t].pc = to /\ th'[t].mode = "start" /\ th'[t].key = th[t].key
        /\ UNCHANGED <<bound, host, alive, identified>>
    BY <1>0, <1>a, <1>2
  <2>2. th[t].key \in bound
    BY <2>1 DEF ThreadOK, IInv, MInv
  <2>3. StartOK(t)'
    BY <2>1, <2>2 DEF StartOK, Early
  <2> QED BY <1>2, <1>a, <2>1, <2>2, <2>3, StartUpdates
<1>3. CASE CommitTarget(t)
  BY <1>2, <1>3 DEF CommitTarget
<1>4. CASE CommitRunning(t)
  <2>1. StartUpdate(t, "full", "running", "running", "full")
    BY <1>4 DEF CommitRunning
  <2>2. th[t].key \in identified
    BY <2>1 DEF StartUpdate, ThreadOK, IInv, MInv
  <2> QED BY <1>2, <2>1, <2>2
<1> QED BY <1>1, <1>3, <1>4

LEMMA StartKeepsMInv ==
  ASSUME IInv, TypeOK', NEW t \in Threads, StartStep(t)
  PROVE  MInv'
BY SpawnHostKeepsMInv, CreateOwnerKeepsMInv, CommitStartKeepsMInv, SendSpecKeepsMInv,
   BindTargetKeepsMInv, SendIdentityKeepsMInv, RegisterKeepsMInv, FailStartKeepsMInv
   DEF StartStep

--------------------------------------------------------------------------------
(* The other steps, and the invariant.                                       *)

\* A step that is one of the repository only.
LEMMA RepositoryOnlyKeepsMInv ==
  ASSUME IInv, TypeOK', UNCHANGED <<memory, th, world>>, \A j \in Keys : Same(j)
  PROVE  MInv'
<1>1. /\ UNCHANGED <<th, backend, manager, past, gate, runs, bound, host, alive, identified,
                     released>>
  BY DEF memory, world
<1>2. \A j \in Keys : NotReserved(j)
  BY <1>1 DEF NotReserved
<1>3. \A j \in Keys : /\ Grows(j) /\ RunOK(j)'
                      /\ \A u \in Threads : th'[u] = th[u] /\ th[u].key = j => StartOK(u)'
  BY <1>1, <1>2, SameRun
<1>4. \A u \in Threads : ThreadOK(u)'
  BY <1>1, <1>3, OtherThread
<1>5. \A u \in Threads : StartOK(u)'
  <2>1. ASSUME NEW u \in Threads, th[u].key \notin Keys PROVE StartOK(u)'
    BY <1>1, <2>1 DEF StartOK
  <2> QED BY <1>1, <1>3, <2>1
<1>6. ManagedTypeOK' /\ ManagerSound' /\ OneStarter'
  BY <1>1 DEF ManagedTypeOK, ManagerSound, OneStarter, Starter, IInv, MInv
<1> QED BY <1>3, <1>4, <1>5, <1>6 DEF MInv

LEMMA ExpireClaimKeepsMInv ==
  ASSUME IInv, TypeOK', NEW k \in Keys, ExpireClaim(k), UNCHANGED <<memory, th, world>>
  PROVE  MInv'
<1>1. processes[k] \in Record /\ processes \in [Keys -> Record \cup {NoRecord}]
  BY DEF ExpireClaim, IInv, SInv, TInv, TypeOK
<1>2. /\ processes'[k] = [processes[k] EXCEPT !.claim = processes'[k].claim]
      /\ \A j \in Keys \ {k} : processes'[j] = processes[j]
      /\ issued' = issued
  BY <1>1 DEF ExpireClaim
<1>3. processes'[k].status = processes[k].status /\ processes'[k].evidence = processes[k].evidence
  BY <1>1, <1>2 DEF Record
<1>4. processes[k] # NoRecord /\ processes'[k] # NoRecord
  <2>1. processes'[k] \in Record \cup {NoRecord}
    BY DEF TypeOK
  <2>2. processes[k].status \in ActiveStates \cup {"terminal"} /\ NoRecord.status = "absent"
    BY <1>1 DEF Record, NoRecord
  <2> QED BY <1>3, <2>2 DEF ActiveStates
<1>5. UNCHANGED <<host, alive, identified, bound>>
  BY DEF memory, world
<1>6. \A j \in Keys : Same(j)
  BY <1>2, <1>3, <1>4, <1>5 DEF Same, EvidenceOf, IsActive
<1> QED BY <1>6, RepositoryOnlyKeepsMInv

LEMMA OpenSessionKeepsMInv ==
  ASSUME IInv, TypeOK', NEW i \in Sessions, OpenSession(i, manager),
         UNCHANGED <<memory, th, world>>
  PROVE  MInv'
<1>1. /\ UNCHANGED <<processes, host, alive, identified, bound>>
      /\ issued' = issued \cup {i}
  BY DEF OpenSession, memory, world
<1>2. \A j \in Keys : (j \in issued') = (j \in issued)
  BY <1>1, DisjointAssumption
<1>3. \A j \in Keys : Same(j)
  BY <1>1, <1>2 DEF Same, EvidenceOf, IsActive
<1> QED BY <1>3, RepositoryOnlyKeepsMInv

\* A crash forgets what the threads knew; nothing else relied on it.
LEMMA CrashKeepsMInv ==
  ASSUME IInv, TypeOK', Crash
  PROVE  MInv'
<1>1. /\ manager' = None /\ gate' = FALSE /\ runs' = {} /\ bound' = {}
      /\ th' = [t \in Threads |-> Idle]
      /\ UNCHANGED <<processes, issued, backend, past, host, alive, identified, released>>
  BY DEF Crash, world
<1>2. Idle \in Thread
  BY DEF Idle, Calls, Thread, Modes, Evidence
<1>3. \A t \in Threads : /\ th'[t].pc = "idle" /\ th'[t].mode = "live" /\ th'[t].seen = "none"
                         /\ th'[t].verified = FALSE /\ th'[t].call = "run"
  BY <1>1 DEF Idle, Calls
<1>4. \A t \in Threads : ThreadOK(t)' /\ StartOK(t)' /\ ~Starter(t)'
  BY <1>3 DEF ThreadOK, StartOK, Starter, StartPcs, FinalizePcs, Early
<1>5. \A k \in Keys : RunOK(k)'
  <2>1. \A k \in Keys : Spent(k) => Spent(k)'
    BY <1>1, <1>3 DEF Spent, HostGone, HostUp, InGroup, EvidenceOf
  <2> QED BY <1>1, <2>1 DEF RunOK, IsActive, IInv, MInv
<1>6. ManagedTypeOK' /\ ManagerSound'
  BY <1>1, <1>2 DEF ManagedTypeOK, ManagerSound, IInv, MInv
<1> QED BY <1>4, <1>5, <1>6 DEF MInv, OneStarter

LEMMA IInvInit == ManagedInit => IInv
<1> SUFFICES ASSUME ManagedInit PROVE IInv
  OBVIOUS
<1>1. Init
  BY DEF ManagedInit
<1>2. TInv /\ StateValid
  BY <1>1, SInvInit DEF SInv
<1>3. /\ manager = None /\ past = {} /\ gate = FALSE /\ runs = {} /\ bound = {}
      /\ th = [t \in Threads |-> Idle] /\ backend \in Backends
      /\ host = [k \in Keys |-> "none"] /\ alive = [k \in Keys |-> {}]
      /\ identified = {} /\ released = {}
  BY DEF ManagedInit
<1>4. Idle \in Thread
  BY DEF Idle, Calls, Thread, Modes, Evidence
<1>5. \A t \in Threads : /\ th[t].pc = "idle" /\ th[t].mode = "live" /\ th[t].seen = "none"
                         /\ th[t].verified = FALSE /\ th[t].call = "run"
  BY <1>3 DEF Idle, Calls
<1>6. \A t \in Threads : ThreadOK(t) /\ StartOK(t) /\ ~Starter(t)
  BY <1>5 DEF ThreadOK, StartOK, Starter, StartPcs, FinalizePcs, Early
<1>7. \A k \in Keys : RunOK(k)
  BY <1>1, <1>3 DEF RunOK, Init
<1>8. ManagedTypeOK /\ ManagerSound
  BY <1>2, <1>3, <1>4 DEF ManagedTypeOK, ManagerSound, HostStates, TInv
<1> QED BY <1>2, <1>6, <1>7, <1>8 DEF IInv, MInv, OneStarter, SInv

LEMMA IInvStep == IInv /\ [ManagedNext]_vars => IInv'
<1> SUFFICES ASSUME IInv, [ManagedNext]_vars PROVE IInv'
  OBVIOUS
<1>0. SInv' /\ TypeOK'
  <2>1. SInv'
    BY StepUsesRepository, RepositoryStepKeepsSInv DEF IInv
  <2> QED BY <2>1 DEF SInv, TInv
<1>1. ASSUME NEW t \in Threads, ThreadStep(t) PROVE MInv'
  BY <1>0, <1>1, StartKeepsMInv, FinalizeKeepsMInv, FinishCloseKeepsMInv, OpenGateKeepsMInv,
     NextRunKeepsMInv, SkipRunKeepsMInv DEF ThreadStep
<1>2. ASSUME NEW t \in Threads, NewCall(t) PROVE MInv'
  BY <1>0, <1>2, FinalizeRunKeepsMInv, StartRunKeepsMInv, CloseSessionKeepsMInv DEF NewCall
<1>3. ASSUME NEW t \in Threads, NEW m \in Instances, Boot(m, t) PROVE MInv'
  BY <1>0, <1>3, BootKeepsMInv
<1>4. ASSUME NEW k \in Keys, HostStep(k) \/ TargetStep(k) PROVE MInv'
  BY <1>0, <1>4, HostKeepsMInv, TargetKeepsMInv
<1>5. ASSUME NEW k \in Keys, ExpireClaim(k), UNCHANGED <<memory, th, world>> PROVE MInv'
  BY <1>0, <1>5, ExpireClaimKeepsMInv
<1>6. ASSUME NEW i \in Sessions, OpenSession(i, manager), UNCHANGED <<memory, th, world>>
      PROVE  MInv'
  BY <1>0, <1>6, OpenSessionKeepsMInv
<1>7. CASE Crash
  BY <1>0, <1>7, CrashKeepsMInv DEF IInv
<1>8. CASE UNCHANGED vars
  <2>1. UNCHANGED <<processes, issued, host, alive, identified, bound>>
        /\ UNCHANGED <<memory, th, world>>
    BY <1>8 DEF vars, repoVars, memory, world
  <2> QED BY <1>0, <2>1, RunsKept, RepositoryOnlyKeepsMInv DEF IInv
<1> QED BY <1>0, <1>1, <1>2, <1>3, <1>4, <1>5, <1>6, <1>7, <1>8 DEF ManagedNext, IInv

LEMMA IInvAlways == ManagedSpec => []IInv
BY IInvInit, IInvStep, PTL DEF ManagedSpec

--------------------------------------------------------------------------------
(* What the invariant says of processes.                                     *)

\* A run that is spent has no process its owner answers for ...
LEMMA SpentIsEmpty ==
  ASSUME NEW k \in Keys, Spent(k)
  PROVE  ~Populated(k)
BY DEF Spent, Populated, ProcessesGone, HostGone, EvidenceOf

\* ... so that only an active run has one.
LEMMA PopulatedIsActive ==
  ASSUME IInv, NEW k \in Keys, Populated(k)
  PROVE  k \in issued /\ processes[k] # NoRecord /\ IsActive(processes[k])
<1>1. RunOK(k)
  BY DEF IInv, MInv
<1>2. CASE k \in issued
  BY <1>1, <1>2, SpentIsEmpty DEF RunOK
<1>3. CASE k \notin issued
  BY <1>1, <1>3 DEF RunOK, Populated, ProcessesGone, HostUp, InGroup
<1> QED BY <1>2, <1>3

\* A start that is given up, lost or raced leaves no process behind once its session
\* is closed (manager.py _start, sessions.py _finalize), whatever the manager, its
\* threads and its crashes do.
THEOREM SessionsLeaveNothing == ManagedSpec => []ClosedSessionsClean
<1>1. IInv => ClosedSessionsClean
  <2> SUFFICES ASSUME IInv, NEW i \in Sessions \cap tombstones, NEW k \in Keys,
                      processes[k] # NoRecord, processes[k].owner = i, Populated(k)
               PROVE  FALSE
    BY DEF ClosedSessionsClean, IInv, MInv
  <2>1. IsActive(processes[k]) /\ i # None
    BY PopulatedIsActive, NoneAssumption
  <2>2. sessions[i].state \in SessionActiveStates /\ sessions[i] = NoSession
    BY <2>1 DEF IInv, SInv, StateValid, ValidState, OwnershipValid, ResourcesValid
  <2> QED BY <2>2 DEF NoSession, SessionActiveStates
<1> QED BY <1>1, IInvAlways, PTL

\* With cgroups whatever still runs of a run's processes, strays included, the
\* repository has an active record for (service-schema.md:141; finalization.py,
\* cgroup_v2.py).  The process group can not promise it.
THEOREM CgroupsLeaveNoOrphans == ManagedSpec => [](backend = "cgroup" => NoOrphans)
<1>1. IInv => (backend = "cgroup" => NoOrphans)
  BY PopulatedIsActive DEF NoOrphans, Populated
<1> QED BY <1>1, IInvAlways, PTL

--------------------------------------------------------------------------------
(* The manager uses the repository by its operations.                        *)

LEMMA RepositoryCardinality == ASSUME NEW S PROVE Repository!Cardinality(S) = Cardinality(S)
BY DEF Repository!Cardinality, Cardinality

LEMMA RepositoryTerms ==
  /\ Repository!ActiveStates = ActiveStates /\ Repository!Evidence = Evidence
  /\ Repository!SessionActiveStates = SessionActiveStates
  /\ Repository!NoRecord = NoRecord /\ Repository!NoJournal = NoJournal
  /\ Repository!NoClaim = NoClaim /\ Repository!NoSession = NoSession
  /\ Repository!NoFence = NoFence
  /\ Repository!ActiveKeys = ActiveKeys
  /\ Repository!ActiveSessionIds = ActiveSessionIds
BY DEF Repository!ActiveStates, Repository!Evidence, Repository!SessionActiveStates,
       Repository!NoRecord, Repository!NoJournal, Repository!NoClaim, Repository!NoSession,
       Repository!NoFence, Repository!ActiveKeys, Repository!ActiveSessionIds,
       Repository!IsActive, ActiveStates, Evidence, SessionActiveStates, NoRecord, NoJournal,
       NoClaim, NoSession, NoFence, ActiveKeys, ActiveSessionIds, IsActive

LEMMA RepositoryReserve ==
  ASSUME NEW k \in Keys, NEW i \in Sessions \cup {None}, NEW m \in Instances, Reserve(k, i, m)
  PROVE  Repository!Reserve(k, i, m)
BY RepositoryTerms, RepositoryCardinality
DEF Reserve, Repository!Reserve, IntakeOpen, Repository!IntakeOpen, SessionAccepts,
    Repository!SessionAccepts, NewRecord, Repository!NewRecord, NoClaim, history,
    Repository!history

LEMMA RepositoryUpdate ==
  ASSUME NEW k \in Keys, NEW status, NEW evidence, NEW claim, NEW remembering,
         UpdateActive(k, status, evidence, claim, remembering)
  PROVE  Repository!UpdateActive(k, status, evidence, claim, {})
<1> DEFINE record == [processes[k] EXCEPT !.status = status, !.evidence = evidence,
                                          !.claim = claim]
<1>1. Repository!Validated(k, record)
  BY DEF UpdateActive, Validated, Repository!Validated, ValidState, Repository!ValidState,
     IndexValid, Repository!IndexValid, OwnershipValid, Repository!OwnershipValid,
     ResourcesValid, Repository!ResourcesValid, IsActive, Repository!IsActive, ActiveStates,
     Repository!ActiveStates, SessionActiveStates, Repository!SessionActiveStates,
     NoClaim, Repository!NoClaim, NoRecord, Repository!NoRecord, NoSession,
     Repository!NoSession
<1>2. [[j \in Keys |-> {}] EXCEPT ![k] = {}] = [j \in Keys |-> {}]
  OBVIOUS
<1> QED BY <1>1, <1>2, RepositoryTerms
        DEF UpdateActive, Repository!UpdateActive, IsActive, Repository!IsActive,
            history, Repository!history

LEMMA RepositoryCommit ==
  ASSUME NEW k \in Keys, NEW id \in ClaimIds, NEW completed \in BOOLEAN,
         CommitFinalization(k, id, completed)
  PROVE  Repository!CommitFinalization(k, id, completed)
<1>1. CASE ~completed
  BY <1>1, RepositoryUpdate, RepositoryTerms
  DEF CommitFinalization, Repository!CommitFinalization, CommitPending,
      Repository!CommitPending, HoldsClaim, Repository!HoldsClaim
<1>2. CASE completed
  <2>1. [[j \in Keys |-> {}] EXCEPT ![k] = {}] = [j \in Keys |-> {}]
    OBVIOUS
  <2> QED BY <1>2, <2>1, RepositoryTerms
  DEF CommitFinalization, Repository!CommitFinalization, CommitTerminal,
      Repository!CommitTerminal, HoldsClaim, Repository!HoldsClaim, DropRunKey,
      Repository!DropRunKey, NextGeneration, Repository!NextGeneration, history,
      Repository!history
<1> QED BY <1>1, <1>2

LEMMA RepositoryFinish ==
  ASSUME NEW i \in Sessions, FinishSession(i)
  PROVE  Repository!FinishSession(i)
<1>1. CASE SessionEmpty(i) /\ Compact({i})
  <2>1. Repository!AddTombstones({i})
    BY <1>1, RepositoryTerms, RepositoryCardinality
    DEF Compact, AddTombstones, Repository!AddTombstones, Forgettable, Repository!Forgettable
  <2> QED BY <1>1, <2>1, RepositoryTerms, RepositoryCardinality
  DEF FinishSession, Repository!FinishSession, SessionEmpty, Repository!SessionEmpty,
      Compact, Repository!Compact
<1>2. CASE ~SessionEmpty(i)
  BY <1>2, RepositoryTerms
  DEF FinishSession, Repository!FinishSession, SessionEmpty, Repository!SessionEmpty,
      SetClosing, Repository!SetClosing, history, Repository!history
<1> QED BY <1>1, <1>2 DEF FinishSession

LEMMA RepositoryStepIsNext ==
  ASSUME IInv, RepositoryStep
  PROVE  [Stutters \/ Repository!Next]_(Repository!repoVars)
<1>1. CASE Quiet
  BY <1>1 DEF Quiet, Repository!repoVars, history, Repository!history
<1>2. ASSUME NEW k \in Keys, NEW i \in Sessions \cup {None}, NEW m \in Instances,
             Reserve(k, i, m)
      PROVE  Repository!Next
  BY <1>2, RepositoryReserve DEF Repository!Next, Repository!RunStep
<1>3. ASSUME NEW k \in Keys, NEW status \in ActiveStates, NEW evidence \in Evidence,
             NEW remembering \in SUBSET Readers, processes[k] # NoRecord,
             UpdateActive(k, status, evidence, processes[k].claim, remembering)
      PROVE  Repository!Next
  <2>1. Repository!UpdateActive(k, status, evidence, processes[k].claim, {})
    BY <1>3, RepositoryUpdate
  <2> QED BY <1>3, <2>1, RepositoryTerms DEF Repository!Next, Repository!RunStep
<1>4. ASSUME NEW k \in Keys, NEW id \in ClaimIds, NEW m \in Instances,
             NEW inspected \in BOOLEAN, NEW remembering \in SUBSET Readers,
             ClaimFinalization(k, id, m, inspected, remembering)
      PROVE  Repository!Next
  <2>1. Repository!UpdateActive(k, "terminating", processes[k].evidence,
                                [id |-> id, by |-> m, expired |-> FALSE], {})
    BY <1>4, RepositoryUpdate DEF ClaimFinalization
  <2>2. Repository!ClaimFinalization(k, id, m, inspected, {})
    BY <1>4, <2>1
    DEF ClaimFinalization, Repository!ClaimFinalization, ClaimShared, Repository!ClaimShared,
        ClaimAvailable, Repository!ClaimAvailable, IsActive, Repository!IsActive,
        ActiveStates, Repository!ActiveStates, NoClaim, Repository!NoClaim
  <2> QED BY <2>2 DEF Repository!Next, Repository!RunStep
<1>5. ASSUME NEW k \in Keys, ExpireClaim(k) PROVE Repository!Next
  <2>1. Repository!ExpireClaim(k)
    BY <1>5, RepositoryTerms
    DEF ExpireClaim, Repository!ExpireClaim, history, Repository!history
  <2> QED BY <2>1 DEF Repository!Next, Repository!RunStep
<1>6. ASSUME NEW k \in Keys, NEW id \in ClaimIds, NEW completed \in BOOLEAN,
             CommitFinalization(k, id, completed)
      PROVE  Repository!Next
  BY <1>6, RepositoryCommit DEF Repository!Next, Repository!RunStep
<1>7. ASSUME NEW i \in Sessions, NEW m \in Instances, OpenSession(i, m) PROVE Repository!Next
  <2>1. Repository!OpenSession(i, m)
    BY <1>7, RepositoryTerms, RepositoryCardinality
    DEF OpenSession, Repository!OpenSession, IntakeOpen, Repository!IntakeOpen, history,
        Repository!history
  <2> QED BY <2>1 DEF Repository!Next, Repository!SessionStep
<1>8. ASSUME NEW i \in Sessions, CloseRequest(i) \/ ExpireSession(i) PROVE Repository!Next
  <2>1. Repository!CloseRequest(i) \/ Repository!ExpireSession(i)
    BY <1>8
    DEF CloseRequest, Repository!CloseRequest, ExpireSession, Repository!ExpireSession,
        SetClosing, Repository!SetClosing, history, Repository!history
  <2> QED BY <2>1 DEF Repository!Next, Repository!SessionStep
<1>9. ASSUME NEW i \in Sessions, FinishSession(i) PROVE Repository!Next
  BY <1>9, RepositoryFinish DEF Repository!Next, Repository!SessionStep
<1> QED BY <1>1, <1>2, <1>3, <1>4, <1>5, <1>6, <1>7, <1>8, <1>9 DEF RepositoryStep

\* The threads change the repository by its own operations only (start, finalization,
\* sessions.py against state.py), so that every theorem about RunRepository holds of
\* the runs of a manager.
THEOREM RunsUseTheRepository == ManagedSpec => UsesRepository
<1>1. ManagedInit => Repository!Init
  BY RepositoryTerms DEF ManagedInit, Init, Repository!Init
<1>2. IInv /\ [ManagedNext]_vars => [Stutters \/ Repository!Next]_(Repository!repoVars)
  BY StepUsesRepository, RepositoryStepIsNext
<1> QED BY <1>1, <1>2, IInvAlways, PTL DEF ManagedSpec, UsesRepository

--------------------------------------------------------------------------------
(* ManagedRuns implements ServiceRuns.                                       *)

\* A step moves the processes of one run, or the repository.
OneRunsProcesses ==
  /\ UNCHANGED <<processes, issued>>
  /\ \E k \in Keys : \A j \in Keys \ {k} : host'[j] = host[j] /\ alive'[j] = alive[j]

LEMMA ProcessesOrRepository ==
  ASSUME IInv, [ManagedNext]_vars
  PROVE  backend' = backend /\ (OneRunsProcesses \/ UNCHANGED <<host, alive>>)
<1>0. host \in [Keys -> HostStates] /\ alive \in [Keys -> SUBSET Members]
  BY DEF IInv, MInv, ManagedTypeOK
<1>1. ASSUME NEW k \in Keys, UNCHANGED repoVars,
             \A j \in Keys \ {k} : host'[j] = host[j] /\ alive'[j] = alive[j]
      PROVE  OneRunsProcesses
  BY <1>1 DEF OneRunsProcesses, repoVars
<1>2. ASSUME NEW t \in Threads, ThreadStep(t)
      PROVE  backend' = backend /\ (OneRunsProcesses \/ UNCHANGED <<host, alive>>)
  <2>1. CASE ForceOwner(t)
    <3>1. th[t].key \in Keys /\ UNCHANGED repoVars /\ backend' = backend
      BY <2>1, ThreadFields DEF ForceOwner, memory
    <3>2. \A j \in Keys \ {th[t].key} : host'[j] = host[j] /\ alive'[j] = alive[j]
      BY <1>0, <2>1, <3>1 DEF ForceOwner, ForceStop, KillHost, KillGroup
    <3> QED BY <1>1, <3>1, <3>2
  <2>2. CASE SpawnHost(t) \/ SendSpec(t) \/ SendIdentity(t)
    <3>1. th[t].key \in Keys /\ UNCHANGED repoVars /\ backend' = backend
      BY <2>2, ThreadFields DEF SpawnHost, SendSpec, SendIdentity, memory
    <3>2. \A j \in Keys \ {th[t].key} : host'[j] = host[j] /\ alive'[j] = alive[j]
      BY <1>0, <2>2, <3>1 DEF SpawnHost, SendSpec, SendIdentity
    <3> QED BY <1>1, <3>1, <3>2
  <2>3. CASE FinalizeStep(t) /\ ~ForceOwner(t)
    BY <2>3 DEF FinalizeStep, Lock, EnrichExpired, ClaimRun, ClaimRefused, Enrich, Observe,
                Commit, memory, world
  <2>4. CASE StartStep(t) /\ ~(SpawnHost(t) \/ SendSpec(t) \/ SendIdentity(t))
    BY <2>4 DEF StartStep, CreateOwner, CommitOwner, BindTarget, CommitTarget, CommitRunning,
                StartUpdate, Register, FailStart, memory, world
  <2> QED BY <1>2, <2>1, <2>2, <2>3, <2>4
          DEF ThreadStep, FinishClose, OpenGate, NextRun, SkipRun, memory, world
<1>3. ASSUME NEW k \in Keys, HostStep(k) \/ TargetStep(k)
      PROVE  backend' = backend /\ OneRunsProcesses
  <2>1. UNCHANGED repoVars /\ backend' = backend
    BY <1>3 DEF HostStep, TargetStep, HostSpawns, HostServes, HostGivesUp, HostStops,
                HostFinishes, HostExits, HostDies, Fork, ProcessExits, memory
  <2>2. \A j \in Keys \ {k} : host'[j] = host[j] /\ alive'[j] = alive[j]
    BY <1>0, <1>3 DEF HostStep, TargetStep, HostSpawns, HostServes, HostGivesUp, HostStops,
                HostFinishes, HostExits, HostDies, Fork, ProcessExits, KillHost, KillGroup
  <2> QED BY <1>1, <2>1, <2>2
<1>4. ASSUME NEW t \in Threads, NewCall(t) \/ \E m \in Instances : Boot(m, t)
      PROVE  backend' = backend /\ UNCHANGED <<host, alive>>
  BY <1>4 DEF NewCall, FinalizeRun, StartRun, CloseSession, Boot, memory, world
<1>5. CASE Crash \/ UNCHANGED vars \/ UNCHANGED <<memory, th, world>>
  BY <1>5 DEF Crash, vars, memory, world
<1> QED BY <1>2, <1>3, <1>4, <1>5 DEF ManagedNext

Phases == [k \in Keys |-> Phase(k)]
PopulatedRuns == {k \in Keys : Populated(k)}

\* A record keeps what Populated and Phase look at.
SamePhase(k) == (k \in issued') = (k \in issued)
                /\ IsActive(processes[k])' = IsActive(processes[k])
SameRecord(k) == /\ (processes'[k] = NoRecord) = (processes[k] = NoRecord)
                 /\ EvidenceOf(k)' = EvidenceOf(k)

LEMMA SameProcesses ==
  ASSUME NEW k \in Keys, SameRecord(k), backend' = backend,
         host'[k] = host[k], alive'[k] = alive[k]
  PROVE  Populated(k)' = Populated(k)
BY DEF SameRecord, Populated, ProcessesGone, HostUp, InGroup, EvidenceOf

\* Processes come and go while their run is live; one run per step.
LEMMA PromiseMoves ==
  ASSUME IInv, IInv', NEW k \in Keys, \A j \in Keys : SamePhase(j),
         \A j \in Keys \ {k} : Populated(j)' = Populated(j)
  PROVE  [Promise!Next]_(Promise!runVars)
<1>1. Phases' = Phases
  BY DEF Phases, Phase, SamePhase
<1>2. CASE Populated(k)'
  <2>1. k \in issued' /\ IsActive(processes[k])'
    <3>1. RunOK(k)'
      BY DEF IInv, MInv
    <3>2. Spent(k)' => ~Populated(k)'
      BY DEF Spent, Populated, ProcessesGone, HostGone, EvidenceOf
    <3>3. k \notin issued' => ~RunOK(k)'
      BY <1>2 DEF RunOK, Populated, ProcessesGone, HostUp, InGroup
    <3> QED BY <1>2, <3>1, <3>2, <3>3 DEF RunOK
  <2>2. Phases[k] = "live"
    BY <2>1 DEF Phases, Phase, SamePhase
  <2>3. PopulatedRuns' = PopulatedRuns \cup {k}
    BY <1>2 DEF PopulatedRuns
  <2>4. Promise!Populate(k)
    BY <1>1, <2>2, <2>3 DEF Promise!Populate, Phases, PopulatedRuns
  <2> QED BY <2>4 DEF Promise!Next
<1>3. CASE ~Populated(k)'
  <2>1. PopulatedRuns' = PopulatedRuns \ {k}
    BY <1>3 DEF PopulatedRuns
  <2>2. Promise!Empty(k)
    BY <1>1, <2>1 DEF Promise!Empty, Phases, PopulatedRuns
  <2> QED BY <2>2 DEF Promise!Next
<1> QED BY <1>2, <1>3

\* A run is only begun when no run of its service is live.
LEMMA PromiseStarts ==
  ASSUME IInv, NEW k \in Keys, NEW i \in Sessions \cup {None}, NEW m \in Instances,
         Reserve(k, i, m), UNCHANGED <<backend, host, alive>>
  PROVE  Promise!Start(k)
<1>1. /\ k \notin issued /\ issued' = issued \cup {k} /\ processes[k] = NoRecord
      /\ processes \in [Keys -> Record \cup {NoRecord}]
  BY FreshRun DEF Reserve, IInv, SInv, TInv, TypeOK
<1>2. /\ processes'[k] = NewRecord(i, m)
      /\ \A j \in Keys \ {k} : processes'[j] = processes[j]
  BY <1>1 DEF Reserve
<1>3. IsActive(processes'[k]) /\ processes'[k].evidence = "none"
  BY <1>2 DEF NewRecord, IsActive, ActiveStates
<1>4. Phases[k] = "new" /\ Phases'[k] = "live"
  <2>1. ~IsActive(processes[k]) /\ k \in issued'
    BY <1>1, Absent
  <2> QED BY <1>1, <1>3, <2>1 DEF Phases, Phase, IsActive
<1>5. \A j \in Keys \ {k} : SamePhase(j) /\ SameRecord(j)
  BY <1>1, <1>2 DEF SamePhase, SameRecord, IsActive, EvidenceOf
<1>6. Phases' = [Phases EXCEPT ![k] = "live"]
  <2>1. \A j \in Keys \ {k} : Phase(j)' = Phase(j)
    BY <1>5 DEF Phase, SamePhase
  <2>2. \A j \in Keys : Phases'[j] = IF j = k THEN "live" ELSE Phases[j]
    BY <1>4, <2>1 DEF Phases
  <2> QED BY <2>2 DEF Phases
<1>7. \A j \in Keys : ServiceOf[j] = ServiceOf[k] => Phases[j] # "live"
  <2>1. \A j \in Keys : IsActive(processes[j]) => active[ServiceOf[j]] = j
    BY DEF IInv, SInv, StateValid, ValidState, IndexValid
  <2>2. active[ServiceOf[k]] = None /\ None \notin Keys
    BY NoneAssumption DEF Reserve
  <2> QED BY <2>1, <2>2 DEF Phases, Phase
<1>8. PopulatedRuns' = PopulatedRuns
  <2>1. \A j \in Keys \ {k} : Populated(j)' = Populated(j)
    BY <1>5, SameProcesses
  <2>2. host[k] = "none" /\ alive[k] = {}
    BY <1>1 DEF RunOK, IInv, MInv
  <2>3. ~Populated(k)
    BY <1>1, PopulatedIsActive
  <2>4. ~Populated(k)'
    BY <2>2 DEF Populated, ProcessesGone, HostUp, InGroup
  <2> QED BY <2>1, <2>3, <2>4 DEF PopulatedRuns
<1> QED BY <1>4, <1>6, <1>7, <1>8 DEF Promise!Start, Phases, PopulatedRuns

\* A run is only ended when its owner is empty.
LEMMA PromiseEnds ==
  ASSUME IInv, IInv', NEW k \in Keys, NEW id \in ClaimIds, CommitTerminal(k, id),
         UNCHANGED <<backend, host, alive>>
  PROVE  [Promise!Next]_(Promise!runVars)
<1>1. /\ processes[k] \in Record /\ processes \in [Keys -> Record \cup {NoRecord}]
      /\ issued' = issued
  BY RecordFields DEF CommitTerminal, IInv, SInv, TInv, TypeOK
<1>2. processes' = [processes EXCEPT ![k] = [processes[k] EXCEPT !.status = "terminal",
                                                              !.claim = NoClaim]]
  BY <1>1 DEF CommitTerminal
<1>3. /\ processes'[k].evidence = processes[k].evidence
      /\ processes'[k].status = "terminal"
      /\ \A j \in Keys \ {k} : processes'[j] = processes[j]
  BY <1>1, <1>2 DEF Record
<1>4. processes'[k] # NoRecord /\ processes[k] # NoRecord /\ ~IsActive(processes'[k])
  BY <1>1, <1>3, Absent DEF IsActive, ActiveStates
<1>5. \A j \in Keys : SameRecord(j)
  BY <1>3, <1>4 DEF SameRecord, EvidenceOf
<1>6. PopulatedRuns' = PopulatedRuns
  BY <1>5, SameProcesses DEF PopulatedRuns
<1>7. \A j \in Keys \ {k} : SamePhase(j)
  BY <1>1, <1>3 DEF SamePhase, IsActive
<1>8. CASE IsActive(processes[k]) /\ k \in issued
  <2>1. Phases[k] = "live" /\ Phases'[k] = "ended"
    BY <1>1, <1>4, <1>8 DEF Phases, Phase, IsActive
  <2>2. Phases' = [Phases EXCEPT ![k] = "ended"]
    <3>1. \A j \in Keys \ {k} : Phase(j)' = Phase(j)
      BY <1>7 DEF Phase, SamePhase
    <3>2. \A j \in Keys : Phases'[j] = IF j = k THEN "ended" ELSE Phases[j]
      BY <2>1, <3>1 DEF Phases
    <3> QED BY <3>2 DEF Phases
  <2>3. k \notin PopulatedRuns'
    <3>1. RunOK(k)'
      BY DEF IInv, MInv
    <3>2. Spent(k)'
      BY <1>1, <1>4, <1>8, <3>1 DEF RunOK, IsActive
    <3>3. Spent(k)' => ~Populated(k)'
      BY DEF Spent, Populated, ProcessesGone, HostGone, EvidenceOf
    <3> QED BY <3>2, <3>3 DEF PopulatedRuns
  <2>4. Promise!End(k)
    BY <1>6, <2>1, <2>2, <2>3 DEF Promise!End, Phases, PopulatedRuns
  <2> QED BY <2>4 DEF Promise!Next
<1>9. CASE ~(IsActive(processes[k]) /\ k \in issued)
  <2>1. Phases' = Phases
    BY <1>1, <1>4, <1>7, <1>9 DEF Phases, Phase, SamePhase, IsActive
  <2> QED BY <1>6, <2>1 DEF Promise!runVars, Phases, PopulatedRuns
<1> QED BY <1>8, <1>9

LEMMA PromiseStep ==
  ASSUME IInv, IInv', [ManagedNext]_vars
  PROVE  [Promise!Next]_(Promise!runVars)
<1>0. backend' = backend /\ (OneRunsProcesses \/ UNCHANGED <<host, alive>>)
  BY ProcessesOrRepository
<1>1. CASE OneRunsProcesses
  <2>1. PICK k \in Keys : \A j \in Keys \ {k} : host'[j] = host[j] /\ alive'[j] = alive[j]
    BY <1>1 DEF OneRunsProcesses
  <2>2. \A j \in Keys : SamePhase(j) /\ SameRecord(j)
    BY <1>1 DEF OneRunsProcesses, SamePhase, SameRecord, IsActive, EvidenceOf
  <2>3. \A j \in Keys \ {k} : Populated(j)' = Populated(j)
    BY <1>0, <2>1, <2>2, SameProcesses
  <2> QED BY <2>2, <2>3, PromiseMoves
<1>2. CASE UNCHANGED <<host, alive>>
  <2>0. RepositoryStep
    BY StepUsesRepository
  <2>a. ASSUME NEW k \in Keys, \A j \in Keys : SamePhase(j),
               \A j \in Keys \ {k} : SameRecord(j)
        PROVE  [Promise!Next]_(Promise!runVars)
    BY <1>0, <1>2, <2>a, SameProcesses, PromiseMoves
  <2>b. ASSUME UNCHANGED processes, \A j \in Keys : (j \in issued') = (j \in issued)
        PROVE  [Promise!Next]_(Promise!runVars)
    <3>1. \A j \in Keys : SamePhase(j) /\ SameRecord(j)
      BY <2>b DEF SamePhase, SameRecord, IsActive, EvidenceOf
    <3>2. Phases' = Phases /\ PopulatedRuns' = PopulatedRuns
      BY <1>0, <1>2, <3>1, SameProcesses DEF Phases, Phase, PopulatedRuns, SamePhase
    <3> QED BY <3>2 DEF Promise!runVars, Phases, PopulatedRuns
  <2>c. ASSUME NEW k \in Keys, NEW status \in ActiveStates, NEW evidence \in Evidence,
               NEW claim \in Claim \cup {NoClaim}, NEW remembering \in SUBSET Readers,
               UpdateActive(k, status, evidence, claim, remembering)
        PROVE  [Promise!Next]_(Promise!runVars)
    <3>1. /\ IsActive(processes[k]) /\ IsActive(processes'[k])
          /\ \A j \in Keys \ {k} : processes'[j] = processes[j]
          /\ issued' = issued
      BY <2>c, UpdateRun DEF IInv
    <3>2. (\A j \in Keys : SamePhase(j)) /\ (\A j \in Keys \ {k} : SameRecord(j))
      BY <3>1 DEF SamePhase, SameRecord, IsActive, EvidenceOf
    <3> QED BY <2>a, <3>2
  <2>d. \A k \in Keys : processes[k] \in Record \cup {NoRecord}
    BY DEF IInv, SInv, TInv, TypeOK
  <2>e. "terminating" \in ActiveStates /\ {} \in SUBSET Readers
    BY DEF ActiveStates
  <2>1. CASE Quiet
    BY <2>1, <2>b DEF Quiet
  <2>2. ASSUME NEW k \in Keys, NEW i \in Sessions \cup {None}, NEW m \in Instances,
               Reserve(k, i, m)
        PROVE  [Promise!Next]_(Promise!runVars)
    BY <1>0, <1>2, <2>2, PromiseStarts DEF Promise!Next
  <2>3. ASSUME NEW k \in Keys, NEW status \in ActiveStates, NEW evidence \in Evidence,
               NEW remembering \in SUBSET Readers, processes[k] # NoRecord,
               UpdateActive(k, status, evidence, processes[k].claim, remembering)
        PROVE  [Promise!Next]_(Promise!runVars)
    <3>1. processes[k].claim \in Claim \cup {NoClaim}
      BY <2>3, <2>d, RecordFields
    <3> QED BY <2>3, <2>c, <3>1
  <2>4. ASSUME NEW k \in Keys, NEW id \in ClaimIds, NEW m \in Instances,
               NEW inspected \in BOOLEAN, NEW remembering \in SUBSET Readers,
               ClaimFinalization(k, id, m, inspected, remembering)
        PROVE  [Promise!Next]_(Promise!runVars)
    <3>1. UpdateActive(k, "terminating", processes[k].evidence,
                       [id |-> id, by |-> m, expired |-> FALSE], remembering)
      BY <2>4 DEF ClaimFinalization
    <3>2. processes[k].evidence \in Evidence
      BY <2>d, <3>1, RecordFields DEF UpdateActive
    <3>3. [id |-> id, by |-> m, expired |-> FALSE] \in Claim \cup {NoClaim}
      BY DEF Claim
    <3> QED BY <2>c, <2>e, <3>1, <3>2, <3>3
  <2>5. ASSUME NEW k \in Keys, ExpireClaim(k) PROVE [Promise!Next]_(Promise!runVars)
    <3>1. processes[k] \in Record /\ processes \in [Keys -> Record \cup {NoRecord}]
      BY <2>5, RecordFields DEF ExpireClaim, IInv, SInv, TInv, TypeOK
    <3>2. /\ processes'[k].status = processes[k].status
          /\ \A j \in Keys \ {k} : processes'[j] = processes[j]
          /\ issued' = issued
      BY <2>5, <3>1 DEF ExpireClaim, Record
    <3>3. (\A j \in Keys : SamePhase(j)) /\ (\A j \in Keys \ {k} : SameRecord(j))
      BY <3>2 DEF SamePhase, SameRecord, IsActive, EvidenceOf
    <3> QED BY <2>a, <3>3
  <2>6. ASSUME NEW k \in Keys, NEW id \in ClaimIds, NEW completed \in BOOLEAN,
               CommitFinalization(k, id, completed)
        PROVE  [Promise!Next]_(Promise!runVars)
    <3>1. CASE completed
      BY <1>0, <1>2, <2>6, <3>1, PromiseEnds DEF CommitFinalization
    <3>2. CASE ~completed
      <4>1. processes[k] # NoRecord
            /\ UpdateActive(k, "terminating", processes[k].evidence, NoClaim, {})
        BY <2>6, <3>2 DEF CommitFinalization, CommitPending
      <4>2. processes[k].evidence \in Evidence
        BY <2>d, <4>1, RecordFields
      <4> QED BY <2>c, <2>e, <4>1, <4>2
    <3> QED BY <3>1, <3>2
  <2>7. ASSUME NEW i \in Sessions, NEW m \in Instances, OpenSession(i, m)
        PROVE  [Promise!Next]_(Promise!runVars)
    BY <2>7, <2>b, DisjointAssumption DEF OpenSession
  <2>8. ASSUME NEW i \in Sessions, CloseRequest(i) \/ ExpireSession(i) \/ FinishSession(i)
        PROVE  [Promise!Next]_(Promise!runVars)
    BY <2>8, <2>b DEF CloseRequest, ExpireSession, FinishSession, Compact, SetClosing
  <2> QED BY <2>0, <2>1, <2>2, <2>3, <2>4, <2>5, <2>6, <2>7, <2>8 DEF RepositoryStep
<1> QED BY <1>0, <1>1, <1>2

\* A run is called ended only when its owner is empty, for good, and replaced only
\* then, whatever start, stop, close, expiry and crash race for it (manager.py _start and
\* restart, finalization.py, state.py reserve and commit_finalization).
THEOREM RunsKeepTheirPromise == ManagedSpec => KeepsPromise
<1>1. ManagedInit => Promise!Init
  <2> SUFFICES ASSUME ManagedInit PROVE Promise!Init
    OBVIOUS
  <2>1. /\ issued = {} /\ host = [k \in Keys |-> "none"] /\ alive = [k \in Keys |-> {}]
        /\ \A k \in Keys : ~IsActive(processes[k])
    BY Absent DEF ManagedInit, Init
  <2>2. Phases = [k \in Keys |-> "new"]
    BY <2>1 DEF Phases, Phase
  <2>3. PopulatedRuns = {}
    BY <2>1 DEF PopulatedRuns, Populated, ProcessesGone, HostUp, InGroup
  <2> QED BY <2>2, <2>3 DEF Promise!Init, Phases, PopulatedRuns
<1>2. IInv /\ IInv' /\ [ManagedNext]_vars => [Promise!Next]_(Promise!runVars)
  BY PromiseStep
<1> QED BY <1>1, <1>2, IInvAlways, PTL DEF ManagedSpec, KeepsPromise, Promise!Spec

\* A replacement never meets the processes of the run it replaces (manager.py restart,
\* state.py reserve): two runs of one service whose owners have processes are one run.
THEOREM ReplacementsComeAlone == ManagedSpec => []Promise!OneRunPopulated
<1>1. IInv => Promise!OneRunPopulated
  <2> SUFFICES ASSUME IInv, NEW j \in PopulatedRuns, NEW k \in PopulatedRuns,
                      ServiceOf[j] = ServiceOf[k]
               PROVE  j = k
    BY DEF Promise!OneRunPopulated, PopulatedRuns
  <2>1. IsActive(processes[j]) /\ IsActive(processes[k])
    BY PopulatedIsActive DEF PopulatedRuns
  <2> QED BY <2>1 DEF PopulatedRuns, IInv, SInv, StateValid, ValidState, IndexValid
<1> QED BY <1>1, IInvAlways, PTL

--------------------------------------------------------------------------------
(* What the repository promises, with the manager's threads as its callers.  *)

\* A step of the repository by its primitive operations.
LEMMA RepositoryMoves ==
  ASSUME SInv, RepositoryStep
  PROVE  \/ UNCHANGED <<processes, sessions, tombstones, workGeneration>>
         \/ \E k \in Keys, i \in Sessions \cup {None}, m \in Instances : Reserve(k, i, m)
         \/ \E k \in Keys, status \in ActiveStates, evidence \in Evidence,
               claim \in Claim \cup {NoClaim}, remembering \in SUBSET Readers :
              UpdateActive(k, status, evidence, claim, remembering)
         \/ \E k \in Keys : ExpireClaim(k)
         \/ \E k \in Keys, id \in ClaimIds : CommitTerminal(k, id)
         \/ \E i \in Sessions, m \in Instances : OpenSession(i, m)
         \/ \E i \in Sessions, from \in SUBSET SessionActiveStates,
               to \in SessionActiveStates \ {"open"} : SetClosing(i, from, to)
         \/ \E i \in Sessions : Compact({i})
<1> DEFINE Goal ==
      \/ UNCHANGED <<processes, sessions, tombstones, workGeneration>>
      \/ \E k \in Keys, i \in Sessions \cup {None}, m \in Instances : Reserve(k, i, m)
      \/ \E k \in Keys, status \in ActiveStates, evidence \in Evidence,
            claim \in Claim \cup {NoClaim}, remembering \in SUBSET Readers :
           UpdateActive(k, status, evidence, claim, remembering)
      \/ \E k \in Keys : ExpireClaim(k)
      \/ \E k \in Keys, id \in ClaimIds : CommitTerminal(k, id)
      \/ \E i \in Sessions, m \in Instances : OpenSession(i, m)
      \/ \E i \in Sessions, from \in SUBSET SessionActiveStates,
            to \in SessionActiveStates \ {"open"} : SetClosing(i, from, to)
      \/ \E i \in Sessions : Compact({i})
<1>a. /\ \A k \in Keys : processes[k] \in Record \cup {NoRecord}
      /\ "terminating" \in ActiveStates /\ NoClaim \in Claim \cup {NoClaim}
  BY DEF SInv, TInv, TypeOK, ActiveStates
<1>1. CASE Quiet
  BY <1>1 DEF Quiet, history
<1>2. ASSUME NEW k \in Keys, NEW status \in ActiveStates, NEW evidence \in Evidence,
             NEW remembering \in SUBSET Readers, processes[k] # NoRecord,
             UpdateActive(k, status, evidence, processes[k].claim, remembering)
      PROVE  Goal
  <2>1. processes[k].claim \in Claim \cup {NoClaim}
    BY <1>a, <1>2, RecordFields
  <2> QED BY <1>2, <2>1
<1>3. ASSUME NEW k \in Keys, NEW id \in ClaimIds, NEW m \in Instances,
             NEW inspected \in BOOLEAN, NEW remembering \in SUBSET Readers,
             ClaimFinalization(k, id, m, inspected, remembering)
      PROVE  Goal
  <2>1. UpdateActive(k, "terminating", processes[k].evidence,
                     [id |-> id, by |-> m, expired |-> FALSE], remembering)
    BY <1>3 DEF ClaimFinalization
  <2>2. processes[k].evidence \in Evidence
    BY <1>a, <2>1, RecordFields DEF UpdateActive
  <2>3. [id |-> id, by |-> m, expired |-> FALSE] \in Claim \cup {NoClaim}
    BY DEF Claim
  <2> QED BY <1>a, <2>1, <2>2, <2>3
<1>4. ASSUME NEW k \in Keys, NEW id \in ClaimIds, NEW completed \in BOOLEAN,
             CommitFinalization(k, id, completed)
      PROVE  Goal
  <2>1. CASE completed
    BY <1>4, <2>1 DEF CommitFinalization
  <2>2. CASE ~completed
    <3>1. /\ processes[k] # NoRecord
          /\ UpdateActive(k, "terminating", processes[k].evidence, NoClaim, {})
      BY <1>4, <2>2 DEF CommitFinalization, CommitPending
    <3>2. processes[k].evidence \in Evidence /\ {} \in SUBSET Readers
      BY <1>a, <3>1, RecordFields
    <3> QED BY <1>a, <3>1, <3>2
  <2> QED BY <2>1, <2>2
<1>5. ASSUME NEW i \in Sessions, CloseRequest(i) \/ ExpireSession(i) \/ FinishSession(i)
      PROVE  Goal
  <2>1. /\ {"open"} \in SUBSET SessionActiveStates
        /\ {"open", "cleanup_failed"} \in SUBSET SessionActiveStates
        /\ {"terminating", "expired", "cleanup_failed"} \subseteq SessionActiveStates \ {"open"}
        /\ {"terminating", "expired", "cleanup_failed"} \in SUBSET SessionActiveStates
    BY DEF SessionActiveStates
  <2>2. \/ Compact({i})
        \/ \E from \in SUBSET SessionActiveStates, to \in SessionActiveStates \ {"open"} :
             SetClosing(i, from, to)
    BY <1>5, <2>1 DEF CloseRequest, ExpireSession, FinishSession
  <2> QED BY <2>2
<1> QED BY <1>1, <1>2, <1>3, <1>4, <1>5 DEF RepositoryStep

LEMMA ClaimsStayOnActive ==
  ASSUME CInv, RepositoryStep
  PROVE  ClaimsOnActive'
<1>0. SInv /\ ClaimsOnActive
  BY DEF CInv
<1>1. ASSUME NEW k \in Keys, NEW i \in Sessions \cup {None}, NEW m \in Instances,
             Reserve(k, i, m)
      PROVE  ClaimsOnActive'
  BY <1>1 DEF Reserve, NewRecord, CInv, SInv, TInv, TypeOK, ClaimsOnActive
<1>2. ASSUME NEW k \in Keys, NEW status \in ActiveStates, NEW evidence \in Evidence,
             NEW claim \in Claim \cup {NoClaim}, NEW remembering \in SUBSET Readers,
             UpdateActive(k, status, evidence, claim, remembering)
      PROVE  ClaimsOnActive'
  BY <1>2, UpdateNeedsActive DEF CInv, ClaimsOnActive
<1>3. ASSUME NEW k \in Keys, ExpireClaim(k) PROVE ClaimsOnActive'
  <2>1. processes[k] \in Record
    BY <1>3, RecordFields DEF CInv, SInv, TInv, TypeOK, ExpireClaim
  <2>2. /\ processes'[k].status = processes[k].status
        /\ \A j \in Keys : j # k => processes'[j] = processes[j]
    BY <1>3, <2>1 DEF ExpireClaim, CInv, SInv, TInv, TypeOK, Record
  <2> QED BY <1>3, <2>2 DEF ExpireClaim, CInv, ClaimsOnActive, IsActive
<1>4. ASSUME NEW k \in Keys, NEW id \in ClaimIds, CommitTerminal(k, id)
      PROVE  ClaimsOnActive'
  <2>1. processes[k] \in Record
    BY <1>4, RecordFields DEF CInv, SInv, TInv, TypeOK, CommitTerminal
  <2>2. /\ processes'[k].claim = NoClaim
        /\ \A j \in Keys : j # k => processes'[j] = processes[j]
    BY <1>4, <2>1 DEF CommitTerminal, CInv, SInv, TInv, TypeOK, Record
  <2> QED BY <2>2 DEF CInv, ClaimsOnActive
<1>5. ASSUME UNCHANGED processes PROVE ClaimsOnActive'
  BY <1>5 DEF CInv, ClaimsOnActive
<1> QED BY <1>0, <1>1, <1>2, <1>3, <1>4, <1>5, RepositoryMoves
        DEF OpenSession, SetClosing, Compact

LEMMA ClaimsAlways == ManagedSpec => [](IInv /\ ClaimsOnActive)
<1>1. ManagedInit => ClaimsOnActive
  BY DEF ManagedInit, Init, ClaimsOnActive
<1>2. IInv /\ ClaimsOnActive /\ [ManagedNext]_vars => ClaimsOnActive'
  BY StepUsesRepository, ClaimsStayOnActive DEF IInv, CInv
<1> QED BY <1>1, <1>2, IInvAlways, PTL DEF ManagedSpec

\* models.py validate_state: nothing the threads, the crashes and the takeovers of
\* expired claims do to the repository together is ever refused or left inconsistent.
THEOREM RepositoryStaysValid == ManagedSpec => []StateValid
<1>1. IInv => StateValid
  BY DEF IInv, SInv
<1> QED BY <1>1, IInvAlways, PTL

\* A start that lost to a finalizer, and a finalizer that lost its claim, leave the
\* record of the finished run as it is (manager.py _start: unconditional updates).
THEOREM FinishedRunsOfManagersStay == ManagedSpec => TerminalIsFinal
<1> DEFINE Keeps == \A k \in Keys : processes[k].status = "terminal" =>
                     processes'[k] \in {processes[k], NoRecord}
<1>1. IInv /\ ClaimsOnActive /\ [ManagedNext]_vars => [Keeps]_repoVars
  <2> SUFFICES ASSUME IInv, ClaimsOnActive, [ManagedNext]_vars,
                      NEW k \in Keys, processes[k].status = "terminal"
               PROVE  processes'[k] = processes[k]
    OBVIOUS
  <2>0. SInv /\ CInv /\ RepositoryStep
    BY StepUsesRepository DEF IInv, CInv
  <2>1. processes[k] \in Record /\ ~IsActive(processes[k]) /\ processes[k].claim = NoClaim
    BY <2>0, RecordFields, Absent
    DEF CInv, SInv, TInv, TypeOK, ClaimsOnActive, IsActive, ActiveStates
  <2>2. ASSUME NEW j \in Keys, NEW i \in Sessions \cup {None}, NEW m \in Instances,
               Reserve(j, i, m)
        PROVE  processes'[k] = processes[k]
    BY <2>0, <2>1, <2>2, FreshRun, Absent DEF Reserve, SInv, TInv, TypeOK
  <2>3. ASSUME NEW j \in Keys, NEW status \in ActiveStates, NEW evidence \in Evidence,
               NEW claim \in Claim \cup {NoClaim}, NEW remembering \in SUBSET Readers,
               UpdateActive(j, status, evidence, claim, remembering)
        PROVE  processes'[k] = processes[k]
    BY <2>0, <2>1, <2>3, UpdateNeedsActive
  <2>4. ASSUME NEW j \in Keys, ExpireClaim(j) PROVE processes'[k] = processes[k]
    BY <2>0, <2>1, <2>4 DEF ExpireClaim, SInv, TInv, TypeOK
  <2>5. ASSUME NEW j \in Keys, NEW id \in ClaimIds, CommitTerminal(j, id)
        PROVE  processes'[k] = processes[k]
    BY <2>0, <2>1, <2>5, Absent, NoneAssumption
    DEF CommitTerminal, HoldsClaim, SInv, TInv, TypeOK
  <2> QED BY <2>0, <2>2, <2>3, <2>4, <2>5, RepositoryMoves
          DEF OpenSession, SetClosing, Compact
<1> QED BY <1>1, ClaimsAlways, PTL DEF ManagedSpec, TerminalIsFinal

\* sessions.py close and sweep against reserve_run: however a start, a close and an
\* expiry are interleaved, a session that is closing gets no run and opens no more.
THEOREM SessionsOfManagersDrain == ManagedSpec => ClosingSessionDrains
<1> DEFINE Drains == \A i \in Sessions : sessions[i].state \in SessionActiveStates \ {"open"} =>
                      /\ sessions'[i].state # "open"
                      /\ sessions'[i].runKeys \subseteq sessions[i].runKeys
<1>1. IInv /\ [ManagedNext]_vars => [Drains]_repoVars
  <2> SUFFICES ASSUME IInv, [ManagedNext]_vars, NEW i \in Sessions,
                      sessions[i].state \in SessionActiveStates \ {"open"}
               PROVE  /\ sessions'[i].state # "open"
                      /\ sessions'[i].runKeys \subseteq sessions[i].runKeys
    OBVIOUS
  <2>0. SInv /\ RepositoryStep
    BY StepUsesRepository DEF IInv
  <2>1. sessions[i] \in Session /\ sessions[i] # NoSession /\ sessions[i].state # "open"
    BY <2>0, Absent DEF SInv, TInv, TypeOK, SessionActiveStates
  <2>2. CASE sessions'[i] \in {sessions[i], NoSession}
    BY <2>1, <2>2, Absent
  <2>3. ASSUME NEW k \in Keys, NEW j \in Sessions \cup {None}, NEW m \in Instances,
               Reserve(k, j, m)
        PROVE  sessions'[i] = sessions[i]
    BY <2>0, <2>1, <2>3 DEF Reserve, SessionAccepts, SInv, TInv, TypeOK
  <2>4. ASSUME NEW k \in Keys, NEW id \in ClaimIds, CommitTerminal(k, id)
        PROVE  /\ sessions'[i].state # "open"
               /\ sessions'[i].runKeys \subseteq sessions[i].runKeys
    <3>1. CASE processes[k].owner # i \/ processes[k].owner = None
      BY <2>0, <2>1, <2>4, <3>1 DEF CommitTerminal, DropRunKey, SInv, TInv, TypeOK
    <3>2. CASE processes[k].owner = i /\ processes[k].owner # None
      BY <2>0, <2>1, <2>4, <3>2 DEF CommitTerminal, DropRunKey, SInv, TInv, TypeOK, Session
    <3> QED BY <3>1, <3>2
  <2>5. ASSUME NEW j \in Sessions, NEW m \in Instances, OpenSession(j, m)
        PROVE  sessions'[i] = sessions[i]
    BY <2>0, <2>1, <2>5 DEF OpenSession, SInv, TInv, TypeOK, IdentitiesIssued
  <2>6. ASSUME NEW j \in Sessions, NEW from \in SUBSET SessionActiveStates,
               NEW to \in SessionActiveStates \ {"open"}, SetClosing(j, from, to)
        PROVE  /\ sessions'[i].state # "open"
               /\ sessions'[i].runKeys \subseteq sessions[i].runKeys
    BY <2>0, <2>1, <2>6 DEF SetClosing, SInv, TInv, TypeOK, Session
  <2>7. ASSUME NEW j \in Sessions, Compact({j})
        PROVE  sessions'[i] \in {sessions[i], NoSession}
    BY <2>0, <2>7 DEF Compact, SInv, TInv, TypeOK
  <2> QED BY <2>0, <2>2, <2>3, <2>4, <2>5, <2>6, <2>7, RepositoryMoves
          DEF UpdateActive, ExpireClaim
<1> QED BY <1>1, IInvAlways, PTL DEF ManagedSpec, ClosingSessionDrains

\* state.py reserve, commit_finalization, sessions.py open and compact: a conditional stop
\* that sees the generation it expects sees the work of the managers it expects.
THEOREM GenerationOfManagersTracksWork == ManagedSpec => GenerationSeesWork
<1> DEFINE Tracks == /\ workGeneration' >= workGeneration
                     /\ LiveWork' # LiveWork => workGeneration' > workGeneration
<1>1. IInv /\ ClaimsOnActive /\ [ManagedNext]_vars => [Tracks]_repoVars
  <2> SUFFICES ASSUME IInv, ClaimsOnActive, [ManagedNext]_vars PROVE Tracks
    OBVIOUS
  <2>1. SInv /\ CInv /\ RepositoryStep
    BY StepUsesRepository DEF IInv, CInv
  <2>2. workGeneration \in Nat /\ workGeneration' \in Nat
    BY <2>1, RepositoryStepKeepsSInv DEF SInv, TInv, TypeOK
  <2>3. CASE UNCHANGED <<processes, sessions, workGeneration>>
    BY <2>2, <2>3 DEF LiveWork, ActiveKeys, ActiveSessionIds
  <2>4. ASSUME NEW i \in Sessions, Compact({i})
        PROVE  WorkChange
    BY <2>1, <2>4, MovesChangeWork
  <2>5. \A to \in SessionActiveStates \ {"open"} : to \in SessionActiveStates
    OBVIOUS
  <2>6. WorkChange \/ UNCHANGED <<processes, sessions, workGeneration>>
    BY <2>1, <2>4, <2>5, RepositoryMoves, MovesChangeWork
  <2> QED BY <2>2, <2>3, <2>6 DEF WorkChange
<1> QED BY <1>1, ClaimsAlways, PTL DEF ManagedSpec, GenerationSeesWork

\* resources.py compact_session: nor do the sessions that managers close ever outgrow the table.
THEOREM TombstonesOfManagersBounded == ManagedSpec => []TombstonesBounded
<1>1. ManagedInit => TombstonesBounded
  BY FS_EmptySet, LimitAssumption DEF ManagedInit, Init, TombstonesBounded
<1>2. IInv /\ TombstonesBounded /\ [ManagedNext]_vars => TombstonesBounded'
  <2> SUFFICES ASSUME IInv, TombstonesBounded, [ManagedNext]_vars PROVE TombstonesBounded'
    OBVIOUS
  <2>1. SInv /\ TypeOK /\ RepositoryStep
    BY StepUsesRepository DEF IInv, SInv, TInv
  <2>2. CASE UNCHANGED tombstones
    BY <2>2 DEF TombstonesBounded
  <2>3. ASSUME NEW i \in Sessions, Compact({i})
        PROVE  TombstonesBounded'
    BY <2>1, <2>3, BoundedAdd DEF Compact
  <2> QED BY <2>1, <2>2, <2>3, RepositoryMoves
          DEF Reserve, UpdateActive, ExpireClaim, CommitTerminal, OpenSession, SetClosing, history
<1> QED BY <1>1, <1>2, IInvAlways, PTL DEF ManagedSpec

\* run_finalization.py finalize_live, finalize_persisted and the cleanup of a failed start: an
\* owner that was found empty some steps ago has no process when its run is committed as
\* finished, whatever hosts, starts and other finalizers do in between.
THEOREM VerifiedOwnersStayEmpty == ManagedSpec => []VerifiedIsEmpty
<1>1. IInv => VerifiedIsEmpty
  <2> SUFFICES ASSUME IInv, NEW t \in Threads, th[t].verified
               PROVE  ~HostUp(th[t].key) /\ ~Populated(th[t].key)
    BY DEF VerifiedIsEmpty
  <2>1. Spent(th[t].key)
    BY DEF IInv, MInv, ThreadOK
  <2> QED BY <2>1 DEF Spent, Populated, ProcessesGone, HostGone, EvidenceOf
<1> QED BY <1>1, IInvAlways, PTL
================================================================================
