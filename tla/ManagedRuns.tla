------------------------------ MODULE ManagedRuns ------------------------------
(***************************************************************************)
(* One manager process at a time (manager.py ProcessManager), its threads, *)
(* and the runs they start and finalize: the start of a run with its       *)
(* service-host handshake, stop, completion watcher, session close and     *)
(* sweep, the reconciliation of a new manager with the runs of a lost one, *)
(* and a crash of the manager between any two steps.                       *)
(*                                                                         *)
(* A thread executes one call at a time.  Its steps are the repository     *)
(* transactions of RunRepository and what happens between them: nothing    *)
(* that is read in one step is still true in the next unless a lock or the *)
(* repository says so.                                                     *)
(*                                                                         *)
(* The owner of a run is what the kernel offers to name its processes:     *)
(* backend "cgroup" is a delegated cgroup v2 (every descendant is a        *)
(* member), "group" the POSIX process group of the target.  SIGTERM has no *)
(* action of its own: it obliges nobody, and a process may exit anyway.    *)
(* Not modelled: identity mismatches (pid reuse, foreign files), rmdir of  *)
(* an empty cgroup failing, readiness probes, pruning (the module          *)
(* RunRepository has it), the shutdown of the manager, the lease clock (a  *)
(* session may expire at any time).                                        *)
(***************************************************************************)
EXTENDS RunRepository

CONSTANTS Threads,   \* threads of the manager: control requests, watchers, sweeper
          Backends,  \* what the machine may offer: "cgroup", "group"
          Children,  \* what a target may fork: "child" stays in its process group,
                     \* "stray" calls setsid
          HostMayDie \* whether a service-host may be killed from outside

ASSUME BackendAssumption == Backends \subseteq {"cgroup", "group"}
ASSUME ChildrenAssumption == Children \subseteq {"child", "stray"}
ASSUME HostAssumption == HostMayDie \in BOOLEAN
ASSUME ReadersAssumption == Readers = Threads
ASSUME InstanceAssumption == None \notin Instances

VARIABLES backend,     \* the platform adapter's choice, for good
          manager,     \* the live manager instance
          past,        \* the instances there have been
          gate,        \* the StartDrainGate admits starts
          runs,        \* ProcessManager._runs: runs with an owner in memory
          th,          \* the threads
          host,        \* per run, its service-host process
          alive,       \* per run, the processes of its target
          identified,  \* runs whose host-state file names the target
          bound,       \* runs whose in-memory owner knows the process group
          released     \* runs whose cgroup was removed

memory == <<backend, manager, past, gate, runs, bound>>
world == <<host, alive, identified, released>>
vars == <<repoVars, memory, th, world>>

\* How a thread reaches the processes of its run: through the owner in _runs,
\* through the evidence in the record, or, when its own start failed, through the
\* owner it created or only through the host it spawned.
Modes == {"live", "persisted", "start", "host"}

StartPcs == {"reserved", "hosted", "owned", "evidenced", "sent", "bound", "told", "full"}
FinalizePcs == {"lock", "claim", "enrich", "clean", "killed", "late", "commit"}

Thread == [pc : StartPcs \cup FinalizePcs \cup {"running", "next", "idle"},
           key : Keys \cup {None},
           mode : Modes,
           claim : ClaimIds \cup {None},
           seen : Evidence,                   \* the evidence in the record it holds
           verified : BOOLEAN,                \* owner_empty and cleanup_verified
           call : {"run", "close", "boot"},
           session : Sessions \cup {None},    \* of a "close"
           todo : SUBSET Keys]                \* runs a "close" or "boot" has to finalize yet

\* A thread at the beginning of a call.
Calls(pc, k, mode, call, i, todo) ==
  [pc |-> pc, key |-> k, mode |-> mode, claim |-> None, seen |-> "none",
   verified |-> FALSE, call |-> call, session |-> i, todo |-> todo]
Idle == Calls("idle", None, "live", "run", None, {})

HostStates == {"none", "waiting", "spec", "asking", "told", "serving", "ending", "exited"}
Members == {"leader", "child", "stray"}

ManagedTypeOK ==
  /\ TypeOK
  /\ backend \in Backends
  /\ manager \in Instances \cup {None} /\ past \in SUBSET Instances
  /\ gate \in BOOLEAN
  /\ runs \in SUBSET Keys /\ bound \in SUBSET Keys
  /\ th \in [Threads -> Thread]
  /\ host \in [Keys -> HostStates]
  /\ alive \in [Keys -> SUBSET Members]
  /\ identified \in SUBSET Keys /\ released \in SUBSET Keys

ManagedInit ==
  /\ Init
  /\ backend \in Backends
  /\ manager = None /\ past = {} /\ gate = FALSE /\ runs = {} /\ bound = {}
  /\ th = [t \in Threads |-> Idle]
  /\ host = [k \in Keys |-> "none"]
  /\ alive = [k \in Keys |-> {}]
  /\ identified = {} /\ released = {}

--------------------------------------------------------------------------------
(* The owner of a run. *)

HostUp(k) == host[k] \notin {"none", "exited"}
ProcessesGone(k) == ~HostUp(k) /\ alive[k] = {}
InGroup(k) == alive[k] \cap {"leader", "child"}

\* A thread is in the handshake with the host of k.
InHandshake(k) == \E t \in Threads : th[t].pc \in StartPcs /\ th[t].key = k
\* The manager holds an owner, and with it the host's stdin.
Connected(k) == k \in runs \/ \E t \in Threads : th[t].key = k /\ th[t].mode = "start"

\* adapter.inspect_persisted_owner with the evidence `seen`.
InspectCgroup(k, seen) ==
  IF seen = "none" \/ (k \in released /\ ~(seen = "full" /\ ProcessesGone(k)))
  THEN "unverifiable"
  ELSE IF ProcessesGone(k) THEN "empty" ELSE "active"
InspectGroup(k, seen) ==
  IF seen # "full" \/ (InGroup(k) # {} /\ "leader" \notin alive[k]) THEN "unverifiable"
  ELSE IF ~HostUp(k) /\ InGroup(k) = {} THEN "empty" ELSE "active"
Inspect(k, seen) ==
  IF backend = "cgroup" THEN InspectCgroup(k, seen) ELSE InspectGroup(k, seen)

\* RunOwner.is_empty of an owner in memory.
HostGone(k) == ~HostUp(k)
LiveOwnerEmpty(k) ==
  IF backend = "cgroup" THEN k \notin released /\ ProcessesGone(k)
  ELSE HostGone(k) /\ (k \in bound => InGroup(k) = {})

OwnerEmpty(k, mode, seen) ==
  CASE mode = "persisted" -> Inspect(k, seen) = "empty"
    [] mode = "host" -> HostGone(k)
    [] OTHER -> LiveOwnerEmpty(k)

\* force_stop, signal_persisted_owner(force=True), host.kill.
KillHost(k) == host' = [host EXCEPT ![k] = "exited"]
KillGroup(k) == alive' = [alive EXCEPT ![k] = @ \ {"leader", "child"}]
ForceStop(k, mode) ==
  CASE mode = "host" -> KillHost(k) /\ UNCHANGED alive
    [] mode # "host" /\ backend = "cgroup" ->
         IF k \in released THEN UNCHANGED <<host, alive>>
         ELSE KillHost(k) /\ alive' = [alive EXCEPT ![k] = {}]
    [] mode = "persisted" /\ backend = "group" -> KillHost(k) /\ KillGroup(k)
    [] OTHER -> UNCHANGED host /\ IF k \in bound THEN KillGroup(k) ELSE UNCHANGED alive

--------------------------------------------------------------------------------
(* ProcessManager._start. *)

Goto(t, pc) == th' = [th EXCEPT ![t].pc = pc]

StartRun(t, k, i) ==
  /\ th[t] = Idle /\ gate
  /\ Reserve(k, i, manager)
  /\ th' = [th EXCEPT ![t] = Calls("reserved", k, "start", "run", None, {})]
  /\ UNCHANGED <<memory, world>>

SpawnHost(t) ==
  /\ th[t].pc = "reserved" /\ Goto(t, "hosted")
  /\ host' = [host EXCEPT ![th[t].key] = "waiting"]
  /\ UNCHANGED <<repoVars, memory, alive, identified, released>>

\* host_ready was read; the cgroup is created around the host.
CreateOwner(t) ==
  /\ th[t].pc = "hosted" /\ HostUp(th[t].key) /\ Goto(t, "owned")
  /\ UNCHANGED <<repoVars, memory, world>>

\* Mutant: the update of a start writes the record it has, without the claim.
ForgetfulUpdate(t, from, to, status, evidence) ==
  /\ th[t].pc = from /\ Goto(t, to)
  /\ UpdateActive(th[t].key, status, evidence, NoClaim, {})
  /\ UNCHANGED <<memory, world>>
\* The three updates of _start: whatever claim the record carries stays.
StartUpdate(t, from, to, status, evidence) ==
  /\ th[t].pc = from /\ Goto(t, to)
  /\ UpdateActive(th[t].key, status, evidence, processes[th[t].key].claim, {})
  /\ UNCHANGED <<memory, world>>

CommitOwner(t) ==
  /\ th[t].pc = "owned" /\ HostUp(th[t].key)
  /\ StartUpdate(t, "owned", "evidenced", "starting", "host")

SendSpec(t) ==
  /\ th[t].pc = "evidenced" /\ Goto(t, "sent")
  /\ host[th[t].key] = "waiting"
  /\ host' = [host EXCEPT ![th[t].key] = "spec"]
  /\ UNCHANGED <<repoVars, memory, alive, identified, released>>

\* The start goes on to its cleanup.
Failed(t, mode) == [th EXCEPT ![t].pc = "clean", ![t].mode = mode]

\* target_spawned was read; the owner learns the process group, also that of a
\* leader that is a zombie by now, whose identity can not be read any more.
BindTarget(t) ==
  LET k == th[t].key
  IN  /\ th[t].pc = "sent" /\ host[k] = "asking"
      /\ bound' = bound \cup {k}
      /\ th' = IF "leader" \in alive[k] THEN [th EXCEPT ![t].pc = "bound"]
               ELSE Failed(t, "start")
      /\ UNCHANGED <<repoVars, backend, manager, past, gate, runs, world>>

SendIdentity(t) ==
  /\ th[t].pc = "bound" /\ Goto(t, "told")
  /\ host[th[t].key] = "asking"
  /\ host' = [host EXCEPT ![th[t].key] = "told"]
  /\ UNCHANGED <<repoVars, memory, alive, identified, released>>

\* target_started was read.
CommitTarget(t) ==
  /\ th[t].pc = "told" /\ th[t].key \in identified /\ HostUp(th[t].key)
  /\ StartUpdate(t, "told", "full", "starting", "full")

CommitRunning(t) == StartUpdate(t, "full", "running", "running", "full")

Register(t) ==
  /\ th[t].pc = "running"
  /\ runs' = runs \cup {th[t].key}
  /\ th' = [th EXCEPT ![t] = Idle]
  /\ UNCHANGED <<repoVars, backend, manager, past, gate, bound, world>>

\* An exception in any of these steps: a timeout, a host that exited, a refused
\* update.
FailStart(t) ==
  /\ th[t].pc \in StartPcs
  /\ th' = Failed(t, IF th[t].pc \in {"reserved", "hosted"} THEN "host" ELSE "start")
  /\ UNCHANGED <<repoVars, memory, world>>

StartStep(t) ==
  \/ SpawnHost(t) \/ CreateOwner(t) \/ CommitOwner(t) \/ SendSpec(t) \/ BindTarget(t)
  \/ SendIdentity(t) \/ CommitTarget(t) \/ CommitRunning(t) \/ Register(t) \/ FailStart(t)

--------------------------------------------------------------------------------
(* service_host.py and the processes of the target. *)

\* The spec arrives, the target is spawned and announced.
HostSpawns(k) ==
  /\ host[k] = "spec"
  /\ host' = [host EXCEPT ![k] = "asking"]
  /\ alive' = [alive EXCEPT ![k] = {"leader"}]
  /\ UNCHANGED <<repoVars, memory, th, identified, released>>

\* The identity arrives: host-state is written, target_started sent.
HostServes(k) ==
  /\ host[k] = "told"
  /\ host' = [host EXCEPT ![k] = "serving"]
  /\ identified' = identified \cup {k}
  /\ UNCHANGED <<repoVars, memory, th, alive, released>>

\* cleanup_after_manager_loss: the group is killed unless its leader is gone.
CleanupTarget(k) == IF "leader" \in alive[k] THEN alive[k] \ {"leader", "child"} ELSE alive[k]

\* The target can not be spawned, or the channel is closed during the handshake or
\* brings something else than what the host waits for.
HostGivesUp(k) ==
  /\ \/ host[k] = "spec"
     \/ host[k] \in {"waiting", "asking"} /\ ~InHandshake(k)
  /\ host' = [host EXCEPT ![k] = "exited"]
  /\ alive' = [alive EXCEPT ![k] = CleanupTarget(k)]
  /\ UNCHANGED <<repoVars, memory, th, identified, released>>

\* control_loop reads the end of file.
HostStops(k) ==
  /\ host[k] = "serving" /\ ~Connected(k) /\ "leader" \in alive[k]
  /\ alive' = [alive EXCEPT ![k] = CleanupTarget(k)]
  /\ UNCHANGED <<repoVars, memory, th, host, identified, released>>

\* process.wait returned: what is left of the group is killed and the terminal
\* host-state written.
HostFinishes(k) ==
  /\ host[k] = "serving" /\ "leader" \notin alive[k]
  /\ host' = [host EXCEPT ![k] = "ending"]
  /\ KillGroup(k)
  /\ UNCHANGED <<repoVars, memory, th, identified, released>>

HostExits(k) ==
  /\ host[k] = "ending" /\ KillHost(k)
  /\ UNCHANGED <<repoVars, memory, th, alive, identified, released>>

HostDies(k) ==
  /\ HostMayDie /\ HostUp(k) /\ KillHost(k)
  /\ UNCHANGED <<repoVars, memory, th, alive, identified, released>>

\* A process that left the group does not come back to it.
Fork(k) ==
  /\ alive[k] # {}
  /\ \E p \in Children : /\ p = "child" => InGroup(k) # {}
                         /\ alive' = [alive EXCEPT ![k] = @ \cup {p}]
  /\ UNCHANGED <<repoVars, memory, th, host, identified, released>>

ProcessExits(k) ==
  /\ \E p \in alive[k] : alive' = [alive EXCEPT ![k] = @ \ {p}]
  /\ UNCHANGED <<repoVars, memory, th, host, identified, released>>

HostStep(k) == HostSpawns(k) \/ HostServes(k) \/ HostGivesUp(k) \/ HostStops(k)
               \/ HostFinishes(k) \/ HostExits(k)
TargetStep(k) == HostDies(k) \/ Fork(k) \/ ProcessExits(k)

--------------------------------------------------------------------------------
(* RunFinalizationCoordinator.finalize and the callers that pick its runs. *)

Mode(k) == IF k \in runs THEN "live" ELSE "persisted"

\* stop, restart, and the completion watcher of a run whose host has ended.
FinalizeRun(t, k) ==
  /\ th[t] = Idle /\ manager # None
  /\ \/ IsActive(processes[k])
     \/ k \in runs /\ host[k] \in {"ending", "exited"}
  /\ th' = [th EXCEPT ![t] = Calls("lock", k, Mode(k), "run", None, {})]
  /\ UNCHANGED <<repoVars, memory, world>>

\* SessionController.close and the part of sweep_once (or of reserve_run) that
\* expires the session; all of them go on to _finalize.
CloseSession(t, i) ==
  /\ th[t] = Idle /\ manager # None
  /\ \/ CloseRequest(i) \/ ExpireSession(i)
     \/ sessions[i].state \in SessionActiveStates \ {"open"} /\ UNCHANGED repoVars
  /\ th' = [th EXCEPT ![t] = Calls("next", None, "live", "close", i, sessions[i].runKeys)]
  /\ UNCHANGED <<memory, world>>

\* The loops of _finalize and of reconcile_manager_loss; the latter has a
\* deadline and passes no live owner (there is none).
NextRun(t, k) ==
  /\ th[t].pc = "next" /\ k \in th[t].todo
  /\ th' = [th EXCEPT ![t].todo = @ \ {k},
                      ![t].key = k, ![t].mode = Mode(k),
                      ![t].pc = IF IsActive(processes[k]) THEN "lock" ELSE "next"]
  /\ UNCHANGED <<repoVars, memory, world>>
SkipRun(t, k) ==
  /\ th[t].pc = "next" /\ th[t].call = "boot" /\ k \in th[t].todo
  /\ th' = [th EXCEPT ![t].todo = @ \ {k}]
  /\ UNCHANGED <<repoVars, memory, world>>

FinishClose(t) ==
  /\ th[t].pc = "next" /\ th[t].call = "close" /\ th[t].todo = {}
  /\ th' = [th EXCEPT ![t] = Idle]
  /\ IF sessions[th[t].session] = NoSession THEN UNCHANGED repoVars
     ELSE FinishSession(th[t].session)
  /\ UNCHANGED <<memory, world>>

\* The call is over for this run, by a result or by an exception.
Return(t) == [th EXCEPT ![t] = IF th[t].call = "run" THEN Idle
                               ELSE [th[t] EXCEPT !.pc = "next", !.claim = None,
                                                  !.seen = "none", !.verified = FALSE]]

\* finalization_lock of a live run, or the lock by process key of all others.
Locked(k, mode) ==
  \E t \in Threads : th[t].key = k /\ th[t].mode = mode
                     /\ th[t].pc \in {"claim", "enrich", "clean", "killed", "commit"}

\* The lock is taken and the record read again; a terminal record is the answer,
\* and an owner in memory is forgotten.
Lock(t) ==
  LET k == th[t].key
  IN  /\ th[t].pc = "lock" /\ ~Locked(k, th[t].mode)
      /\ IF IsActive(processes[k])
         THEN /\ th' = [th EXCEPT ![t].pc = "claim", ![t].seen = processes[k].evidence]
              /\ current' = [current EXCEPT ![k] = @ \cup {t}]
              /\ UNCHANGED runs
         ELSE /\ th' = Return(t)
              /\ runs' = IF th[t].mode = "live" THEN runs \ {k} ELSE runs
              /\ UNCHANGED current
      /\ UNCHANGED <<processes, active, sessions, history, issued, intakeFence,
                     workGeneration, backend, manager, past, gate, bound, world>>

\* A new claim id: any that nobody remembers is as good as another.
Fresh(k) == {id \in ClaimIds : /\ processes[k].claim.id # id
                               /\ \A t \in Threads : th[t].claim # id}

\* The record of the claim that was written or shared.
Claimed(t, pc, id) ==
  th' = [th EXCEPT ![t].pc = pc, ![t].claim = id, ![t].seen = processes[th[t].key].evidence]

\* The host-state file knows the target and the record does not.
Enrichable(t) == th[t].seen = "host" /\ th[t].key \in identified

\* _enrich_evidence completes the record, unless somebody touched it meanwhile;
\* a claim it already carries then stays.
EnrichEvidence(t, pc) ==
  LET k == th[t].key
  IN  IF t \in current[k]
      THEN /\ UpdateActive(k, "terminating", "full", processes[k].claim, {t})
           /\ th' = [th EXCEPT ![t].pc = pc, ![t].seen = "full"]
      ELSE th' = Return(t) /\ UNCHANGED repoVars

ClaimExpired(k) == processes[k].claim # NoClaim /\ processes[k].claim.expired

\* _claim inspects the owner before it takes an expired claim over.
EnrichExpired(t) ==
  LET k == th[t].key
  IN  /\ th[t].pc \in {"claim", "late"} /\ IsActive(processes[k])
      /\ ClaimExpired(k) /\ Enrichable(t)
      /\ EnrichEvidence(t, th[t].pc)
      /\ UNCHANGED <<memory, world>>

\* _claim: a new claim, or the one a thread of this manager already has.
NextPc(t) == IF th[t].pc = "late" THEN "commit"
             ELSE IF th[t].mode = "persisted" THEN "enrich" ELSE "clean"
ClaimRun(t) ==
  LET k == th[t].key
  IN  /\ th[t].pc \in {"claim", "late"}
      /\ IsActive(processes[k])
      /\ ~(ClaimExpired(k) /\ Enrichable(t))
      /\ \/ /\ ClaimShared(k, manager)
            /\ Claimed(t, NextPc(t), processes[k].claim.id)
            /\ current' = [current EXCEPT ![k] = @ \cup {t}]
            /\ UNCHANGED <<processes, active, sessions, history, issued, intakeFence,
                           workGeneration>>
         \/ \E id \in Fresh(k) :
              /\ ClaimFinalization(k, id, manager, Inspect(k, th[t].seen) # "unverifiable", {t})
              /\ Claimed(t, NextPc(t), id)
      /\ UNCHANGED <<memory, world>>

\* ... or neither: the run is terminal, or somebody else holds it.
ClaimRefused(t) ==
  LET k == th[t].key
  IN  /\ th[t].pc \in {"claim", "late"}
      /\ \/ ~IsActive(processes[k])
         \/ /\ processes[k].claim # NoClaim /\ ~ClaimShared(k, manager)
            /\ processes[k].claim.expired => /\ ~Enrichable(t)
                                             /\ Inspect(k, th[t].seen) = "unverifiable"
      /\ th' = Return(t)
      /\ UNCHANGED <<repoVars, memory, world>>

\* _enrich_evidence of the claimed record.
Enrich(t) ==
  /\ th[t].pc = "enrich"
  /\ IF Enrichable(t) THEN EnrichEvidence(t, "clean")
     ELSE Goto(t, "clean") /\ UNCHANGED repoVars
  /\ UNCHANGED <<memory, world>>

\* finalize_live and finalize_persisted: wait, force, wait.
ForceOwner(t) ==
  LET k == th[t].key
  IN  /\ th[t].pc = "clean" /\ ~OwnerEmpty(k, th[t].mode, th[t].seen)
      /\ th[t].mode = "persisted" => Inspect(k, th[t].seen) = "active"
      /\ ForceStop(k, th[t].mode)
      /\ Goto(t, "killed")
      /\ UNCHANGED <<repoVars, memory, identified, released>>

\* Mutant: the signal is taken for its effect.
Trusted(t) == TRUE
Verified(t) == OwnerEmpty(th[t].key, th[t].mode, th[t].seen)

Observe(t) ==
  LET k == th[t].key
      verified == Verified(t)
  IN  /\ \/ th[t].pc = "killed"
         \/ th[t].pc = "clean" /\ verified
         \/ th[t].pc = "clean" /\ th[t].mode = "persisted"
            /\ Inspect(k, th[t].seen) = "unverifiable"
      /\ th' = [th EXCEPT ![t].verified = verified,
                          ![t].pc = IF th[t].mode \in {"start", "host"} THEN "late" ELSE "commit"]
      /\ released' = IF verified /\ backend = "cgroup" /\ th[t].mode # "host"
                     THEN released \cup {k} ELSE released
      /\ UNCHANGED <<repoVars, memory, host, alive, identified>>

\* commit_finalization; a claim that is gone is an exception, and the automatic
\* prune that follows the commit may raise one too: then the run stays in _runs.
Commit(t) ==
  LET k == th[t].key
  IN  /\ th[t].pc = "commit"
      /\ IF HoldsClaim(k, th[t].claim)
         THEN /\ CommitFinalization(k, th[t].claim, th[t].verified)
              /\ \/ UNCHANGED runs
                 \/ th[t].verified /\ th[t].mode = "live" /\ runs' = runs \ {k}
         ELSE UNCHANGED <<repoVars, runs>>
      /\ th' = Return(t)
      /\ UNCHANGED <<backend, manager, past, gate, bound, world>>

FinalizeStep(t) ==
  \/ Lock(t) \/ EnrichExpired(t) \/ ClaimRun(t) \/ ClaimRefused(t) \/ Enrich(t)
  \/ ForceOwner(t) \/ Observe(t) \/ Commit(t)

--------------------------------------------------------------------------------
(* The manager process. *)

\* ProcessManager.__init__: the runs of other instances are finalized before the
\* gate opens.
Boot(m, t) ==
  /\ manager = None /\ m \notin past
  /\ manager' = m /\ past' = past \cup {m}
  /\ th' = [th EXCEPT ![t] =
       Calls("next", None, "persisted", "boot", None,
             {k \in ActiveKeys : processes[k].manager # m})]
  /\ UNCHANGED <<repoVars, backend, gate, runs, bound, world>>

OpenGate(t) ==
  /\ th[t].pc = "next" /\ th[t].call = "boot" /\ th[t].todo = {}
  /\ gate' = TRUE /\ th' = [th EXCEPT ![t] = Idle]
  /\ UNCHANGED <<repoVars, backend, manager, past, runs, bound, world>>

\* Nothing but the memory of the manager is lost.
Crash ==
  /\ manager # None
  /\ manager' = None /\ gate' = FALSE /\ runs' = {} /\ bound' = {}
  /\ th' = [t \in Threads |-> Idle]
  /\ current' = [k \in Keys |-> {}]
  /\ UNCHANGED <<processes, active, sessions, history, issued, intakeFence,
                 workGeneration, backend, past, world>>

ThreadStep(t) ==
  \/ StartStep(t) \/ FinalizeStep(t) \/ FinishClose(t) \/ OpenGate(t)
  \/ \E k \in Keys : NextRun(t, k) \/ SkipRun(t, k)

NewCall(t) ==
  \/ \E k \in Keys : FinalizeRun(t, k) \/ \E i \in Sessions \cup {None} : StartRun(t, k, i)
  \/ \E i \in Sessions : CloseSession(t, i)

ManagedNext ==
  \/ \E t \in Threads : ThreadStep(t) \/ NewCall(t) \/ \E m \in Instances : Boot(m, t)
  \/ \E k \in Keys :
       HostStep(k) \/ TargetStep(k) \/ (ExpireClaim(k) /\ UNCHANGED <<memory, th, world>>)
  \/ \E i \in Sessions :
       gate /\ OpenSession(i, manager) /\ UNCHANGED <<memory, th, world>>
  \/ Crash

ManagedSpec == ManagedInit /\ [][ManagedNext]_vars

\* The threads of the manager, its host processes and the clock make progress;
\* the sweeper has a thread of its own and comes back to every session that is
\* not open.  Nobody has to boot a manager, call anything, or exit on SIGTERM.
Fairness ==
  /\ \A t \in Threads : WF_vars(ThreadStep(t))
  /\ \A k \in Keys : /\ WF_vars(HostStep(k))
                    /\ WF_vars(ExpireClaim(k) /\ UNCHANGED <<memory, th, world>>)
  /\ \A i \in Sessions :
       SF_vars(sessions[i].state # "open" /\ \E t \in Threads : CloseSession(t, i))

FairSpec == ManagedSpec /\ Fairness

--------------------------------------------------------------------------------
\* Whatever still runs of a run's processes, the repository has an active record
\* for: a terminal status with cleanupVerified proves the owner empty
\* (service-schema.md:141), through every race of start, stop, close and crash.
NoOrphans == \A k \in Keys : ~ProcessesGone(k) => IsActive(processes[k])

\* The owner of a run still has a process to answer for: a cgroup for all of them,
\* a process group, once the record names it, for its members and the host (a
\* process that leaves its group is out of reach: platform-backends.md).
Populated(k) ==
  CASE backend = "cgroup" -> ~ProcessesGone(k)
    [] OTHER -> /\ processes[k] # NoRecord
                /\ processes[k].evidence = "full"
                /\ HostUp(k) \/ InGroup(k) # {}

\* What the runs look like from outside.
Phase(k) == CASE k \notin issued -> "new"
              [] IsActive(processes[k]) -> "live"
              [] OTHER -> "ended"
Promise == INSTANCE ServiceRuns WITH phase <- [k \in Keys |-> Phase(k)],
                                     populated <- {k \in Keys : Populated(k)}

\* The manager, its hosts and its crashes keep the promise of ServiceRuns: a run
\* is ended only when its owner is empty, for good, and replaced only then.
KeepsPromise == Promise!Spec

\* The threads change the repository by its operations only, so that what holds
\* of RunRepository holds here (remembered revisions are hidden).  The formula is
\* Repository!Spec; TLC decides it faster when most steps are seen to stutter first.
Repository == INSTANCE RunRepository WITH Readers <- {}, current <- [k \in Keys |-> {}]
Stutters == UNCHANGED Repository!repoVars
UsesRepository == Repository!Init /\ [][Stutters \/ Repository!Next]_(Repository!repoVars)

\* What a thread has found empty is empty when it commits, some steps later.
VerifiedIsEmpty ==
  \A t \in Threads : th[t].verified => ~HostUp(th[t].key) /\ ~Populated(th[t].key)

\* A start that is given up leaves nothing behind but what its record still
\* answers for: once its session is closed no owner of its runs has a process.
ClosedSessionsClean ==
  /\ ManagedTypeOK
  /\ \A i \in Sessions \cap tombstones, k \in Keys :
       processes[k] # NoRecord => (processes[k].owner = i => ~Populated(k))

\* No later finalizer can verify the owner of k: the evidence the record (with the
\* host-state file) holds is not enough.
KnownEvidence(k) ==
  IF processes[k].evidence = "host" /\ k \in identified THEN "full" ELSE processes[k].evidence
Unverifiable(k) == Inspect(k, KnownEvidence(k)) = "unverifiable"

Closing(i) == sessions[i].state \in SessionActiveStates \ {"open"}

\* A manager stays up.
Settled == <>[](manager # None)

\* Close, expiry and restart go on with the finalizer of a run until its owner is
\* empty and the session closed (execution-plan.md of the control-plane
\* convergence, AC-09), as long as the owner can be verified at all.
SessionsClose ==
  \A i \in Sessions :
    Settled => []<>(~Closing(i) \/ \E k \in sessions[i].runKeys : Unverifiable(k))

\* The owner in memory watches a cgroup that another finalizer has removed.
OwnerTakenAway(k) == k \in runs /\ k \in released

\* Unless that happens, a session that is to be closed is closed.
UndisturbedSessionsClose ==
  \A i \in Sessions :
    Settled => []<>(~Closing(i) \/ \E k \in sessions[i].runKeys :
                                     Unverifiable(k) \/ OwnerTakenAway(k))
================================================================================
