--------------------------- MODULE ManagerOperation ---------------------------
(***************************************************************************)
(* ensure, stop and restart of the manager process (process-manager,       *)
(* manager_lifecycle.py, manager_start.py, manager_state.py, runtime.py,   *)
(* bootstrap.py and manager_server.py).                                    *)
(*                                                                         *)
(* A client holds the operation lock for the whole command and notes each  *)
(* step as a checkpoint of the one operation receipt.  It may be killed    *)
(* between any two writes; the next client finds the receipt, the intake   *)
(* fence, manager.json (identity), bootstrap.json (capture) and the        *)
(* processes as they were left, and resumes or gives up.  The manager a    *)
(* client has launched boots on its own: it reads the receipt three times  *)
(* and publishes its identity when it still is the one expected.           *)
(*                                                                         *)
(* Abstractions.  Live work is a set with "run" and "session" in it.  The  *)
(* clocks may pass any deadline at any time.  Managers are launched as     *)
(* detached processes (windows-detached, posix-session); a native unit is  *)
(* not modelled.  Only the lock holder writes the receipt, so the client's *)
(* copy is the file.                                                       *)
(***************************************************************************)
EXTENDS Integers, FiniteSets

CONSTANTS Managers,      \* manager processes, by instance id
          MaxReceipts,   \* bound: receipts of new commands
          MaxGeneration, \* bound: the generation at which new work may begin
          MaxVersion,    \* bound: runtime fingerprints
          MaxFaults,     \* bound: killed clients, lost managers, waits that end too
                         \* soon, boots that come too late, and upgrades
          None

\* A command that is killed may leave a receipt to be replaced.
Ids == 0..MaxReceipts + MaxFaults + 1
Generations == 0..MaxGeneration + 2

ASSUME OperationAssumption ==
  /\ IsFiniteSet(Managers) /\ None \notin Managers
  /\ {MaxReceipts, MaxGeneration, MaxFaults} \subseteq Nat /\ MaxVersion \in Nat \ {0}

VARIABLES receipt,     \* operation.json
          fence,       \* receipt the intake fence names, 0 for none
          work,        \* live ownership in the repository
          generation,  \* state["workGeneration"]
          identity,    \* the manager named by manager.json
          capture,     \* the manager named by bootstrap.json
          process,     \* the manager processes
          version,     \* fingerprint of the installed code
          client,      \* the holder of the operation lock
          faults,
          late         \* a boot has escaped the cleanup of its receipt (history)

repository == <<fence, work, generation>>
boot == <<identity, capture, process>>
vars == <<receipt, repository, boot, version, client, faults, late>>

--------------------------------------------------------------------------------
Kinds == {"ensure", "stop", "restart"}
StopSteps == <<"intake-closed", "runs-terminating", "owners-empty",
               "manager-stopped", "bootstrap-cleaned">>
StartSteps == <<"runtime-verified", "bootstrap-launched",
                "identity-published", "endpoint-ready">>
Checkpoints == {"start-requested", "stop-requested", "restart-requested"}
                 \cup {StopSteps[k] : k \in 1..5} \cup {StartSteps[k] : k \in 1..4}
StartCheckpoints == {StartSteps[k] : k \in 1..4}
Requested(kind) == IF kind = "ensure" THEN "start-requested"
                   ELSE IF kind = "stop" THEN "stop-requested" ELSE "restart-requested"
RestartStopCheckpoints == {"restart-requested"} \cup {StopSteps[k] : k \in 1..5}

NoReceipt == [id |-> 0, kind |-> "none", state |-> "none", at |-> "none", old |-> None,
              new |-> None, version |-> 0, generation |-> 0, expired |-> FALSE]

\* OperationStore.create: `old` is expectedInstanceId, `new` replacementInstanceId.
NewReceipt(kind, gen, old) ==
  [id |-> receipt.id + 1, kind |-> kind, state |-> "pending", at |-> Requested(kind),
   old |-> old, new |-> None, version |-> IF kind = "stop" THEN 0 ELSE version,
   generation |-> gen, expired |-> FALSE]

Pending == receipt.state = "pending"
Renewed == [receipt EXCEPT !.expired = FALSE]
Fail == [receipt EXCEPT !.state = "failed"]
Succeed == [receipt EXCEPT !.state = "succeeded"]
Advance(to) == [receipt EXCEPT !.at = to]

\* spawned: no receipt read yet; admitted: first read passed; captured: capture
\* written; locked: second read passed, manager lock taken; cleared: third read
\* passed; published: identity written; serving; stopping: shutdown accepted.
Alive == {"spawned", "admitted", "captured", "locked", "cleared",
          "published", "serving", "stopping"}
HoldsLock == {"locked", "cleared", "published", "serving", "stopping"}
IsAlive(m) == process[m].pc \in Alive
LockFree == \A m \in Managers : process[m].pc \notin HoldsLock

IdleClient == [cmd |-> "none", pc |-> "idle", confirmed |-> FALSE, idle |-> FALSE,
               generation |-> 0, seen |-> None, launch |-> FALSE, launched |-> None]
ClientSteps == {"idle", "resolve", "request", "fence", "close", "recover", "clean",
                "giveup", "replace", "stop", "awaitexit", "reconcile", "run", "launch",
                "launched", "watch", "wait", "ready", "complete", "succeed", "unfence",
                "failclean", "fail"}

\* The files, the processes and the client; only a restart names a replacement.
TypeOK ==
  /\ receipt \in [id : Ids, kind : Kinds \cup {"none"},
                  state : {"none", "pending", "succeeded", "failed"},
                  at : Checkpoints \cup {"none"},
                  old : Managers \cup {None}, new : Managers \cup {None},
                  version : 0..MaxVersion, generation : Generations,
                  expired : BOOLEAN]
  /\ receipt.kind # "restart" => receipt.new = None
  /\ fence \in Ids
  /\ work \subseteq {"run", "session"}
  /\ generation \in Generations
  /\ {identity, capture} \subseteq Managers \cup {None}
  /\ process \in [Managers -> [pc : Alive \cup {"unused", "gone"},
                               operation : Ids, version : 0..MaxVersion]]
  /\ version \in 1..MaxVersion
  /\ client \in [cmd : Kinds \cup {"none"}, pc : ClientSteps, confirmed : BOOLEAN,
                 idle : BOOLEAN, generation : Generations,
                 seen : Managers \cup {None}, launch : BOOLEAN,
                 launched : Managers \cup {None}]
  /\ faults \in 0..MaxFaults /\ late \in BOOLEAN

Init ==
  /\ receipt = NoReceipt
  /\ fence = 0 /\ work = {} /\ generation = 0
  /\ identity = None /\ capture = None
  /\ process = [m \in Managers |-> [pc |-> "unused", operation |-> 0, version |-> 0]]
  /\ version = 1
  /\ client = IdleClient
  /\ faults = 0 /\ late = FALSE

--------------------------------------------------------------------------------
(* What a client sees: ManagerStateResolver.resolve.  A manager that has not *)
(* begun to serve does not answer; one that serves may or may not.           *)

PendingState ==
  IF \/ receipt.kind = "stop"
     \/ receipt.kind = "restart" /\ receipt.at \in RestartStopCheckpoints
  THEN "stopping" ELSE "starting"

\* No manager.json.  `own`: the caller reconciles this very receipt.
AbsentStates(own) ==
  IF Pending
  THEN IF own /\ PendingState = "stopping" /\ receipt.at # Requested(receipt.kind)
          /\ capture = None
       THEN {"absent"}
       ELSE {IF receipt.expired THEN "stale" ELSE PendingState}
  ELSE {IF capture # None THEN "stale" ELSE "absent"}

\* The manager of manager.json is alive and answers, or does not.
Answering ==
  IF process[identity].pc # "serving" THEN {}
  ELSE {IF Pending /\ PendingState = "stopping" /\ ~receipt.expired THEN "stopping" ELSE "ready"}
Silent == {IF Pending /\ ~receipt.expired THEN PendingState ELSE "unresponsive"}

VersionDrift == Pending /\ receipt.kind # "stop" /\ receipt.version # version
ForeignStart == /\ Pending /\ receipt.kind # "stop" /\ receipt.at \in StartCheckpoints
                /\ process[identity].operation # receipt.id
ForeignInstance == receipt.kind = "ensure" /\ receipt.old \notin {None, identity}

States(own) ==
  IF VersionDrift THEN {"stale"}
  ELSE IF identity = None THEN AbsentStates(own)
  ELSE IF ForeignStart THEN {"corrupt"}
  ELSE IF process[identity].version # version THEN {"stale"}
  ELSE IF ForeignInstance THEN {"corrupt"}
  ELSE IF ~IsAlive(identity) THEN {"stale"}
  ELSE Answering \cup Silent

--------------------------------------------------------------------------------
(* The client.                                                              *)

\* Something goes wrong once more.
Fault == faults < MaxFaults /\ faults' = faults + 1
LocalFault == UNCHANGED <<receipt, repository, boot, version, late>>

At(pc) == client.pc = pc
Goto(pc) == client' = [client EXCEPT !.pc = pc]
\* The command returns or raises; the lock is released.
End == client' = IdleClient

\* clear_terminal_intake_fence, first thing of every command under the lock.
FenceBelongs == fence # 0 => receipt.id = fence
Clearable == FenceBelongs /\ (fence = 0 \/ Pending \/ work = {})
\* Mutant: only a later receipt is told from the fence's.
KeepFence == fence' = fence
ClearFence == fence' = IF Pending THEN fence ELSE 0

Begin(cmd, confirmed, idle) ==
  /\ At("idle") /\ (Pending \/ fence # 0 \/ receipt.id < MaxReceipts)
  /\ idle => cmd = "stop"
  /\ confirmed => cmd # "ensure" /\ ~idle
  /\ Clearable /\ ClearFence
  /\ client' = [IdleClient EXCEPT
       !.cmd = cmd, !.confirmed = confirmed, !.idle = idle, !.generation = generation,
       !.pc = IF cmd = "restart" THEN "request" ELSE "resolve",
       !.seen = IF cmd = "restart" THEN identity ELSE None]
  /\ UNCHANGED <<receipt, work, generation, boot, version, faults, late>>

\* The receipt with the manager that an ensure or a restart has got.
Identified(at, m) == IF receipt.kind = "ensure" THEN [receipt EXCEPT !.at = at, !.old = m]
                     ELSE [receipt EXCEPT !.at = at, !.new = m]

Write(r) == receipt' = r /\ UNCHANGED <<repository, boot, version, faults, late>>
Local == UNCHANGED <<receipt, repository, boot, version, faults, late>>

\* ensure: a manager that is ready ends it, if need be with the pending receipt.
EnsureReady ==
  /\ At("resolve") /\ client.cmd = "ensure" /\ "ready" \in States(FALSE)
  /\ IF Pending /\ receipt.kind = "ensure"
     THEN client' = [client EXCEPT !.pc = "ready", !.seen = identity]
     ELSE End
  /\ Local

\* ensure: nothing is ready; resume the pending ensure, or begin a new one.
EnsureResume ==
  /\ At("resolve") /\ client.cmd = "ensure" /\ States(FALSE) # {"ready"} /\ Pending
  /\ IF receipt.kind = "ensure" THEN Goto("recover") ELSE End
  /\ Local

EnsureCreate ==
  /\ At("resolve") /\ client.cmd = "ensure" /\ ~Pending
  /\ \E s \in States(FALSE) \ {"ready"} :
       IF s = "absent"
       THEN /\ receipt.id < MaxReceipts
            /\ Write(NewReceipt("ensure", 0, None))
            /\ client' = [client EXCEPT !.pc = "run", !.launch = TRUE]
       ELSE Local /\ End

\* stop: nothing to do, or on to the receipt.
StopResolve ==
  /\ At("resolve") /\ client.cmd = "stop"
  /\ \E s \in States(FALSE) :
       IF s = "absent" /\ work = {} /\ ~Pending
       THEN End
       ELSE client' = [client EXCEPT !.pc = "request",
                                     !.seen = IF VersionDrift THEN None ELSE identity]
  /\ Local

--------------------------------------------------------------------------------
(* _destructive_operation: one repository transaction that writes receipt,  *)
(* fence and receipt.  No work begins or ends between, but a client may be  *)
(* killed between.                                                          *)

\* Past its request checkpoint a pending receipt is resumed with its fence.
RequestResume ==
  /\ At("request") /\ Pending /\ receipt.kind = client.cmd
  /\ receipt.at # Requested(receipt.kind)
  /\ IF fence # receipt.id
     THEN IF receipt.at = "bootstrap-cleaned" /\ fence = 0 /\ work = {}
          THEN Goto(IF client.cmd = "stop" THEN "stop" ELSE "recover") /\ Local
          ELSE End /\ Local
     ELSE /\ Goto(IF /\ client.cmd = "restart"
                     /\ receipt.at \in StartCheckpoints \cup {"bootstrap-cleaned"}
                  THEN "recover" ELSE "stop")
          /\ Write(Renewed)

RequestRefused ==
  /\ At("request")
  /\ \/ Pending /\ receipt.kind # client.cmd
     \/ /\ ~(Pending /\ receipt.at # Requested(receipt.kind))
        /\ ~client.idle /\ ~client.confirmed /\ work # {}
     \/ /\ Pending /\ receipt.at = Requested(receipt.kind) /\ client.idle
        /\ client.generation # receipt.generation
  /\ End /\ Local

\* The generation the fence is to be installed for.
Expected == IF client.idle THEN client.generation ELSE generation
MayRequest == client.idle \/ client.confirmed \/ work = {}

RequestPending ==
  /\ At("request") /\ Pending /\ receipt.kind = client.cmd
  /\ receipt.at = Requested(receipt.kind) /\ MayRequest
  /\ client.idle => client.generation = receipt.generation
  /\ IF receipt.generation # Expected
     THEN Write(Fail) /\ End
     ELSE Write(Renewed) /\ Goto("fence")

RequestNew ==
  /\ At("request") /\ ~Pending /\ MayRequest /\ receipt.id < MaxReceipts
  /\ Write(NewReceipt(client.cmd, Expected, client.seen))
  /\ Goto("fence")

\* Mutant: intake is closed for a manager without work only.
FencedIfIdle == fence' = IF work = {} THEN receipt.id ELSE fence
Fenced == fence' = receipt.id

\* install_intake_fence, or the receipt fails.
InstallFence ==
  /\ At("fence")
  /\ IF \/ fence = receipt.id
        \/ fence = 0 /\ generation = receipt.generation /\ (client.idle => work = {})
     THEN /\ Fenced /\ Goto("close")
          /\ UNCHANGED <<receipt, work, generation, boot, version, faults, late>>
     ELSE Write(Fail) /\ End

CloseIntake ==
  /\ At("close") /\ Write(Advance("intake-closed")) /\ Goto("stop")

\* The transaction of _destructive_operation is open.
InTransaction == client.pc \in {"fence", "close"}

--------------------------------------------------------------------------------
(* _stop_phase.                                                             *)

StopBegin ==
  /\ At("stop") /\ receipt.at = "intake-closed"
  /\ Write(Advance("runs-terminating")) /\ UNCHANGED client

\* _stop_exact_manager: which way the manager is stopped.
StopWay(s) ==
  IF s = "stopping" /\ IsAlive(identity) /\ ~VersionDrift
  THEN IF process[identity].pc = "serving" THEN {"graceful", "force"} ELSE {"force"}
  ELSE CASE s = "ready" -> {"graceful"}
         [] s \in {"stale", "unresponsive"} -> {"force"}
         [] OTHER -> {}
StopWays == UNION {StopWay(s) : s \in States(TRUE)}

Terminate(m) == [process EXCEPT ![m].pc = "gone"]

StopNothing ==
  /\ At("stop") /\ receipt.at = "runs-terminating" /\ identity = None
  /\ Goto("reconcile") /\ Local

\* The receipt names the instance it stops before it stops it.
StopBind ==
  /\ At("stop") /\ receipt.at = "runs-terminating" /\ identity # None /\ receipt.old = None
  /\ Write([receipt EXCEPT !.old = identity]) /\ UNCHANGED client

StopForeign ==
  /\ At("stop") /\ receipt.at = "runs-terminating" /\ identity # None
  /\ receipt.old \notin {None, identity} \/ StopWays = {}
  /\ End /\ Local

StopGraceful ==
  /\ At("stop") /\ receipt.at = "runs-terminating" /\ identity # None
  /\ receipt.old = identity /\ "graceful" \in StopWays
  /\ process' = [process EXCEPT ![identity].pc = "stopping"]
  /\ Goto("awaitexit")
  /\ UNCHANGED <<receipt, repository, identity, capture, version, faults, late>>

StopForced ==
  /\ At("stop") /\ receipt.at = "runs-terminating" /\ identity # None
  /\ receipt.old = identity /\ "force" \in StopWays
  /\ process' = Terminate(identity) /\ identity' = None
  /\ Goto("reconcile")
  /\ UNCHANGED <<receipt, repository, capture, version, faults, late>>

\* Mutant: an accepted shutdown is taken for the exit.
Accepted == TRUE
Exited == process[receipt.old].pc = "gone"

StopExited ==
  /\ At("awaitexit") /\ Exited
  /\ identity' = IF identity = receipt.old THEN None ELSE identity
  /\ IF identity' = None THEN Goto("reconcile") ELSE End
  /\ UNCHANGED <<receipt, repository, capture, process, version, faults, late>>

\* reconcile_manager_loss ends the runs of the manager, or leaves some pending.
Reconcile ==
  /\ At("reconcile")
  /\ work' = work \ {"run"}
  /\ receipt' = Advance("owners-empty")
  /\ Goto("stop")
  /\ UNCHANGED <<fence, generation, boot, version, faults, late>>

StopOwnersEmpty ==
  /\ At("stop") /\ receipt.at = "owners-empty"
  /\ IF identity # None THEN Local /\ End
     ELSE Write(Advance("manager-stopped")) /\ UNCHANGED client

\* cleanup_residue: a process that has written the capture is terminated.
\* Mutant: only its file is removed.
Uncaptured == process
Cleaned == IF capture = None THEN process ELSE Terminate(capture)

StopCleanBoot ==
  /\ At("stop") /\ receipt.at = "manager-stopped"
  /\ process' = Cleaned /\ capture' = None
  /\ receipt' = Advance("bootstrap-cleaned")
  /\ UNCHANGED <<repository, identity, version, client, faults, late>>

\* close_orphaned_sessions; a stop is then done, a restart goes on to start.
StopSessions ==
  /\ At("stop") /\ receipt.at = "bootstrap-cleaned"
  /\ work' = work \ {"session"}
  /\ IF client.cmd = "stop" THEN Goto("succeed")
     ELSE client' = [client EXCEPT !.pc = "run", !.launch = TRUE]
  /\ UNCHANGED <<receipt, fence, generation, boot, version, faults, late>>

--------------------------------------------------------------------------------
(* ManagerStartCoordinator.recover: an abandoned start.                     *)

AfterRecover(launch) ==
  client' = [client EXCEPT !.launch = launch,
    !.pc = IF client.cmd = "restart" /\ receipt'.at \notin StartCheckpoints
           THEN IF receipt'.at = "restart-requested" THEN "request" ELSE "stop"
           ELSE "run"]

NotLaunched == /\ receipt.at \in {"start-requested", "bootstrap-cleaned"}
               /\ receipt.version = version /\ identity = None
\* Mutant: a start is given up for new code only.
Outdated == receipt.version # version
Abandoned == receipt.version # version \/ receipt.expired

RecoverResume ==
  /\ At("recover") /\ NotLaunched
  /\ Write(Renewed) /\ AfterRecover(TRUE)

RecoverWait ==
  /\ At("recover") /\ ~NotLaunched /\ ~Abandoned
  /\ Write(receipt) /\ AfterRecover(FALSE)

\* Whether manager.json is the manager this receipt has launched.
IsOurs == /\ process[identity].operation = receipt.id
          /\ process[identity].version = receipt.version
          /\ (IF receipt.kind = "restart" THEN receipt.new ELSE receipt.old) \in {None, identity}

RecoverRefused ==
  /\ At("recover") /\ ~NotLaunched /\ Abandoned /\ identity # None /\ ~IsOurs
  /\ End /\ Local

\* As a rule a process has written its capture, or is gone, by the time its
\* receipt is given up, and does not publish between the two cleanups.
Escapes(happens) == IF happens THEN Fault /\ late' = TRUE ELSE UNCHANGED <<faults, late>>
Booting == \E m \in Managers : process[m].pc \in {"spawned", "admitted"}

RecoverStop ==
  /\ At("recover") /\ ~NotLaunched /\ Abandoned /\ Escapes(Booting)
  /\ \/ identity = None /\ UNCHANGED <<receipt, process, identity>>
     \/ /\ identity # None /\ IsOurs
        /\ receipt' = IF receipt.kind = "restart" THEN [receipt EXCEPT !.new = identity]
                      ELSE receipt
        /\ process' = Terminate(identity) /\ identity' = None
  /\ Goto("clean")
  /\ UNCHANGED <<repository, capture, version>>

RecoverClean ==
  /\ At("clean")
  /\ process' = Cleaned /\ capture' = None
  /\ Goto("giveup")
  /\ UNCHANGED <<receipt, repository, identity, version, faults, late>>

RecoverFail == At("giveup") /\ Write(Fail) /\ Goto("replace")

\* Mutant: the fence of the given up restart is left to the new one.
LeaveFence == fence' = fence
ReleaseFence == fence' = IF client.cmd = "restart" THEN 0 ELSE fence

\* A restart lifts its fence (release_terminal_fence) before the new receipt.
RecoverReplace ==
  /\ At("replace")
  /\ IF client.cmd = "restart" /\ ~Clearable
     THEN End /\ Local
     ELSE /\ receipt.id + 1 \in Ids
          /\ ReleaseFence
          /\ receipt' = NewReceipt(client.cmd,
               IF client.cmd = "restart" THEN generation ELSE 0,
               IF client.cmd = "restart" THEN receipt.old ELSE None)
          /\ AfterRecover(TRUE)
          /\ UNCHANGED <<work, generation, boot, version, faults, late>>

--------------------------------------------------------------------------------
(* ManagerStartCoordinator.run.                                             *)

See(m) == [client EXCEPT !.pc = "ready", !.seen = m]

RunReady ==
  /\ At("run") /\ "ready" \in States(TRUE)
  /\ client' = See(identity) /\ Local

RunWait ==
  /\ At("run") /\ States(TRUE) # {"ready"}
  /\ ~client.launch \/ receipt.at \in {"bootstrap-launched", "identity-published"}
  /\ Goto("wait") /\ Local

\* The fingerprint is asserted again; then the process is spawned.
RunVerify ==
  /\ At("run") /\ States(TRUE) # {"ready"}
  /\ client.launch /\ receipt.at \notin {"bootstrap-launched", "identity-published"}
  /\ IF receipt.version = version
     THEN Write(Advance("runtime-verified")) /\ Goto("launch")
     ELSE Goto("fail") /\ Local

\* Instance ids are unique: one is used again only when nothing names it.
IsFresh(m) == /\ process[m].pc \in {"unused", "gone"}
              /\ m \notin {identity, capture, receipt.old, receipt.new}

RunLaunch ==
  /\ At("launch")
  /\ \E m \in Managers :
       /\ IsFresh(m)
       /\ process' = [process EXCEPT ![m] =
            [pc |-> "spawned", operation |-> receipt.id, version |-> receipt.version]]
       /\ client' = [client EXCEPT !.pc = "launched", !.launched = m]
  /\ UNCHANGED <<receipt, repository, identity, capture, version, faults, late>>

RunLaunchFails == At("launch") /\ Goto("failclean") /\ Local

RunLaunched ==
  /\ At("launched") /\ Write(Advance("bootstrap-launched")) /\ Goto("watch")

\* A poll of the boot notes the identity as soon as it is there.
WatchIdentity ==
  /\ At("watch") /\ identity # None /\ ~VersionDrift
  /\ receipt.at = "bootstrap-launched"
  /\ Write(Identified("identity-published", identity))
  /\ UNCHANGED client

WatchReady ==
  /\ At("watch") /\ receipt.at = "identity-published" /\ "ready" \in States(TRUE)
  /\ client' = See(identity) /\ Local

\* The process has exited, the code has changed, or the state is neither ready
\* nor starting.
WatchFail ==
  /\ At("watch") /\ Goto("failclean")
  /\ ~IsAlive(client.launched) \/ VersionDrift \/ States(TRUE) \ {"ready", "starting"} # {}
  /\ Local

\* The deadline of the command passes first.
WatchExpires == At("watch") /\ Goto("failclean") /\ Fault /\ LocalFault

\* cleanup_bootstrap_result: the process launched here, then the residue.
FailClean ==
  /\ At("failclean")
  /\ process' = [m \in Managers |-> IF m \in {client.launched, capture}
                                     THEN [process[m] EXCEPT !.pc = "gone"] ELSE process[m]]
  /\ capture' = None
  /\ Goto("fail")
  /\ UNCHANGED <<receipt, repository, identity, version, faults, late>>

FailReceipt == At("fail") /\ Write(Fail) /\ End

WaitReady ==
  /\ At("wait") /\ "ready" \in States(TRUE) /\ receipt.version = version
  /\ client' = See(identity) /\ Local

\* The receipt stays pending for a later command.
WaitGivesUp == At("wait") /\ End /\ Local

--------------------------------------------------------------------------------
(* The end of ensure and restart.                                           *)

Expects == IF receipt.kind = "ensure" THEN receipt.old \in {None, client.seen}
           ELSE client.seen # receipt.old /\ receipt.new \in {None, client.seen}

Complete ==
  /\ At("ready")
  /\ IF Expects
     THEN Write(Identified("endpoint-ready", client.seen)) /\ Goto("succeed")
     ELSE End /\ Local

Finish ==
  /\ At("succeed") /\ Write(Succeed)
  /\ IF receipt.kind = "ensure" THEN End ELSE Goto("unfence")

\* clear_terminal_intake_fence after a stop or restart has succeeded.
Unfence ==
  /\ At("unfence")
  /\ fence' = IF Clearable THEN 0 ELSE fence
  /\ End
  /\ UNCHANGED <<receipt, work, generation, boot, version, faults, late>>

\* A bounded wait is over, an owner cannot be verified: the command raises and
\* leaves the receipt pending.
GiveUp ==
  /\ \/ client.pc \in {"awaitexit", "reconcile"}
     \/ At("stop") /\ receipt.at = "bootstrap-cleaned"
  /\ End /\ Fault /\ LocalFault

\* The client is killed; the operating system releases the operation lock.
Kill ==
  /\ client # IdleClient /\ Fault /\ End
  /\ UNCHANGED <<receipt, repository, boot, version, late>>

Client ==
  \/ EnsureReady \/ EnsureResume \/ EnsureCreate \/ StopResolve
  \/ RequestResume \/ RequestRefused \/ RequestPending \/ RequestNew
  \/ InstallFence \/ CloseIntake
  \/ StopBegin \/ StopNothing \/ StopBind \/ StopForeign \/ StopGraceful \/ StopForced
  \/ StopExited \/ Reconcile \/ StopOwnersEmpty \/ StopCleanBoot \/ StopSessions
  \/ RecoverResume \/ RecoverWait \/ RecoverRefused \/ RecoverStop \/ RecoverClean
  \/ RecoverFail \/ RecoverReplace
  \/ RunReady \/ RunWait \/ RunVerify \/ RunLaunch \/ RunLaunchFails \/ RunLaunched
  \/ WatchIdentity \/ WatchReady \/ WatchFail \/ FailClean \/ FailReceipt
  \/ WaitReady \/ WaitGivesUp
  \/ Complete \/ Finish \/ Unfence

--------------------------------------------------------------------------------
(* The manager process: manager_server.main.                                *)

\* require_parent_operation
Parent(m) ==
  /\ Pending /\ receipt.kind # "stop" /\ receipt.id = process[m].operation
  /\ receipt.at \in {"runtime-verified", "bootstrap-launched"}
  /\ receipt.version = process[m].version

\* The finally clause: its own capture and its own identity go.
\* Mutant: whatever the files name.
LeaveNothing(m) ==
  process' = [process EXCEPT ![m].pc = "gone"] /\ capture' = None /\ identity' = None
Leave(m) ==
  /\ process' = [process EXCEPT ![m].pc = "gone"]
  /\ capture' = IF capture = m THEN None ELSE capture
  /\ identity' = IF identity = m THEN None ELSE identity

Become(m, pc) == process' = [process EXCEPT ![m].pc = pc]
BootFrame == UNCHANGED <<receipt, repository, version, client, faults, late>>

BootAdmit(m) ==
  /\ process[m].pc = "spawned"
  /\ IF Parent(m) /\ capture = None
     THEN Become(m, "admitted") /\ UNCHANGED <<identity, capture>>
     ELSE Leave(m)
  /\ BootFrame

BootCapture(m) ==
  /\ process[m].pc = "admitted"
  /\ capture' = m /\ Become(m, "captured")
  /\ UNCHANGED identity /\ BootFrame

BootLock(m) ==
  /\ process[m].pc = "captured"
  /\ IF Parent(m) /\ process[m].version = version /\ LockFree
     THEN Become(m, "locked") /\ UNCHANGED <<identity, capture>>
     ELSE Leave(m)
  /\ BootFrame

BootClear(m) ==
  /\ process[m].pc = "locked"
  /\ IF Parent(m) THEN Become(m, "cleared") /\ UNCHANGED <<identity, capture>>
     ELSE Leave(m)
  /\ BootFrame

BootPublish(m) ==
  /\ process[m].pc = "cleared" /\ Escapes(At("clean"))
  /\ identity' = m /\ Become(m, "published")
  /\ UNCHANGED <<receipt, repository, capture, version, client>>

BootServe(m) ==
  /\ process[m].pc = "published"
  /\ IF capture \in {None, m}
     THEN Become(m, "serving") /\ capture' = None /\ UNCHANGED identity
     ELSE Leave(m)
  /\ BootFrame

\* A start or a session is admitted: only without a fence.
\* Mutant: the fence holds the manager being stopped only.
IntakeOpensEarly == fence = 0 \/ receipt.at \in StartCheckpoints
IntakeOpen == fence = 0

BeginWork(m) ==
  /\ process[m].pc = "serving" /\ IntakeOpen /\ ~InTransaction
  /\ generation < MaxGeneration
  /\ \E w \in {"run", "session"} \ work : work' = work \cup {w}
  /\ generation' = generation + 1
  /\ UNCHANGED <<receipt, fence, boot, version, client, faults, late>>

\* Work ends; also what a manager finds of its predecessor when it starts.
EndWork(m) ==
  /\ process[m].pc \in {"locked", "serving", "stopping"} /\ ~InTransaction
  /\ \E w \in work : work' = work \ {w}
  /\ generation' = generation + 1
  /\ UNCHANGED <<receipt, fence, boot, version, client, faults, late>>

\* A requested shutdown ends, whether its runs could be stopped or not.
Exit(m) ==
  /\ process[m].pc = "stopping"
  /\ Leave(m)
  /\ \E w \in SUBSET work : work' = w
  /\ UNCHANGED <<receipt, fence, generation, version, client, faults, late>>

\* A process is lost: its files stay.
Crash(m) ==
  /\ IsAlive(m) /\ Fault
  /\ Become(m, "gone")
  /\ UNCHANGED <<receipt, repository, identity, capture, version, client, late>>

Boot(m) == BootAdmit(m) \/ BootCapture(m) \/ BootLock(m) \/ BootClear(m)
             \/ BootPublish(m) \/ BootServe(m) \/ Exit(m)

--------------------------------------------------------------------------------
Expire ==
  /\ Pending /\ ~receipt.expired
  /\ receipt' = [receipt EXCEPT !.expired = TRUE]
  /\ UNCHANGED <<repository, boot, version, client, faults, late>>

Upgrade ==
  /\ version < MaxVersion /\ version' = version + 1 /\ Fault
  /\ UNCHANGED <<receipt, repository, boot, client, late>>

Next ==
  \/ \E cmd \in Kinds, confirmed, idle \in BOOLEAN : Begin(cmd, confirmed, idle)
  \/ Client \/ WatchExpires \/ GiveUp \/ Kill \/ Expire \/ Upgrade
  \/ \E m \in Managers : Boot(m) \/ BeginWork(m) \/ EndWork(m) \/ Crash(m)

Spec == Init /\ [][Next]_vars

\* Clients, managers and clocks go on, and users repeat their commands with
\* the confirmation they are asked for.
Fairness ==
  /\ WF_vars(Client) /\ WF_vars(Expire)
  /\ \A m \in Managers : WF_vars(Boot(m))
  /\ \A cmd \in Kinds : SF_vars(Begin(cmd, cmd # "ensure", FALSE))

FairSpec == Spec /\ Fairness

--------------------------------------------------------------------------------
\* A fence always belongs to the receipt on disk: else no command gets past it.
FenceHasReceipt == FenceBelongs

\* What a checkpoint of a stop or restart says stays true while it is pending:
\* past owners-empty no run is live, and from the first step of the new start
\* on no session either.
CheckpointsHold ==
  /\ TypeOK
  /\ Pending /\ fence = receipt.id =>
       /\ receipt.at \in {"owners-empty", "manager-stopped", "bootstrap-cleaned"} \cup StartCheckpoints
          => "run" \notin work
       /\ receipt.at \in StartCheckpoints => work = {}

\* A stop that is noted as succeeded leaves no manager process and no work:
\* unless a boot has escaped.
StoppedIsStopped ==
  [][ /\ Pending /\ ~late /\ receipt.kind = "stop" /\ receipt'.state = "succeeded"
      => work = {} /\ identity = None /\ \A m \in Managers : ~IsAlive(m) ]_vars

\* A restart that is noted as succeeded leaves the manager it has launched and
\* none besides, and no work of the one it has stopped.
RestartReplaces ==
  [][ /\ Pending /\ ~late /\ receipt.kind = "restart" /\ receipt'.state = "succeeded"
      => work = {} /\ identity = receipt.new /\ \A m \in Managers \ {identity} : ~IsAlive(m) ]_vars

\* A manager that serves is the one manager.json names: whoever leaves or is
\* stopped removes its own identity only (remove_manager_identity).
ServingIsNamed ==
  \A m \in Managers : process[m].pc \in {"published", "serving"} => identity = m

\* A client ends a manager with live work only behind a fence, or to clean up
\* after the very start that launched this manager (cleanup_residue).
WorkIsSpared ==
  [][ \A m \in Managers :
        process[m].pc = "serving" /\ process'[m].pc # "serving" /\ faults' = faults /\ work # {}
        => Pending /\ (fence = receipt.id \/ process[m].operation = receipt.id) ]_vars

\* Whatever a killed ensure or stop leaves, later commands bring to an end: by
\* its checkpoints, or by its deadline.
EnsureAndStopFinish == (Pending /\ receipt.kind # "restart") ~> (late \/ ~Pending)

\* The same of a restart, whose expired receipt a further restart replaces.
RestartsFinish == (Pending /\ receipt.kind = "restart") ~> ~Pending

\* A fence does not outlive its command (clear_terminal_intake_fence), unless a
\* failed one met live work or a restart is pending.
FenceLifted ==
  fence # 0 ~> \/ fence = 0 \/ late
               \/ receipt.state = "failed" /\ work # {}
               \/ Pending /\ receipt.kind = "restart"

\* What the clients and managers do to the fence and the work is what RunRepository
\* lets them do: its KeepsIntake, with a receipt for an operation.
Intake == INSTANCE IntakeFence WITH Work <- {"run", "session"}, Operations <- Ids \ {0},
                                    None <- 0
KeepsIntake == Intake!Spec
===============================================================================
