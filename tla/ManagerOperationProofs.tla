------------------------ MODULE ManagerOperationProofs ------------------------
(* Proofs about ManagerOperation, for any managers, receipts, upgrades and      *)
(* faults: what the fence, the checkpoints and manager.json say is true.        *)
EXTENDS ManagerOperation, TLAPS

StopCheckpoints == {"intake-closed", "runs-terminating", "owners-empty", "manager-stopped",
                    "bootstrap-cleaned"}

\* A client that creates, resumes or ends its receipt, by where it is.
Planning == {"idle", "resolve", "request"}      \* the receipt may be anybody's
Ended == {"replace", "unfence"}                 \* its receipt is not pending any more
Fencing == {"fence", "close"}
Stopping == {"stop", "awaitexit", "reconcile"}
Recovering == {"recover", "clean", "giveup", "replace"}
Starting == {"run", "launch", "launched", "watch", "failclean", "fail", "wait"}
Confirming == {"ready", "succeed"}

\* Live work, what ends it and the generation.
WorkCounted ==
  /\ work # {} => generation < MaxGeneration + 2
  /\ work = {"run", "session"} => generation <= MaxGeneration

\* A receipt and its fence.
ReceiptSound ==
  /\ FenceBelongs
  /\ fence # 0 => receipt.kind \in {"stop", "restart"}
  /\ Pending => receipt.id > 0 /\ receipt.kind \in Kinds
  /\ Pending /\ receipt.kind = "ensure" => receipt.at \in StartCheckpoints \cup {"start-requested"}
  /\ Pending /\ receipt.kind = "stop" =>
       receipt.at \in StopCheckpoints \cup {"stop-requested"}
  /\ Pending /\ receipt.kind = "restart" =>
       receipt.at \in RestartStopCheckpoints \cup StartCheckpoints
  /\ Pending /\ receipt.kind # "ensure" /\ receipt.at # Requested(receipt.kind) => fence = receipt.id
  /\ Pending /\ fence = receipt.id =>
       /\ receipt.at \in {"owners-empty", "manager-stopped", "bootstrap-cleaned"} \cup StartCheckpoints
          => "run" \notin work
       /\ receipt.at \in StartCheckpoints => work = {}

\* What the client knows where it is.
ClientSound ==
  /\ client.pc # "idle" => client.cmd \in Kinds
  /\ client.pc \in {"resolve", "request"} /\ ~Pending => fence = 0
  /\ client.pc \notin Planning => receipt.kind = client.cmd
  /\ client.pc \notin Planning \cup Ended => Pending
  /\ client.pc \in Ended => ~Pending
  /\ client.pc \in {"request", "unfence"} \cup Fencing \cup Stopping => client.cmd # "ensure"
  /\ client.pc \in Recovering \cup Starting \cup {"ready"} => client.cmd # "stop"
  /\ client.pc \in Fencing => receipt.at = Requested(receipt.kind)
  /\ client.pc = "close" => fence = receipt.id
  /\ client.pc \in Stopping => receipt.at \in StopCheckpoints
  /\ client.pc \in {"awaitexit", "reconcile"} => receipt.at = "runs-terminating"
  /\ client.pc = "awaitexit" => receipt.old # None
  /\ client.pc \in Recovering => receipt.at # "restart-requested"
  /\ client.pc \in Recovering \ {"replace"} /\ client.cmd = "restart" =>
       receipt.at \in StartCheckpoints \cup {"bootstrap-cleaned"}
  /\ client.pc \in Starting \cup Confirming => work = {} \/ client.cmd = "ensure"
  /\ client.pc \in Starting \cup {"ready"} =>
       receipt.at \in StartCheckpoints \cup {"start-requested", "bootstrap-cleaned"}
  /\ client.pc = "launched" => receipt.at = "runtime-verified"
  /\ client.pc = "succeed" => receipt.at = IF client.cmd = "stop" THEN "bootstrap-cleaned" ELSE "endpoint-ready"
  /\ client.pc = "succeed" /\ client.cmd = "restart" => receipt.new = client.seen
  /\ client.pc \notin {"launched", "watch", "failclean", "fail", "unfence"} \cup Confirming => client.launched = None
  /\ client.pc = "run" /\ client.launch => receipt.at \in {"start-requested", "bootstrap-cleaned"}
  /\ client.pc \in {"launch", "launched"} => receipt.at = "runtime-verified"
  /\ client.pc = "watch" => receipt.at \in {"bootstrap-launched", "identity-published"}
  /\ client.pc \in {"launched", "watch"} => client.launched # None

\* The files and the processes.
ProcessSound ==
  /\ \A m, n \in Managers : process[m].pc \in HoldsLock /\ process[n].pc \in HoldsLock => m = n
  /\ ServingIsNamed
  /\ capture # None => process[capture].pc # "serving"
  /\ \A m \in Managers : client.pc \in {"launched", "watch", "failclean"} /\ m = client.launched =>
        process[m].operation = receipt.id

\* While no boot has escaped, there is one manager, which manager.json names or the
\* pending receipt has launched.
Boots(m) ==
  /\ Pending /\ receipt.kind # "stop" /\ receipt.at \in {"runtime-verified", "bootstrap-launched"}
  /\ identity = None
  /\ process[m].pc \in {"captured", "locked", "cleared"} => capture = m
OneManager ==
  /\ \A m, n \in Managers : IsAlive(m) /\ IsAlive(n) => m = n
  /\ \A m \in Managers : IsAlive(m) =>
       IF process[m].pc \in {"published", "serving", "stopping"} THEN identity = m ELSE Boots(m)
  /\ Pending /\ receipt.at \in {"start-requested", "manager-stopped", "bootstrap-cleaned"} => identity = None
NoneAlive == \A m \in Managers : ~IsAlive(m)
OneStart ==
  /\ client.pc = "clean" => /\ identity = None
                            /\ \A m \in Managers : IsAlive(m) => capture = m
  /\ client.pc \in {"giveup", "replace"} => identity = None /\ NoneAlive
  /\ client.pc \in {"launch", "fail"} => NoneAlive
  /\ client.pc = "launch" => identity = None
  /\ client.pc \in {"launched", "watch", "failclean"} =>
       \A m \in Managers : IsAlive(m) => m = client.launched
  /\ client.pc \in Confirming /\ client.cmd # "stop" =>
       identity = client.seen /\ client.seen # None /\ process[client.seen].pc \in {"serving", "gone"}
  /\ client.pc = "succeed" /\ client.cmd = "stop" => work = {}
BootSound == ~late => OneManager /\ OneStart

IInv == TypeOK /\ WorkCounted /\ ReceiptSound /\ ClientSound /\ ProcessSound /\ BootSound
--------------------------------------------------------------------------------
(* Names and types *)

LEMMA StopNames == {StopSteps[k] : k \in 1..5} = StopCheckpoints
<1>1. /\ StopSteps[1] = "intake-closed" /\ StopSteps[2] = "runs-terminating"
      /\ StopSteps[3] = "owners-empty" /\ StopSteps[4] = "manager-stopped"
      /\ StopSteps[5] = "bootstrap-cleaned"
  BY DEF StopSteps
<1>2. 1..5 = {1, 2, 3, 4, 5}
  OBVIOUS
<1> QED BY <1>1, <1>2, Zenon DEF StopCheckpoints

LEMMA StartNames ==
  StartCheckpoints = {"runtime-verified", "bootstrap-launched", "identity-published", "endpoint-ready"}
<1>1. /\ StartSteps[1] = "runtime-verified" /\ StartSteps[2] = "bootstrap-launched"
      /\ StartSteps[3] = "identity-published" /\ StartSteps[4] = "endpoint-ready"
  BY DEF StartSteps
<1>2. 1..4 = {1, 2, 3, 4}
  OBVIOUS
<1> QED BY <1>1, <1>2, Zenon DEF StartCheckpoints

LEMMA Names ==
  /\ RestartStopCheckpoints = {"restart-requested"} \cup StopCheckpoints
  /\ Checkpoints = {"start-requested", "stop-requested", "restart-requested"}
                     \cup StopCheckpoints \cup StartCheckpoints
BY StopNames, StartNames DEF RestartStopCheckpoints, Checkpoints, StartCheckpoints

ReceiptType == [id : Ids, kind : Kinds \cup {"none"},
                state : {"none", "pending", "succeeded", "failed"},
                at : Checkpoints \cup {"none"},
                old : Managers \cup {None}, new : Managers \cup {None},
                version : 0..MaxVersion, generation : Generations,
                expired : BOOLEAN]
ProcessType == [pc : Alive \cup {"unused", "gone"}, operation : Ids, version : 0..MaxVersion]
ClientType == [cmd : Kinds \cup {"none"}, pc : ClientSteps, confirmed : BOOLEAN,
               idle : BOOLEAN, generation : Generations,
               seen : Managers \cup {None}, launch : BOOLEAN,
               launched : Managers \cup {None}]

LEMMA Types ==
  TypeOK <=>
    /\ receipt \in ReceiptType /\ (receipt.kind # "restart" => receipt.new = None)
    /\ fence \in Ids /\ work \subseteq {"run", "session"} /\ generation \in Generations
    /\ {identity, capture} \subseteq Managers \cup {None}
    /\ process \in [Managers -> ProcessType]
    /\ version \in 1..MaxVersion /\ client \in ClientType
    /\ faults \in 0..MaxFaults /\ late \in BOOLEAN
BY DEF TypeOK, ReceiptType, ProcessType, ClientType

LEMMA Zeros == 0 \in Ids /\ 0 \in Generations /\ 0 \in 0..MaxVersion
BY OperationAssumption DEF Ids, Generations

LEMMA Idle == IdleClient \in ClientType /\ IdleClient.launched = None
BY Zeros DEF IdleClient, ClientType, ClientSteps

USE DEF Planning, Ended, Fencing, Stopping, Recovering, Starting, Confirming, StopCheckpoints,
        Pending, At, Requested, NoneAlive

--------------------------------------------------------------------------------
(* Frames: what a step has to show when it leaves the rest alone *)

\* The client moves; no file and no process changes.
LEMMA ClientStep ==
  ASSUME IInv, UNCHANGED <<receipt, fence, work, generation, identity, capture, process, version, late>>,
         faults' \in 0..MaxFaults, client' \in ClientType,
         client'.launched = client.launched,
         client'.pc \in {"launched", "watch", "failclean"} =>
           client.pc \in {"launched", "watch", "failclean"} \/ client.launched = None,
         ClientSound', ~late => OneStart'
  PROVE  IInv'
<1>1. TypeOK'
  BY Types DEF IInv, TypeOK, ClientType
<1>2. WorkCounted' /\ ReceiptSound'
  BY DEF IInv, WorkCounted, ReceiptSound, FenceBelongs
<1>3. ProcessSound'
  BY OperationAssumption DEF IInv, ProcessSound, ServingIsNamed
<1>4. BootSound'
  BY DEF IInv, BootSound, OneManager, Boots, IsAlive
<1> QED BY <1>1, <1>2, <1>3, <1>4 DEF IInv

\* The command is over; so it may be at any time, by a kill.
LEMMA EndStep ==
  ASSUME IInv, UNCHANGED <<receipt, fence, work, generation, identity, capture, process, version, late>>,
         faults' \in 0..MaxFaults, client' = IdleClient
  PROVE  IInv'
<1>0. /\ client'.pc = "idle" /\ client'.cmd = "none" /\ client'.launched = None
      /\ client' \in ClientType
  BY Idle DEF IdleClient
<1>1. TypeOK'
  BY <1>0, Types DEF IInv, TypeOK, ClientType
<1>2. WorkCounted' /\ ReceiptSound'
  BY DEF IInv, WorkCounted, ReceiptSound, FenceBelongs
<1>3. ProcessSound'
  BY <1>0 DEF IInv, ProcessSound, ServingIsNamed
<1>4. ClientSound'
  BY <1>0 DEF ClientSound
<1>5. BootSound'
  BY <1>0 DEF IInv, BootSound, OneManager, OneStart, Boots, IsAlive
<1> QED BY <1>1, <1>2, <1>3, <1>4, <1>5 DEF IInv

\* The receipt is written, and the client moves.
LEMMA ReceiptStep ==
  ASSUME IInv, UNCHANGED <<fence, work, generation, identity, capture, process, version, late>>,
         faults' \in 0..MaxFaults, receipt' \in ReceiptType, receipt'.kind # "restart" => receipt'.new = None,
         client' \in ClientType, client'.pc \in {"launched", "watch", "failclean"} =>
           /\ receipt'.id = receipt.id /\ client'.launched = client.launched
           /\ client.pc \in {"launched", "watch", "failclean"},
         ReceiptSound', ClientSound', BootSound'
  PROVE  IInv'
<1>1. TypeOK'
  BY Types DEF IInv, TypeOK, ClientType, ReceiptType
<1>2. WorkCounted'
  BY DEF IInv, WorkCounted
<1>3. ProcessSound'
  BY DEF IInv, ProcessSound, ServingIsNamed
<1> QED BY <1>1, <1>2, <1>3 DEF IInv

--------------------------------------------------------------------------------
(* The client: ensure, stop and restart begin *)

LEMMA BeginStep ==
  ASSUME IInv, NEW cmd \in Kinds, NEW confirmed \in BOOLEAN, NEW idle \in BOOLEAN,
         Begin(cmd, confirmed, idle)
  PROVE  IInv'
<1>1. PICK pc \in {"request", "resolve"}, seen \in Managers \cup {None} :
        /\ client.pc = "idle" /\ Clearable /\ fence' = IF Pending THEN fence ELSE 0
        /\ pc = IF cmd = "restart" THEN "request" ELSE "resolve"
        /\ client' = [IdleClient EXCEPT !.cmd = cmd, !.confirmed = confirmed, !.idle = idle,
                         !.generation = generation, !.pc = pc, !.seen = seen]
        /\ UNCHANGED <<receipt, work, generation, identity, capture, process, version, faults, late>>
  BY DEF Begin, ClearFence, boot, IInv, TypeOK
<1>2. client'.pc = pc /\ client'.cmd = cmd /\ client'.launched = None /\ client' \in ClientType
  <2>1. generation \in Generations /\ pc \in ClientSteps
    BY DEF IInv, TypeOK, ClientSteps
  <2>2. client' \in ClientType
    <3>1. cmd \in Kinds \cup {"none"}
      OBVIOUS
    <3>2. IdleClient \in ClientType
      BY Idle
    <3> QED BY <1>1, <2>1, <3>1, <3>2 DEF ClientType
  <2>3. client'.pc = pc /\ client'.cmd = cmd /\ client'.launched = IdleClient.launched
    BY <1>1, Idle DEF ClientType
  <2> QED BY <2>2, <2>3, Idle
<1>3. TypeOK'
  BY <1>1, <1>2, Types, Zeros DEF IInv, TypeOK, ClientType
<1>4. WorkCounted'
  BY <1>1 DEF IInv, WorkCounted
<1>5. ReceiptSound'
  BY <1>1 DEF IInv, ReceiptSound, FenceBelongs
<1>6. ClientSound'
  BY <1>1, <1>2 DEF ClientSound, Kinds
<1>7. ProcessSound'
  BY <1>1, <1>2 DEF IInv, ProcessSound, ServingIsNamed
<1>8. BootSound'
  BY <1>1, <1>2 DEF IInv, BootSound, OneManager, OneStart, Boots, IsAlive
<1> QED BY <1>3, <1>4, <1>5, <1>6, <1>7, <1>8 DEF IInv

\* ManagerStateResolver: who answers ready is the manager that manager.json names.
LEMMA ReadyServes ==
  ASSUME NEW own \in BOOLEAN, "ready" \in States(own)
  PROVE  identity # None /\ process[identity].pc = "serving"
BY DEF States, AbsentStates, Answering, Silent, PendingState

LEMMA AbsentIsBare ==
  ASSUME "absent" \in States(FALSE)
  PROVE  identity = None /\ (~Pending => capture = None)
BY DEF States, AbsentStates, Answering, Silent, PendingState

\* The fields of a client that moved.
LEMMA Moved ==
  ASSUME IInv, NEW to \in ClientSteps, client' = [client EXCEPT !.pc = to]
  PROVE  /\ client' \in ClientType /\ client'.pc = to /\ client'.cmd = client.cmd
         /\ client'.launched = client.launched /\ client'.launch = client.launch
         /\ client'.seen = client.seen
BY Types DEF IInv, ClientType

\* The fields of a receipt that was written again.
LEMMA Noted ==
  ASSUME IInv, NEW at \in Checkpoints, receipt' = [receipt EXCEPT !.at = at]
  PROVE  /\ receipt' \in ReceiptType /\ receipt'.at = at /\ receipt'.id = receipt.id
         /\ receipt'.kind = receipt.kind /\ receipt'.state = receipt.state
         /\ receipt'.old = receipt.old /\ receipt'.new = receipt.new
         /\ receipt'.kind # "restart" => receipt'.new = None
BY Types DEF IInv, ReceiptType

LEMMA RenewedIs ==
  ASSUME IInv, receipt' = Renewed
  PROVE  /\ receipt' \in ReceiptType /\ receipt'.at = receipt.at /\ receipt'.id = receipt.id
         /\ receipt'.kind = receipt.kind /\ receipt'.state = receipt.state
         /\ receipt'.old = receipt.old /\ receipt'.new = receipt.new
         /\ receipt'.kind # "restart" => receipt'.new = None
BY Types DEF IInv, ReceiptType, Renewed

LEMMA FailedIs ==
  ASSUME IInv, receipt' = Fail
  PROVE  /\ receipt' \in ReceiptType /\ receipt'.at = receipt.at /\ receipt'.id = receipt.id
         /\ receipt'.kind = receipt.kind /\ receipt'.state = "failed"
         /\ receipt'.kind # "restart" => receipt'.new = None
BY Types DEF IInv, ReceiptType, Fail

LEMMA NewReceiptIs ==
  ASSUME IInv, NEW kind \in Kinds, NEW gen \in Generations, NEW old \in Managers \cup {None},
         receipt.id + 1 \in Ids, receipt' = NewReceipt(kind, gen, old)
  PROVE  /\ receipt' \in ReceiptType /\ receipt'.at = Requested(kind) /\ receipt'.id = receipt.id + 1
         /\ receipt'.kind = kind /\ receipt'.state = "pending" /\ receipt'.old = old /\ receipt'.new = None
<1>1. Requested(kind) \in Checkpoints
  BY DEF Checkpoints, Kinds
<1>2. version \in 0..MaxVersion
  BY OperationAssumption DEF IInv, TypeOK
<1> QED BY <1>1, <1>2, Zeros DEF NewReceipt, ReceiptType

LEMMA NextId ==
  ASSUME IInv, receipt.id < MaxReceipts
  PROVE  receipt.id + 1 \in Ids
BY OperationAssumption, Types DEF IInv, ReceiptType, Ids

LEMMA EnsureReadyStep ==
  ASSUME IInv, EnsureReady
  PROVE  IInv'
<1>1. /\ client.pc = "resolve" /\ client.cmd = "ensure"
      /\ UNCHANGED <<receipt, fence, work, generation, identity, capture, process, version, faults, late>>
      /\ faults' \in 0..MaxFaults
  BY DEF EnsureReady, Local, repository, boot, IInv, TypeOK
<1>2. identity # None /\ process[identity].pc = "serving"
  BY ReadyServes DEF EnsureReady
<1>3. CASE client' = IdleClient
  BY <1>1, <1>3, EndStep
<1>4. CASE /\ receipt.state = "pending" /\ receipt.kind = "ensure"
           /\ client' = [client EXCEPT !.pc = "ready", !.seen = identity]
  <2>1. /\ client' \in ClientType /\ client'.pc = "ready" /\ client'.cmd = "ensure"
        /\ client'.launched = client.launched /\ client'.seen = identity
    BY <1>1, <1>4, Types DEF IInv, ClientType, ClientSteps
  <2>2. ClientSound'
    BY <1>1, <1>4, <2>1 DEF IInv, ClientSound, ReceiptSound
  <2>3. OneStart'
    BY <1>1, <1>2, <2>1 DEF OneStart
  <2> QED BY <1>1, <2>1, <2>2, <2>3, ClientStep
<1> QED BY <1>3, <1>4 DEF EnsureReady, End

LEMMA EnsureResumeStep ==
  ASSUME IInv, EnsureResume
  PROVE  IInv'
<1>1. /\ client.pc = "resolve" /\ client.cmd = "ensure" /\ receipt.state = "pending"
      /\ UNCHANGED <<receipt, fence, work, generation, identity, capture, process, version, faults, late>>
      /\ faults' \in 0..MaxFaults
  BY DEF EnsureResume, Local, repository, boot, IInv, TypeOK
<1>2. CASE client' = IdleClient
  BY <1>1, <1>2, EndStep
<1>3. CASE receipt.kind = "ensure" /\ client' = [client EXCEPT !.pc = "recover"]
  <2>1. /\ client' \in ClientType /\ client'.pc = "recover" /\ client'.cmd = client.cmd
        /\ client'.launched = client.launched
    BY <1>3, Moved DEF ClientSteps
  <2>2. receipt.at # "restart-requested"
    BY <1>1, <1>3, StartNames DEF IInv, ReceiptSound
  <2>3. ClientSound'
    BY <1>1, <1>3, <2>1, <2>2 DEF IInv, ClientSound
  <2>4. OneStart'
    BY <2>1 DEF OneStart
  <2> QED BY <1>1, <2>1, <2>3, <2>4, ClientStep
<1> QED BY <1>2, <1>3 DEF EnsureResume, End, Goto

\* The manager that is named is the only one alive when no receipt is pending.
LEMMA NamedAlone ==
  ASSUME IInv, ~late, ~Pending, NEW m \in Managers, IsAlive(m)
  PROVE  identity = m
BY DEF IInv, BootSound, OneManager, Boots

LEMMA EnsureCreateStep ==
  ASSUME IInv, EnsureCreate
  PROVE  IInv'
<1>1. /\ client.pc = "resolve" /\ client.cmd = "ensure" /\ receipt.state # "pending"
      /\ UNCHANGED <<fence, work, generation, identity, capture, process, version, faults, late>>
      /\ faults' \in 0..MaxFaults
  BY DEF EnsureCreate, Local, Write, repository, boot, IInv, TypeOK
<1>2. CASE receipt' = receipt /\ client' = IdleClient
  BY <1>1, <1>2, EndStep
<1>3. CASE /\ "absent" \in States(FALSE) /\ receipt.id < MaxReceipts
           /\ receipt' = NewReceipt("ensure", 0, None)
           /\ client' = [client EXCEPT !.pc = "run", !.launch = TRUE]
  <2>1. /\ client' \in ClientType /\ client'.pc = "run" /\ client'.cmd = "ensure"
        /\ client'.launched = client.launched
    BY <1>1, <1>3, Types DEF IInv, ClientType, ClientSteps
  <2>2. /\ receipt' \in ReceiptType /\ receipt'.at = "start-requested" /\ receipt'.id = receipt.id + 1
        /\ receipt'.kind = "ensure" /\ receipt'.state = "pending" /\ receipt'.new = None
    BY <1>3, NextId, NewReceiptIs, Zeros DEF Kinds
  <2>3. fence = 0 /\ receipt.id \in Nat
    BY <1>1, Types DEF IInv, ClientSound, ReceiptType, Ids
  <2>4. ReceiptSound'
    BY <1>1, <2>2, <2>3, StartNames DEF ReceiptSound, FenceBelongs, Kinds
  <2>5. ClientSound'
    BY <1>1, <2>1, <2>2 DEF IInv, ClientSound
  <2>6. identity = None
    BY <1>3, AbsentIsBare
  <2>7. BootSound'
    <3> SUFFICES ASSUME ~late PROVE OneManager' /\ OneStart'
      BY <1>1 DEF BootSound
    <3>1. NoneAlive
      BY <1>1, <2>6, NamedAlone, OperationAssumption
    <3> QED BY <1>1, <2>1, <2>2, <2>6, <3>1 DEF OneManager, OneStart, IsAlive
  <2> QED BY <1>1, <2>1, <2>2, <2>4, <2>5, <2>7, ReceiptStep
<1>4. \/ receipt' = receipt /\ client' = IdleClient
      \/ /\ "absent" \in States(FALSE) /\ receipt.id < MaxReceipts
         /\ receipt' = NewReceipt("ensure", 0, None)
         /\ client' = [client EXCEPT !.pc = "run", !.launch = TRUE]
  BY DEF EnsureCreate, End, Write, Local
<1> QED BY <1>2, <1>3, <1>4

LEMMA StopResolveStep ==
  ASSUME IInv, StopResolve
  PROVE  IInv'
<1>1. /\ client.pc = "resolve" /\ client.cmd = "stop"
      /\ UNCHANGED <<receipt, fence, work, generation, identity, capture, process, version, faults, late>>
      /\ faults' \in 0..MaxFaults
  BY DEF StopResolve, Local, repository, boot, IInv, TypeOK
<1>2. CASE client' = IdleClient
  BY <1>1, <1>2, EndStep
<1>3. CASE client' = [client EXCEPT !.pc = "request", !.seen = IF VersionDrift THEN None ELSE identity]
  <2>1. /\ client' \in ClientType /\ client'.pc = "request" /\ client'.cmd = client.cmd
        /\ client'.launched = client.launched
    BY <1>3, Types DEF IInv, ClientType, ClientSteps
  <2>2. ClientSound'
    BY <1>1, <2>1 DEF IInv, ClientSound
  <2>3. OneStart'
    BY <2>1 DEF OneStart
  <2> QED BY <1>1, <2>1, <2>2, <2>3, ClientStep
<1> QED BY <1>2, <1>3 DEF StopResolve, End

LEMMA RequestResumeStep ==
  ASSUME IInv, RequestResume
  PROVE  IInv'
<1>1. /\ client.pc = "request" /\ receipt.state = "pending" /\ receipt.kind = client.cmd
      /\ receipt.at # Requested(receipt.kind)
      /\ UNCHANGED <<fence, work, generation, identity, capture, process, version, faults, late>>
      /\ faults' \in 0..MaxFaults
  BY DEF RequestResume, Local, Write, repository, boot, IInv, TypeOK
<1>2. client.cmd # "ensure" /\ fence = receipt.id
  BY <1>1 DEF IInv, ClientSound, ReceiptSound
<1>3. PICK to \in {"recover", "stop"} :
        /\ receipt' = Renewed /\ client' = [client EXCEPT !.pc = to]
        /\ to = "recover" <=> /\ client.cmd = "restart"
                              /\ receipt.at \in StartCheckpoints \cup {"bootstrap-cleaned"}
  BY <1>2 DEF RequestResume, Write, Goto
<1>4. /\ client' \in ClientType /\ client'.pc = to /\ client'.cmd = client.cmd
      /\ client'.launched = client.launched
  BY <1>3, Moved DEF ClientSteps
<1>5. /\ receipt' \in ReceiptType /\ receipt'.at = receipt.at /\ receipt'.id = receipt.id
      /\ receipt'.kind = receipt.kind /\ receipt'.state = receipt.state
      /\ receipt'.kind # "restart" => receipt'.new = None
  BY <1>3, RenewedIs
<1>6. ReceiptSound'
  BY <1>1, <1>5 DEF IInv, ReceiptSound, FenceBelongs
<1>7. ClientSound'
  <2>1. to = "stop" => receipt.at \in StopCheckpoints
    BY <1>1, <1>2, <1>3, Names DEF IInv, ReceiptSound, Kinds, TypeOK
  <2>2. to = "recover" => client.cmd = "restart" /\ receipt.at # "restart-requested"
    BY <1>3, StartNames
  <2> QED BY <1>1, <1>2, <1>3, <1>4, <1>5, <2>1, <2>2 DEF IInv, ClientSound
<1>8. BootSound'
  BY <1>1, <1>4, <1>5 DEF IInv, BootSound, OneManager, OneStart, Boots, IsAlive
<1> QED BY <1>1, <1>4, <1>5, <1>6, <1>7, <1>8, ReceiptStep

LEMMA RequestRefusedStep ==
  ASSUME IInv, RequestRefused
  PROVE  IInv'
BY EndStep DEF RequestRefused, End, Local, repository, boot, IInv, TypeOK

LEMMA RequestPendingStep ==
  ASSUME IInv, RequestPending
  PROVE  IInv'
<1>1. /\ client.pc = "request" /\ receipt.state = "pending" /\ receipt.kind = client.cmd
      /\ receipt.at = Requested(receipt.kind)
      /\ UNCHANGED <<fence, work, generation, identity, capture, process, version, faults, late>>
      /\ faults' \in 0..MaxFaults /\ client.cmd # "ensure"
  BY DEF RequestPending, Write, repository, boot, IInv, TypeOK, ClientSound
<1>2. CASE receipt' = Fail /\ client' = IdleClient
  <2>1. client' \in ClientType /\ client'.pc = "idle" /\ client'.launched = None
    BY <1>2, Idle DEF IdleClient
  <2>2. /\ receipt' \in ReceiptType /\ receipt'.id = receipt.id
        /\ receipt'.kind = receipt.kind /\ receipt'.state = "failed"
        /\ receipt'.kind # "restart" => receipt'.new = None
    BY <1>2, FailedIs
  <2>3. ReceiptSound' /\ ClientSound'
    <3>1. ReceiptSound'
      BY <1>1, <2>2 DEF IInv, ReceiptSound, FenceBelongs
    <3> QED BY <2>1, <3>1 DEF ClientSound
  <2>4. BootSound'
    BY <1>1, <2>1, <2>2 DEF IInv, BootSound, OneManager, OneStart, Boots, IsAlive
  <2> QED BY <1>1, <2>1, <2>2, <2>3, <2>4, ReceiptStep
<1>3. CASE receipt' = Renewed /\ client' = [client EXCEPT !.pc = "fence"]
  <2>1. /\ client' \in ClientType /\ client'.pc = "fence" /\ client'.cmd = client.cmd
        /\ client'.launched = client.launched
    BY <1>3, Moved DEF ClientSteps
  <2>2. /\ receipt' \in ReceiptType /\ receipt'.at = receipt.at /\ receipt'.id = receipt.id
        /\ receipt'.kind = receipt.kind /\ receipt'.state = receipt.state
        /\ receipt'.kind # "restart" => receipt'.new = None
    BY <1>3, RenewedIs
  <2>3. ReceiptSound'
    BY <1>1, <2>2 DEF IInv, ReceiptSound, FenceBelongs
  <2>4. ClientSound'
    BY <1>1, <2>1, <2>2 DEF IInv, ClientSound
  <2>5. BootSound'
    BY <1>1, <2>1, <2>2 DEF IInv, BootSound, OneManager, OneStart, Boots, IsAlive
  <2> QED BY <1>1, <2>1, <2>2, <2>3, <2>4, <2>5, ReceiptStep
<1> QED BY <1>2, <1>3 DEF RequestPending, Write, End, Goto

LEMMA RequestNewStep ==
  ASSUME IInv, RequestNew
  PROVE  IInv'
<1>1. /\ client.pc = "request" /\ receipt.state # "pending" /\ receipt.id < MaxReceipts
      /\ receipt' = NewReceipt(client.cmd, Expected, client.seen) /\ client' = [client EXCEPT !.pc = "fence"]
      /\ UNCHANGED <<fence, work, generation, identity, capture, process, version, faults, late>>
      /\ faults' \in 0..MaxFaults
  BY DEF RequestNew, Write, Goto, repository, boot, IInv, TypeOK
<1>2. client.cmd \in {"stop", "restart"} /\ fence = 0 /\ receipt.id \in Nat
  <2>1. client.cmd \in Kinds
    BY <1>1 DEF IInv, ClientSound
  <2> QED BY <1>1, <2>1, Types DEF IInv, ClientSound, Kinds, ReceiptType, Ids
<1>3. Expected \in Generations /\ client.seen \in Managers \cup {None}
  BY Types DEF IInv, Expected, ClientType
<1>4. /\ client' \in ClientType /\ client'.pc = "fence" /\ client'.cmd = client.cmd
      /\ client'.launched = client.launched
  BY <1>1, Moved DEF ClientSteps
<1>5. /\ receipt' \in ReceiptType /\ receipt'.at = Requested(client.cmd) /\ receipt'.id = receipt.id + 1
      /\ receipt'.kind = client.cmd /\ receipt'.state = "pending" /\ receipt'.new = None
  BY <1>1, <1>2, <1>3, NextId, NewReceiptIs DEF Kinds
<1>6. ReceiptSound'
  BY <1>1, <1>2, <1>5, Names, StartNames DEF ReceiptSound, FenceBelongs, Kinds
<1>7. ClientSound'
  BY <1>1, <1>2, <1>4, <1>5 DEF IInv, ClientSound
<1>8. BootSound'
  <2> SUFFICES ASSUME ~late PROVE OneManager' /\ OneStart'
    BY <1>1 DEF BootSound
  <2>1. OneManager'
    BY <1>1, <1>2, <1>5 DEF IInv, BootSound, OneManager, Boots, IsAlive
  <2>2. OneStart'
    BY <1>4 DEF OneStart
  <2> QED BY <2>1, <2>2
<1> QED BY <1>1, <1>4, <1>5, <1>6, <1>7, <1>8, ReceiptStep

LEMMA InstallFenceStep ==
  ASSUME IInv, InstallFence
  PROVE  IInv'
<1>1. /\ client.pc = "fence" /\ receipt.state = "pending" /\ receipt.kind = client.cmd
      /\ receipt.at = Requested(receipt.kind) /\ client.cmd # "ensure" /\ receipt.id > 0
      /\ UNCHANGED <<work, generation, identity, capture, process, version, faults, late>>
      /\ faults' \in 0..MaxFaults
  BY DEF InstallFence, Write, repository, boot, IInv, TypeOK, ClientSound, ReceiptSound
<1>2. CASE receipt' = Fail /\ client' = IdleClient /\ fence' = fence
  <2>1. client' \in ClientType /\ client'.pc = "idle" /\ client'.launched = None
    BY <1>2, Idle DEF IdleClient
  <2>2. /\ receipt' \in ReceiptType /\ receipt'.id = receipt.id
        /\ receipt'.kind = receipt.kind /\ receipt'.state = "failed"
        /\ receipt'.kind # "restart" => receipt'.new = None
    BY <1>2, FailedIs
  <2>3. ReceiptSound' /\ ClientSound'
    <3>1. ReceiptSound'
      BY <1>1, <1>2, <2>2 DEF IInv, ReceiptSound, FenceBelongs
    <3> QED BY <2>1, <3>1 DEF ClientSound
  <2>4. BootSound'
    BY <1>1, <2>1, <2>2 DEF IInv, BootSound, OneManager, OneStart, Boots, IsAlive
  <2> QED BY <1>1, <1>2, <2>1, <2>2, <2>3, <2>4, ReceiptStep
<1>3. CASE fence' = receipt.id /\ client' = [client EXCEPT !.pc = "close"] /\ receipt' = receipt
  <2>1. /\ client' \in ClientType /\ client'.pc = "close" /\ client'.cmd = client.cmd
        /\ client'.launched = client.launched
    BY <1>3, Moved DEF ClientSteps
  <2>2. receipt.kind \in {"stop", "restart"} /\ receipt.at \in {"stop-requested", "restart-requested"}
    BY <1>1 DEF IInv, ReceiptSound, Kinds
  <2>3. TypeOK'
    BY <1>1, <1>3, <2>1, Types DEF IInv, TypeOK, ClientType, ReceiptType
  <2>4. ReceiptSound'
    BY <1>1, <1>3, <2>2, StartNames DEF IInv, ReceiptSound, FenceBelongs
  <2>5. ClientSound'
    BY <1>1, <1>3, <2>1 DEF IInv, ClientSound
  <2>6. WorkCounted' /\ ProcessSound' /\ BootSound'
    BY <1>1, <1>3, <2>1 DEF IInv, WorkCounted, ProcessSound, ServingIsNamed, BootSound, OneManager, OneStart,
       Boots, IsAlive
  <2> QED BY <2>3, <2>4, <2>5, <2>6 DEF IInv
<1> QED BY <1>2, <1>3 DEF InstallFence, Fenced, Write, End, Goto, repository

LEMMA CloseIntakeStep ==
  ASSUME IInv, CloseIntake
  PROVE  IInv'
<1>1. /\ client.pc = "close" /\ client' = [client EXCEPT !.pc = "stop"]
      /\ receipt' = [receipt EXCEPT !.at = "intake-closed"]
      /\ UNCHANGED <<fence, work, generation, identity, capture, process, version, faults, late>>
      /\ faults' \in 0..MaxFaults
  BY DEF CloseIntake, Write, Advance, Goto, repository, boot, IInv, TypeOK
<1>2. /\ client' \in ClientType /\ client'.pc = "stop" /\ client'.cmd = client.cmd
      /\ client'.launched = client.launched
  BY <1>1, Moved DEF ClientSteps
<1>3. /\ receipt' \in ReceiptType /\ receipt'.at = "intake-closed" /\ receipt'.id = receipt.id
      /\ receipt'.kind = receipt.kind /\ receipt'.state = receipt.state
      /\ receipt'.kind # "restart" => receipt'.new = None
  BY <1>1, Noted, Names
<1>4. receipt.state = "pending" /\ receipt.kind = client.cmd /\ client.cmd # "ensure" /\ fence = receipt.id
  BY <1>1 DEF IInv, ClientSound
<1>5. ReceiptSound'
  BY <1>1, <1>3, <1>4, Names, StartNames DEF IInv, ReceiptSound, FenceBelongs
<1>6. ClientSound'
  BY <1>1, <1>2, <1>3, <1>4 DEF IInv, ClientSound
<1>7. BootSound'
  BY <1>1, <1>2, <1>3, <1>4 DEF IInv, BootSound, OneManager, OneStart, Boots, IsAlive, ClientSound
<1> QED BY <1>1, <1>2, <1>3, <1>5, <1>6, <1>7, ReceiptStep

--------------------------------------------------------------------------------
(* The stop phase *)

\* A checkpoint of the stop phase is written.
LEMMA StopNoted ==
  ASSUME IInv, client.pc = "stop", NEW at \in StopCheckpoints, receipt' = [receipt EXCEPT !.at = at],
         receipt.at # "bootstrap-cleaned",
         at \in {"owners-empty", "manager-stopped", "bootstrap-cleaned"} =>
           receipt.at \in {"owners-empty", "manager-stopped"},
         at \in {"manager-stopped", "bootstrap-cleaned"} => identity = None,
         UNCHANGED <<fence, work, generation, identity, capture, process, version, faults, late, client>>
  PROVE  IInv'
<1>1. /\ receipt' \in ReceiptType /\ receipt'.at = at /\ receipt'.id = receipt.id
      /\ receipt'.kind = receipt.kind /\ receipt'.state = receipt.state
      /\ receipt'.kind # "restart" => receipt'.new = None
  BY Noted, Names
<1>2. /\ receipt.state = "pending" /\ receipt.kind = client.cmd /\ client.cmd # "ensure"
      /\ receipt.at \in StopCheckpoints
  BY DEF IInv, ClientSound
<1>3. fence = receipt.id
  BY <1>2 DEF IInv, ReceiptSound
<1>4. ReceiptSound'
  BY <1>1, <1>2, <1>3, Names, StartNames DEF IInv, ReceiptSound, FenceBelongs
<1>5. ClientSound'
  BY <1>1, <1>2 DEF IInv, ClientSound
<1>6. BootSound'
  <2> SUFFICES ASSUME ~late PROVE OneManager' /\ OneStart'
    BY DEF BootSound
  <2>1. OneManager'
    BY <1>1, <1>2 DEF IInv, BootSound, OneManager, Boots, IsAlive
  <2>2. OneStart'
    BY DEF OneStart
  <2> QED BY <2>1, <2>2
<1> QED BY <1>1, <1>4, <1>5, <1>6, ReceiptStep DEF IInv, TypeOK, ClientType

LEMMA StopBeginStep ==
  ASSUME IInv, StopBegin
  PROVE  IInv'
<1>1. /\ client.pc = "stop" /\ receipt.at = "intake-closed"
      /\ receipt' = [receipt EXCEPT !.at = "runs-terminating"]
      /\ UNCHANGED <<fence, work, generation, identity, capture, process, version, faults, late, client>>
  BY DEF StopBegin, Write, Advance, repository, boot
<1> QED BY <1>1, StopNoted

LEMMA StopNothingStep ==
  ASSUME IInv, StopNothing
  PROVE  IInv'
<1>1. /\ client.pc = "stop" /\ receipt.at = "runs-terminating" /\ client' = [client EXCEPT !.pc = "reconcile"]
      /\ UNCHANGED <<receipt, fence, work, generation, identity, capture, process, version, faults, late>>
      /\ faults' \in 0..MaxFaults
  BY DEF StopNothing, Goto, Local, repository, boot, IInv, TypeOK
<1>2. /\ client' \in ClientType /\ client'.pc = "reconcile" /\ client'.cmd = client.cmd
      /\ client'.launched = client.launched
  BY <1>1, Moved DEF ClientSteps
<1>3. ClientSound'
  BY <1>1, <1>2 DEF IInv, ClientSound
<1>4. OneStart'
  BY <1>2 DEF OneStart
<1> QED BY <1>1, <1>2, <1>3, <1>4, ClientStep

LEMMA StopBindStep ==
  ASSUME IInv, StopBind
  PROVE  IInv'
<1>1. /\ client.pc = "stop" /\ receipt' = [receipt EXCEPT !.old = identity]
      /\ UNCHANGED <<fence, work, generation, identity, capture, process, version, faults, late, client>>
      /\ faults' \in 0..MaxFaults /\ client' \in ClientType
  BY Types DEF StopBind, Write, repository, boot, IInv
<1>2. /\ receipt' \in ReceiptType /\ receipt'.at = receipt.at /\ receipt'.id = receipt.id
      /\ receipt'.kind = receipt.kind /\ receipt'.state = receipt.state /\ receipt'.new = receipt.new
      /\ receipt'.kind # "restart" => receipt'.new = None
  BY <1>1, Types DEF IInv, ReceiptType
<1>3. ReceiptSound'
  BY <1>1, <1>2 DEF IInv, ReceiptSound, FenceBelongs
<1>4. ClientSound'
  BY <1>1, <1>2 DEF IInv, ClientSound
<1>5. BootSound'
  BY <1>1, <1>2 DEF IInv, BootSound, OneManager, OneStart, Boots, IsAlive
<1> QED BY <1>1, <1>2, <1>3, <1>4, <1>5, ReceiptStep

LEMMA StopForeignStep ==
  ASSUME IInv, StopForeign
  PROVE  IInv'
BY EndStep DEF StopForeign, End, Local, repository, boot, IInv, TypeOK

\* Processes end; a file that named one of them may go with it.
LEMMA Killed ==
  ASSUME IInv, NEW S \in SUBSET Managers,
         process' = [m \in Managers |-> IF m \in S THEN [process[m] EXCEPT !.pc = "gone"] ELSE process[m]]
  PROVE  /\ process' \in [Managers -> ProcessType]
         /\ \A m \in Managers : /\ process'[m].pc = IF m \in S THEN "gone" ELSE process[m].pc
                                /\ process'[m].operation = process[m].operation
<1>1. process \in [Managers -> ProcessType]
  BY Types DEF IInv
<1> QED BY <1>1 DEF ProcessType

LEMMA TerminateKills ==
  ASSUME IInv, NEW m \in Managers, process' = Terminate(m)
  PROVE  process' = [n \in Managers |-> IF n \in {m} THEN [process[n] EXCEPT !.pc = "gone"] ELSE process[n]]
BY Types DEF IInv, Terminate

\* What the end of processes leaves of the files and the other processes.
LEMMA KilledSound ==
  ASSUME IInv, NEW S \in SUBSET Managers,
         process' = [m \in Managers |-> IF m \in S THEN [process[m] EXCEPT !.pc = "gone"] ELSE process[m]],
         identity' = identity \/ (identity' = None /\ identity \in S), capture' = capture \/ capture' = None,
         client'.pc \in {"launched", "watch", "failclean"} =>
           /\ receipt'.id = receipt.id /\ client'.launched = client.launched
           /\ client.pc \in {"launched", "watch", "failclean"}
  PROVE  ProcessSound'
<1>1. \A m \in Managers : /\ process'[m].pc = IF m \in S THEN "gone" ELSE process[m].pc
                          /\ process'[m].operation = process[m].operation
  BY Killed
<1>2. ServingIsNamed'
  BY <1>1 DEF IInv, ProcessSound, ServingIsNamed
<1>3. capture' # None => process'[capture'].pc # "serving"
  BY <1>1, Types DEF IInv, ProcessSound
<1> QED BY <1>1, <1>2, <1>3 DEF IInv, ProcessSound, HoldsLock

\* Fewer processes are alive, and the receipt and its checkpoint stay.
LEMMA FewerAlive ==
  ASSUME IInv, NEW S \in SUBSET Managers,
         process' = [m \in Managers |-> IF m \in S THEN [process[m] EXCEPT !.pc = "gone"] ELSE process[m]],
         identity' = identity \/ (identity' = None /\ identity \in S),
         capture' = capture \/ (capture' = None /\ (capture \in S \/ capture = None)),
         receipt'.at = receipt.at, receipt'.kind = receipt.kind, receipt'.state = receipt.state,
         OneManager
  PROVE  OneManager'
<1>1. \A m \in Managers : /\ process'[m].pc = IF m \in S THEN "gone" ELSE process[m].pc
  BY Killed
<1>2. \A m \in Managers : IsAlive(m)' => IsAlive(m) /\ m \notin S /\ process'[m].pc = process[m].pc
  BY <1>1 DEF IsAlive, Alive
<1>3. ASSUME NEW m \in Managers, IsAlive(m)'
      PROVE  IF process'[m].pc \in {"published", "serving", "stopping"} THEN identity' = m ELSE Boots(m)'
  <2>1. IsAlive(m) /\ m \notin S /\ process'[m].pc = process[m].pc
    BY <1>2, <1>3
  <2> QED BY <2>1, OperationAssumption DEF OneManager, Boots
<1> QED BY <1>2, <1>3 DEF OneManager

LEMMA StopGracefulStep ==
  ASSUME IInv, StopGraceful
  PROVE  IInv'
<1>1. /\ client.pc = "stop" /\ receipt.at = "runs-terminating" /\ identity # None /\ receipt.old = identity
      /\ client' = [client EXCEPT !.pc = "awaitexit"] /\ process' = [process EXCEPT ![identity].pc = "stopping"]
      /\ UNCHANGED <<receipt, fence, work, generation, identity, capture, version, faults, late>>
      /\ identity \in Managers
  BY Types DEF StopGraceful, Goto, repository, IInv
<1>2. /\ client' \in ClientType /\ client'.pc = "awaitexit" /\ client'.cmd = client.cmd
      /\ client'.launched = client.launched
  BY <1>1, Moved DEF ClientSteps
<1>3. process[identity].pc = "serving"
  <2>1. PICK s \in States(TRUE) : "graceful" \in StopWay(s)
    BY DEF StopGraceful, StopWays
  <2>2. s = "ready" => process[identity].pc = "serving"
    BY ReadyServes
  <2>3. process[identity].pc = "serving" \/ s = "ready"
    BY <2>1 DEF StopWay
  <2> QED BY <2>2, <2>3
<1>4. /\ process' \in [Managers -> ProcessType]
      /\ \A m \in Managers : /\ process'[m].pc = IF m = identity THEN "stopping" ELSE process[m].pc
                             /\ process'[m].operation = process[m].operation
  <2>1. process \in [Managers -> ProcessType]
    BY Types DEF IInv
  <2> QED BY <1>1, <2>1 DEF ProcessType, Alive
<1>5. TypeOK'
  BY <1>1, <1>2, <1>4, Types DEF IInv, TypeOK, ClientType, ProcessType
<1>6. WorkCounted' /\ ReceiptSound'
  BY <1>1 DEF IInv, WorkCounted, ReceiptSound, FenceBelongs
<1>7. ClientSound'
  BY <1>1, <1>2 DEF IInv, ClientSound
<1>8. ProcessSound'
  BY <1>1, <1>2, <1>3, <1>4 DEF IInv, ProcessSound, ServingIsNamed, HoldsLock
<1>9. BootSound'
  <2> SUFFICES ASSUME ~late PROVE OneManager' /\ OneStart'
    BY <1>1 DEF BootSound
  <2>1. \A m \in Managers : IsAlive(m)' <=> IsAlive(m)
    BY <1>3, <1>4 DEF IsAlive, Alive
  <2>2. OneManager'
    BY <1>1, <1>3, <1>4, <2>1 DEF IInv, BootSound, OneManager, Boots, IsAlive
  <2>3. OneStart'
    BY <1>2 DEF OneStart
  <2> QED BY <2>2, <2>3
<1> QED BY <1>5, <1>6, <1>7, <1>8, <1>9 DEF IInv

LEMMA StopForcedStep ==
  ASSUME IInv, StopForced
  PROVE  IInv'
<1>1. /\ client.pc = "stop" /\ receipt.at = "runs-terminating" /\ identity \in Managers
      /\ client' = [client EXCEPT !.pc = "reconcile"] /\ process' = Terminate(identity) /\ identity' = None
      /\ UNCHANGED <<receipt, fence, work, generation, capture, version, faults, late>>
  BY Types DEF StopForced, Goto, repository, IInv
<1>2. /\ client' \in ClientType /\ client'.pc = "reconcile" /\ client'.cmd = client.cmd
      /\ client'.launched = client.launched
  BY <1>1, Moved DEF ClientSteps
<1>3. process' = [n \in Managers |-> IF n \in {identity} THEN [process[n] EXCEPT !.pc = "gone"] ELSE process[n]]
  BY <1>1, TerminateKills
<1>4. process' \in [Managers -> ProcessType]
  BY <1>1, <1>3, Killed
<1>5. TypeOK'
  BY <1>1, <1>2, <1>4, Types DEF IInv, TypeOK, ClientType, ProcessType
<1>6. WorkCounted' /\ ReceiptSound'
  BY <1>1 DEF IInv, WorkCounted, ReceiptSound, FenceBelongs
<1>7. ClientSound'
  BY <1>1, <1>2 DEF IInv, ClientSound
<1>8. ProcessSound'
  BY <1>1, <1>2, <1>3, KilledSound
<1>9. BootSound'
  BY <1>1, <1>2, <1>3, FewerAlive DEF IInv, BootSound, OneStart
<1> QED BY <1>5, <1>6, <1>7, <1>8, <1>9 DEF IInv

LEMMA StopExitedStep ==
  ASSUME IInv, StopExited
  PROVE  IInv'
<1>1. /\ client.pc = "awaitexit" /\ receipt.old \in Managers /\ process[receipt.old].pc = "gone"
      /\ identity' = IF identity = receipt.old THEN None ELSE identity
      /\ UNCHANGED <<receipt, fence, work, generation, capture, process, version, faults, late>>
      /\ identity' \in Managers \cup {None}
  BY Types DEF StopExited, Exited, repository, IInv, ClientSound, ReceiptType
<1>2. /\ client' \in ClientType /\ client'.pc \in {"reconcile", "idle"}
      /\ client'.pc = "reconcile" => client'.cmd = client.cmd /\ client'.launched = client.launched
      /\ client'.pc = "idle" => client'.launched = None
  <2>1. CASE client' = [client EXCEPT !.pc = "reconcile"]
    BY <2>1, Moved DEF ClientSteps
  <2>2. CASE client' = IdleClient
    BY <2>2, Idle DEF IdleClient
  <2> QED BY <2>1, <2>2 DEF StopExited, Goto, End
<1>3. TypeOK'
  BY <1>1, <1>2, Types DEF IInv, TypeOK, ClientType
<1>4. WorkCounted' /\ ReceiptSound'
  BY <1>1 DEF IInv, WorkCounted, ReceiptSound, FenceBelongs
<1>5. ClientSound'
  BY <1>1, <1>2 DEF IInv, ClientSound
<1>6. ProcessSound'
  BY <1>1, <1>2 DEF IInv, ProcessSound, ServingIsNamed
<1>7. BootSound'
  <2> SUFFICES ASSUME ~late PROVE OneManager' /\ OneStart'
    BY <1>1 DEF BootSound
  <2>1. OneManager'
    BY <1>1 DEF IInv, BootSound, OneManager, Boots, IsAlive, Alive
  <2>2. OneStart'
    BY <1>2 DEF OneStart
  <2> QED BY <2>1, <2>2
<1> QED BY <1>3, <1>4, <1>5, <1>6, <1>7 DEF IInv

LEMMA ReconcileStep ==
  ASSUME IInv, Reconcile
  PROVE  IInv'
<1>1. /\ client.pc = "reconcile" /\ receipt' = [receipt EXCEPT !.at = "owners-empty"]
      /\ client' = [client EXCEPT !.pc = "stop"] /\ work' = work \ {"run"}
      /\ UNCHANGED <<fence, generation, identity, capture, process, version, faults, late>>
  BY DEF Reconcile, Advance, Goto, boot
<1>2. /\ client' \in ClientType /\ client'.pc = "stop" /\ client'.cmd = client.cmd
      /\ client'.launched = client.launched
  BY <1>1, Moved DEF ClientSteps
<1>3. /\ receipt' \in ReceiptType /\ receipt'.at = "owners-empty" /\ receipt'.id = receipt.id
      /\ receipt'.kind = receipt.kind /\ receipt'.state = receipt.state
      /\ receipt'.kind # "restart" => receipt'.new = None
  BY <1>1, Noted, Names
<1>4. /\ receipt.state = "pending" /\ receipt.kind = client.cmd /\ client.cmd # "ensure"
      /\ receipt.at = "runs-terminating" /\ fence = receipt.id
  BY <1>1 DEF IInv, ClientSound, ReceiptSound
<1>5. TypeOK'
  BY <1>1, <1>2, <1>3, Types DEF IInv, TypeOK, ClientType, ReceiptType
<1>6. WorkCounted'
  BY <1>1, Types DEF IInv, WorkCounted, Generations
<1>7. ReceiptSound'
  BY <1>1, <1>3, <1>4, Names, StartNames DEF IInv, ReceiptSound, FenceBelongs
<1>8. ClientSound'
  BY <1>1, <1>2, <1>3, <1>4 DEF IInv, ClientSound
<1>9. ProcessSound'
  BY <1>1, <1>2 DEF IInv, ProcessSound, ServingIsNamed
<1>10. BootSound'
  BY <1>1, <1>2, <1>3, <1>4 DEF IInv, BootSound, OneManager, OneStart, Boots, IsAlive
<1> QED BY <1>5, <1>6, <1>7, <1>8, <1>9, <1>10 DEF IInv

LEMMA StopOwnersEmptyStep ==
  ASSUME IInv, StopOwnersEmpty
  PROVE  IInv'
<1>1. CASE /\ identity = None /\ receipt' = [receipt EXCEPT !.at = "manager-stopped"]
           /\ UNCHANGED <<fence, work, generation, identity, capture, process, version, faults, late, client>>
  BY <1>1, StopNoted DEF StopOwnersEmpty
<1>2. CASE /\ client' = IdleClient
           /\ UNCHANGED <<receipt, fence, work, generation, identity, capture, process, version, faults, late>>
  BY <1>2, EndStep DEF IInv, TypeOK
<1> QED BY <1>1, <1>2 DEF StopOwnersEmpty, End, Local, Write, Advance, repository, boot

LEMMA CleanedKills ==
  ASSUME IInv, process' = Cleaned
  PROVE  process' = [n \in Managers |-> IF n \in {m \in Managers : m = capture}
                                        THEN [process[n] EXCEPT !.pc = "gone"] ELSE process[n]]
<1>1. process = [n \in Managers |-> process[n]] /\ capture \in Managers \cup {None}
  BY Types DEF IInv
<1>2. CASE capture = None
  BY <1>1, <1>2, OperationAssumption DEF Cleaned
<1>3. CASE capture \in Managers
  <2>1. process' = Terminate(capture)
    BY <1>3, OperationAssumption DEF Cleaned
  <2>2. {m \in Managers : m = capture} = {capture}
    BY <1>3
  <2> QED BY <1>3, <2>1, <2>2, TerminateKills
<1> QED BY <1>1, <1>2, <1>3

LEMMA StopCleanBootStep ==
  ASSUME IInv, StopCleanBoot
  PROVE  IInv'
<1> DEFINE S == {m \in Managers : m = capture}
<1>1. /\ client.pc = "stop" /\ receipt.at = "manager-stopped"
      /\ receipt' = [receipt EXCEPT !.at = "bootstrap-cleaned"] /\ capture' = None
      /\ UNCHANGED <<fence, work, generation, identity, version, client, faults, late>>
  BY DEF StopCleanBoot, Advance, repository
<1>2. process' = [n \in Managers |-> IF n \in S THEN [process[n] EXCEPT !.pc = "gone"] ELSE process[n]]
  BY CleanedKills DEF StopCleanBoot
<1>3. /\ receipt' \in ReceiptType /\ receipt'.at = "bootstrap-cleaned" /\ receipt'.id = receipt.id
      /\ receipt'.kind = receipt.kind /\ receipt'.state = receipt.state
      /\ receipt'.kind # "restart" => receipt'.new = None
  BY <1>1, Noted, Names
<1>4. receipt.state = "pending" /\ receipt.kind = client.cmd /\ client.cmd # "ensure" /\ fence = receipt.id
  BY <1>1 DEF IInv, ClientSound, ReceiptSound
<1>5. S \in SUBSET Managers
  OBVIOUS
<1> HIDE DEF S
<1>6. /\ process' \in [Managers -> ProcessType]
      /\ \A m \in Managers : process'[m].pc = IF m \in S THEN "gone" ELSE process[m].pc
  BY <1>2, <1>5, Killed
<1>7. TypeOK'
  BY <1>1, <1>3, <1>6, Types DEF IInv, TypeOK, ReceiptType, ProcessType
<1>8. WorkCounted' /\ ReceiptSound'
  BY <1>1, <1>3, <1>4, Names, StartNames DEF IInv, WorkCounted, ReceiptSound, FenceBelongs
<1>9. ClientSound'
  BY <1>1, <1>3, <1>4 DEF IInv, ClientSound
<1>10. ProcessSound'
  BY <1>1, <1>2, <1>5, KilledSound
<1>11. BootSound'
  <2> SUFFICES ASSUME ~late PROVE OneManager' /\ OneStart'
    BY <1>1 DEF BootSound
  <2>1. identity = None
    BY <1>1, <1>4 DEF IInv, BootSound, OneManager
  <2>2. NoneAlive
    BY <1>1, <2>1, OperationAssumption DEF IInv, BootSound, OneManager, Boots
  <2>3. \A m \in Managers : ~IsAlive(m)'
    BY <1>6, <2>2 DEF IsAlive, Alive
  <2>4. OneManager'
    BY <1>1, <2>1, <2>3 DEF OneManager
  <2>5. OneStart'
    BY <1>1 DEF OneStart
  <2> QED BY <2>4, <2>5
<1> QED BY <1>7, <1>8, <1>9, <1>10, <1>11 DEF IInv

LEMMA StopSessionsStep ==
  ASSUME IInv, StopSessions
  PROVE  IInv'
<1>1. /\ client.pc = "stop" /\ receipt.at = "bootstrap-cleaned" /\ work' = work \ {"session"}
      /\ UNCHANGED <<receipt, fence, generation, identity, capture, process, version, faults, late>>
  BY DEF StopSessions, boot
<1>2. /\ receipt.state = "pending" /\ receipt.kind = client.cmd /\ client.cmd \in {"stop", "restart"}
      /\ fence = receipt.id /\ client.launched = None
  BY <1>1 DEF IInv, ClientSound, ReceiptSound, Kinds
<1>3. work' = {}
  BY <1>1, <1>2, Types DEF IInv, ReceiptSound
<1>4. /\ client' \in ClientType /\ client'.cmd = client.cmd /\ client'.launched = None
      /\ IF client.cmd = "stop" THEN client'.pc = "succeed" ELSE client'.pc = "run"
  <2>1. CASE client.cmd = "stop"
    <3>1. client' = [client EXCEPT !.pc = "succeed"]
      BY <2>1 DEF StopSessions, Goto
    <3> QED BY <1>2, <2>1, <3>1, Moved DEF ClientSteps
  <2>2. CASE client.cmd = "restart"
    <3>1. client' = [client EXCEPT !.pc = "run", !.launch = TRUE]
      BY <2>2 DEF StopSessions
    <3> QED BY <1>2, <2>2, <3>1, Types DEF IInv, ClientType, ClientSteps
  <2> QED BY <1>2, <2>1, <2>2
<1>5. TypeOK'
  BY <1>1, <1>3, <1>4, Types DEF IInv, TypeOK, ClientType
<1>6. WorkCounted' /\ ReceiptSound'
  BY <1>1, <1>3 DEF IInv, WorkCounted, ReceiptSound, FenceBelongs
<1>7. ClientSound'
  BY <1>1, <1>2, <1>3, <1>4 DEF IInv, ClientSound
<1>8. ProcessSound'
  BY <1>1, <1>4 DEF IInv, ProcessSound, ServingIsNamed
<1>9. BootSound'
  BY <1>1, <1>2, <1>3, <1>4 DEF IInv, BootSound, OneManager, OneStart, Boots, IsAlive
<1> QED BY <1>5, <1>6, <1>7, <1>8, <1>9 DEF IInv

--------------------------------------------------------------------------------
(* An abandoned start *)

LEMMA AfterRecoverIs ==
  ASSUME IInv, NEW launch \in BOOLEAN, AfterRecover(launch)
  PROVE  /\ client' \in ClientType /\ client'.cmd = client.cmd /\ client'.launched = client.launched
         /\ client'.launch = launch
         /\ client'.pc = IF client.cmd = "restart" /\ receipt'.at \notin StartCheckpoints
                         THEN IF receipt'.at = "restart-requested" THEN "request" ELSE "stop"
                         ELSE "run"
<1>1. PICK pc \in {"request", "stop", "run"} :
        /\ client' = [client EXCEPT !.launch = launch, !.pc = pc]
        /\ pc = IF client.cmd = "restart" /\ receipt'.at \notin StartCheckpoints
                THEN IF receipt'.at = "restart-requested" THEN "request" ELSE "stop"
                ELSE "run"
  BY DEF AfterRecover
<1>2. client \in ClientType /\ pc \in ClientSteps
  BY Types DEF IInv, ClientSteps
<1>3. client' \in ClientType
  BY <1>1, <1>2 DEF ClientType
<1>4. /\ client'.cmd = client.cmd /\ client'.launched = client.launched
      /\ client'.launch = launch /\ client'.pc = pc
  BY <1>1, <1>2 DEF ClientType
<1> QED BY <1>1, <1>3, <1>4

\* A start that goes on with the receipt as it is.
LEMMA RecoverNext ==
  ASSUME IInv, client.pc = "recover", NEW launch \in BOOLEAN, AfterRecover(launch), launch => NotLaunched,
         receipt' = receipt \/ receipt' = Renewed,
         UNCHANGED <<fence, work, generation, identity, capture, process, version, faults, late>>
  PROVE  IInv'
<1>1. /\ receipt' \in ReceiptType /\ receipt'.at = receipt.at /\ receipt'.id = receipt.id
      /\ receipt'.kind = receipt.kind /\ receipt'.state = receipt.state
      /\ receipt'.kind # "restart" => receipt'.new = None
  BY RenewedIs, Types DEF IInv
<1>2. /\ receipt.state = "pending" /\ receipt.kind = client.cmd /\ client.cmd \in {"ensure", "restart"}
      /\ client.launched = None /\ receipt.at # "restart-requested"
  BY DEF IInv, ClientSound, Kinds
<1>3. /\ client' \in ClientType /\ client'.cmd = client.cmd /\ client'.launched = client.launched
      /\ client'.launch = launch
      /\ client'.pc = IF client.cmd = "restart" /\ receipt.at \notin StartCheckpoints THEN "stop" ELSE "run"
  BY <1>1, <1>2, AfterRecoverIs
<1>4. client.cmd = "restart" => /\ receipt.at \in StartCheckpoints \cup {"bootstrap-cleaned"}
                                /\ fence = receipt.id
                                /\ receipt.at \in StartCheckpoints => work = {}
  BY <1>2 DEF IInv, ClientSound, ReceiptSound
<1>5. client.cmd = "ensure" => receipt.at \in StartCheckpoints \cup {"start-requested"}
  BY <1>2 DEF IInv, ReceiptSound
<1>6. ReceiptSound'
  BY <1>1 DEF IInv, ReceiptSound, FenceBelongs
<1>7. ClientSound'
  <2>1. launch => receipt.at \in {"start-requested", "bootstrap-cleaned"}
    BY DEF NotLaunched
  <2> QED BY <1>1, <1>2, <1>3, <1>4, <1>5, <2>1 DEF IInv, ClientSound
<1>8. BootSound'
  BY <1>1, <1>2, <1>3 DEF IInv, BootSound, OneManager, OneStart, Boots, IsAlive
<1> QED BY <1>1, <1>2, <1>3, <1>6, <1>7, <1>8, ReceiptStep DEF IInv, TypeOK

LEMMA RecoverResumeStep ==
  ASSUME IInv, RecoverResume
  PROVE  IInv'
BY RecoverNext DEF RecoverResume, Write, repository, boot

LEMMA RecoverWaitStep ==
  ASSUME IInv, RecoverWait
  PROVE  IInv'
BY RecoverNext DEF RecoverWait, Write, repository, boot

LEMMA RecoverRefusedStep ==
  ASSUME IInv, RecoverRefused
  PROVE  IInv'
BY EndStep DEF RecoverRefused, End, Local, repository, boot, IInv, TypeOK

\* A step that lets a boot escape is one of the bounded faults, and noted.
LEMMA EscapesIs ==
  ASSUME IInv, NEW happens \in BOOLEAN, Escapes(happens)
  PROVE  /\ faults' \in 0..MaxFaults /\ late' \in BOOLEAN
         /\ ~late' => ~late /\ ~happens
<1>1. faults' \in 0..MaxFaults
  BY OperationAssumption DEF Escapes, Fault, IInv, TypeOK
<1>2. late \in BOOLEAN
  BY DEF IInv, TypeOK
<1>3. CASE happens
  <2>1. late' = TRUE
    BY <1>3 DEF Escapes
  <2> QED BY <1>1, <2>1
<1>4. CASE ~happens
  <2>1. late' = late
    BY <1>4 DEF Escapes
  <2> QED BY <1>1, <1>2, <1>4, <2>1, Zenon
<1> QED BY <1>3, <1>4

LEMMA RecoverStopStep ==
  ASSUME IInv, RecoverStop
  PROVE  IInv'
<1>1. /\ client.pc = "recover" /\ client' = [client EXCEPT !.pc = "clean"] /\ identity' = None
      /\ UNCHANGED <<fence, work, generation, capture, version>>
  BY DEF RecoverStop, Goto, repository
<1>2. /\ faults' \in 0..MaxFaults /\ late' \in BOOLEAN
      /\ ~late' => ~late /\ ~Booting
  BY EscapesIs DEF RecoverStop, Booting
<1>3. /\ client' \in ClientType /\ client'.pc = "clean" /\ client'.cmd = client.cmd
      /\ client'.launched = client.launched
  BY <1>1, Moved DEF ClientSteps
<1>4. /\ receipt' \in ReceiptType /\ receipt'.at = receipt.at /\ receipt'.id = receipt.id
      /\ receipt'.kind = receipt.kind /\ receipt'.state = receipt.state
      /\ receipt'.kind # "restart" => receipt'.new = None
  BY Types DEF RecoverStop, IInv, ReceiptType
<1>5. PICK S \in SUBSET Managers :
        /\ process' = [n \in Managers |-> IF n \in S THEN [process[n] EXCEPT !.pc = "gone"] ELSE process[n]]
        /\ identity' = identity \/ (identity' = None /\ identity \in S)
        /\ identity # None => identity \in S
  <2>1. CASE identity = None /\ process' = process
    <3>1. process = [n \in Managers |-> process[n]]
      BY Types DEF IInv
    <3> WITNESS {} \in SUBSET Managers
    <3> QED BY <1>1, <2>1, <3>1
  <2>2. CASE identity # None /\ process' = Terminate(identity)
    <3>1. identity \in Managers
      BY <2>2, Types DEF IInv
    <3>2. process' = [n \in Managers |-> IF n \in {identity} THEN [process[n] EXCEPT !.pc = "gone"] ELSE process[n]]
      BY <2>2, <3>1, TerminateKills
    <3>3. {identity} \in SUBSET Managers
      BY <3>1
    <3> QED BY <1>1, <3>2, <3>3
  <2> QED BY <2>1, <2>2 DEF RecoverStop
<1>6. /\ process' \in [Managers -> ProcessType]
      /\ \A m \in Managers : process'[m].pc = IF m \in S THEN "gone" ELSE process[m].pc
  BY <1>5, Killed
<1>7. receipt.state = "pending" /\ receipt.kind = client.cmd /\ client.launched = None
  BY <1>1 DEF IInv, ClientSound
<1>8. TypeOK'
  BY <1>1, <1>2, <1>3, <1>4, <1>6, Types DEF IInv, TypeOK, ClientType, ProcessType, ReceiptType
<1>9. WorkCounted' /\ ReceiptSound'
  BY <1>1, <1>4 DEF IInv, WorkCounted, ReceiptSound, FenceBelongs
<1>10. ClientSound'
  BY <1>1, <1>3, <1>4 DEF IInv, ClientSound
<1>11. ProcessSound'
  BY <1>1, <1>3, <1>5, KilledSound
<1>12. BootSound'
  <2> SUFFICES ASSUME ~late' PROVE OneManager' /\ OneStart'
    BY DEF BootSound
  <2>1. ~late /\ \A m \in Managers : process[m].pc \notin {"spawned", "admitted"}
    BY <1>2 DEF Booting
  <2>2. OneManager'
    BY <1>1, <1>3, <1>4, <1>5, <2>1, FewerAlive DEF IInv, BootSound
  <2>3. \A m \in Managers : IsAlive(m)' => IsAlive(m) /\ m \notin S
    BY <1>6 DEF IsAlive, Alive
  <2>4. ASSUME NEW m \in Managers, IsAlive(m), m \notin S PROVE capture = m
    BY <1>5, <2>1, <2>4, OperationAssumption DEF IInv, BootSound, OneManager, Boots, IsAlive, Alive
  <2>5. OneStart'
    BY <1>1, <1>3, <2>3, <2>4 DEF OneStart
  <2> QED BY <2>2, <2>5
<1> QED BY <1>8, <1>9, <1>10, <1>11, <1>12 DEF IInv

LEMMA RecoverCleanStep ==
  ASSUME IInv, RecoverClean
  PROVE  IInv'
<1> DEFINE S == {m \in Managers : m = capture}
<1>1. /\ client.pc = "clean" /\ client' = [client EXCEPT !.pc = "giveup"] /\ capture' = None
      /\ UNCHANGED <<receipt, fence, work, generation, identity, version, faults, late>>
  BY DEF RecoverClean, Goto, repository
<1>2. process' = [n \in Managers |-> IF n \in S THEN [process[n] EXCEPT !.pc = "gone"] ELSE process[n]]
  BY CleanedKills DEF RecoverClean
<1>3. S \in SUBSET Managers /\ \A m \in Managers : m \in S <=> m = capture
  OBVIOUS
<1> HIDE DEF S
<1>4. /\ client' \in ClientType /\ client'.pc = "giveup" /\ client'.cmd = client.cmd
      /\ client'.launched = client.launched
  BY <1>1, Moved DEF ClientSteps
<1>5. /\ process' \in [Managers -> ProcessType]
      /\ \A m \in Managers : process'[m].pc = IF m \in S THEN "gone" ELSE process[m].pc
  BY <1>2, <1>3, Killed
<1>6. TypeOK'
  BY <1>1, <1>4, <1>5, Types DEF IInv, TypeOK, ClientType, ProcessType
<1>7. WorkCounted' /\ ReceiptSound'
  BY <1>1 DEF IInv, WorkCounted, ReceiptSound, FenceBelongs
<1>8. ClientSound'
  BY <1>1, <1>4 DEF IInv, ClientSound
<1>9. ProcessSound'
  BY <1>1, <1>2, <1>3, <1>4, KilledSound
<1>10. BootSound'
  <2> SUFFICES ASSUME ~late PROVE OneManager' /\ OneStart'
    BY <1>1 DEF BootSound
  <2>1. identity = None /\ \A m \in Managers : IsAlive(m) => m \in S
    BY <1>1, <1>3 DEF IInv, BootSound, OneStart
  <2>2. \A m \in Managers : ~IsAlive(m)'
    BY <1>5, <2>1 DEF IsAlive, Alive
  <2>3. OneManager'
    BY <1>1, <2>1, <2>2 DEF OneManager
  <2>4. OneStart'
    BY <1>1, <1>4, <2>1, <2>2 DEF OneStart
  <2> QED BY <2>3, <2>4
<1> QED BY <1>6, <1>7, <1>8, <1>9, <1>10 DEF IInv

LEMMA RecoverFailStep ==
  ASSUME IInv, RecoverFail
  PROVE  IInv'
<1>1. /\ client.pc = "giveup" /\ receipt' = Fail /\ client' = [client EXCEPT !.pc = "replace"]
      /\ UNCHANGED <<fence, work, generation, identity, capture, process, version, faults, late>>
      /\ faults' \in 0..MaxFaults
  BY DEF RecoverFail, Write, Goto, repository, boot, IInv, TypeOK
<1>2. /\ client' \in ClientType /\ client'.pc = "replace" /\ client'.cmd = client.cmd
      /\ client'.launched = client.launched
  BY <1>1, Moved DEF ClientSteps
<1>3. /\ receipt' \in ReceiptType /\ receipt'.at = receipt.at /\ receipt'.id = receipt.id
      /\ receipt'.kind = receipt.kind /\ receipt'.state = "failed"
      /\ receipt'.kind # "restart" => receipt'.new = None
  BY <1>1, FailedIs
<1>4. ReceiptSound'
  BY <1>1, <1>3 DEF IInv, ReceiptSound, FenceBelongs
<1>5. ClientSound'
  BY <1>1, <1>2, <1>3 DEF IInv, ClientSound
<1>6. BootSound'
  BY <1>1, <1>2, <1>3 DEF IInv, BootSound, OneManager, OneStart, IsAlive
<1> QED BY <1>1, <1>2, <1>3, <1>4, <1>5, <1>6, ReceiptStep

LEMMA RecoverReplaceStep ==
  ASSUME IInv, RecoverReplace
  PROVE  IInv'
<1>1. CASE End /\ Local
  BY <1>1, EndStep DEF End, Local, repository, boot, IInv, TypeOK
<1>2. CASE /\ receipt.id + 1 \in Ids /\ ReleaseFence /\ AfterRecover(TRUE)
           /\ receipt' = NewReceipt(client.cmd, IF client.cmd = "restart" THEN generation ELSE 0,
                                    IF client.cmd = "restart" THEN receipt.old ELSE None)
           /\ UNCHANGED <<work, generation, identity, capture, process, version, faults, late>>
  <2>1. client.pc = "replace" /\ receipt.kind = client.cmd /\ client.cmd \in {"ensure", "restart"}
        /\ client.launched = None
    BY DEF RecoverReplace, IInv, ClientSound, Kinds
  <2>2. fence' = 0
    BY <1>2, <2>1 DEF ReleaseFence, IInv, ReceiptSound
  <2>3. /\ receipt' \in ReceiptType /\ receipt'.at = Requested(client.cmd) /\ receipt'.id = receipt.id + 1
        /\ receipt'.kind = client.cmd /\ receipt'.state = "pending" /\ receipt'.new = None
    <3>1. PICK gen \in Generations, old \in Managers \cup {None} : receipt' = NewReceipt(client.cmd, gen, old)
      BY <1>2, Zeros, Types DEF IInv, ReceiptType
    <3> QED BY <1>2, <2>1, <3>1, NewReceiptIs DEF Kinds
  <2>4. /\ client' \in ClientType /\ client'.cmd = client.cmd /\ client'.launched = None
        /\ client'.pc = IF client.cmd = "restart" THEN "request" ELSE "run"
    BY <1>2, <2>1, <2>3, AfterRecoverIs, StartNames
  <2>5. receipt.id \in Nat
    BY Types DEF IInv, ReceiptType, Ids
  <2>6. TypeOK'
    BY <1>2, <2>2, <2>3, <2>4, Zeros, Types DEF IInv, TypeOK, ClientType, ReceiptType
  <2>7. ReceiptSound'
    BY <1>2, <2>1, <2>2, <2>3, <2>5, Names, StartNames DEF ReceiptSound, FenceBelongs, Kinds
  <2>8. WorkCounted'
    BY <1>2 DEF IInv, WorkCounted
  <2>9. ClientSound'
    BY <1>2, <2>1, <2>3, <2>4 DEF ClientSound, Kinds
  <2>10. ProcessSound'
    BY <1>2, <2>4 DEF IInv, ProcessSound, ServingIsNamed
  <2>11. BootSound'
    BY <1>2, <2>1, <2>3, <2>4 DEF IInv, BootSound, OneManager, OneStart, Boots, IsAlive
  <2> QED BY <2>6, <2>7, <2>8, <2>9, <2>10, <2>11 DEF IInv
<1> QED BY <1>1, <1>2 DEF RecoverReplace, boot

--------------------------------------------------------------------------------
(* Start *)

\* The client has seen a manager that answers ready.
LEMMA SeeStep ==
  ASSUME IInv, client.pc \in {"run", "watch", "wait"}, "ready" \in States(TRUE), client' = See(identity),
         UNCHANGED <<receipt, fence, work, generation, identity, capture, process, version, faults, late>>
  PROVE  IInv'
<1>1. identity # None /\ process[identity].pc = "serving"
  BY ReadyServes
<1>2. /\ client' \in ClientType /\ client'.pc = "ready" /\ client'.cmd = client.cmd
      /\ client'.launched = client.launched /\ client'.seen = identity
  BY Types DEF IInv, ClientType, ClientSteps, See
<1>3. ClientSound'
  BY <1>2 DEF IInv, ClientSound
<1>4. OneStart'
  BY <1>1, <1>2 DEF OneStart
<1> QED BY <1>2, <1>3, <1>4, ClientStep DEF IInv, TypeOK

LEMMA RunReadyStep ==
  ASSUME IInv, RunReady
  PROVE  IInv'
BY SeeStep DEF RunReady, Local, repository, boot

LEMMA WatchReadyStep ==
  ASSUME IInv, WatchReady
  PROVE  IInv'
BY SeeStep DEF WatchReady, Local, repository, boot

LEMMA WaitReadyStep ==
  ASSUME IInv, WaitReady
  PROVE  IInv'
BY SeeStep DEF WaitReady, Local, repository, boot

LEMMA RunWaitStep ==
  ASSUME IInv, RunWait
  PROVE  IInv'
<1>1. /\ client.pc = "run" /\ client' = [client EXCEPT !.pc = "wait"]
      /\ UNCHANGED <<receipt, fence, work, generation, identity, capture, process, version, faults, late>>
      /\ faults' \in 0..MaxFaults
  BY DEF RunWait, Goto, Local, repository, boot, IInv, TypeOK
<1>2. /\ client' \in ClientType /\ client'.pc = "wait" /\ client'.cmd = client.cmd
      /\ client'.launched = client.launched
  BY <1>1, Moved DEF ClientSteps
<1>3. ClientSound'
  BY <1>1, <1>2 DEF IInv, ClientSound
<1>4. OneStart'
  BY <1>2 DEF OneStart
<1> QED BY <1>1, <1>2, <1>3, <1>4, ClientStep

\* The receipt is advanced to a checkpoint of the start.
LEMMA StartNoted ==
  ASSUME IInv, NEW at \in StartCheckpoints,
         receipt'.at = at, receipt'.id = receipt.id, receipt'.kind = receipt.kind, receipt'.state = receipt.state,
         client.pc \in Starting \cup {"ready"}, UNCHANGED <<fence, work>>
  PROVE  ReceiptSound'
<1>1. /\ receipt.state = "pending" /\ receipt.kind = client.cmd /\ client.cmd \in {"ensure", "restart"}
      /\ work = {} \/ client.cmd = "ensure"
  BY DEF IInv, ClientSound, Kinds
<1>2. receipt.kind = "ensure" => fence # receipt.id
  BY <1>1 DEF IInv, ReceiptSound
<1>3. receipt.kind = "restart" => receipt.at # "restart-requested"
  BY StartNames DEF IInv, ClientSound
<1> QED BY <1>1, <1>2, <1>3, StartNames, Names DEF IInv, ReceiptSound, FenceBelongs

LEMMA RunVerifyStep ==
  ASSUME IInv, RunVerify
  PROVE  IInv'
<1>1. /\ client.pc = "run" /\ receipt.at \in {"start-requested", "bootstrap-cleaned"}
      /\ UNCHANGED <<fence, work, generation, identity, capture, process, version, faults, late>>
      /\ faults' \in 0..MaxFaults
  BY DEF RunVerify, Write, Local, repository, boot, IInv, TypeOK, ClientSound
<1>2. receipt.state = "pending" /\ client.launched = None
  BY <1>1 DEF IInv, ClientSound
<1>3. ~late => identity = None /\ NoneAlive
  <2>1. ~late => identity = None
    BY <1>1, <1>2 DEF IInv, BootSound, OneManager
  <2> QED BY <1>1, <2>1, OperationAssumption DEF IInv, BootSound, OneManager, Boots
<1>4. CASE receipt' = [receipt EXCEPT !.at = "runtime-verified"] /\ client' = [client EXCEPT !.pc = "launch"]
  <2>1. /\ client' \in ClientType /\ client'.pc = "launch" /\ client'.cmd = client.cmd
        /\ client'.launched = client.launched
    BY <1>4, Moved DEF ClientSteps
  <2>2. /\ receipt' \in ReceiptType /\ receipt'.at = "runtime-verified" /\ receipt'.id = receipt.id
        /\ receipt'.kind = receipt.kind /\ receipt'.state = receipt.state
        /\ receipt'.kind # "restart" => receipt'.new = None
    BY <1>4, Noted, Names, StartNames
  <2>3. ReceiptSound'
    BY <1>1, <2>2, StartNoted, StartNames
  <2>4. ClientSound'
    BY <1>1, <1>2, <2>1, <2>2, StartNames DEF IInv, ClientSound
  <2>5. BootSound'
    BY <1>1, <1>3, <2>1, <2>2 DEF BootSound, OneManager, OneStart, IsAlive
  <2> QED BY <1>1, <2>1, <2>2, <2>3, <2>4, <2>5, ReceiptStep
<1>5. CASE receipt' = receipt /\ client' = [client EXCEPT !.pc = "fail"]
  <2>1. /\ client' \in ClientType /\ client'.pc = "fail" /\ client'.cmd = client.cmd
        /\ client'.launched = client.launched
    BY <1>5, Moved DEF ClientSteps
  <2>2. ClientSound'
    BY <1>1, <1>5, <2>1 DEF IInv, ClientSound
  <2>3. ~late => OneStart'
    BY <1>1, <1>3, <2>1 DEF OneStart, IsAlive
  <2> QED BY <1>1, <1>5, <2>1, <2>2, <2>3, ClientStep
<1> QED BY <1>4, <1>5 DEF RunVerify, Write, Local, Advance, Goto

LEMMA RunLaunchStep ==
  ASSUME IInv, RunLaunch
  PROVE  IInv'
<1>1. PICK m \in Managers :
        /\ client.pc = "launch" /\ process[m].pc \in {"unused", "gone"} /\ m \notin {identity, capture}
        /\ process' = [process EXCEPT ![m] =
             [pc |-> "spawned", operation |-> receipt.id, version |-> receipt.version]]
        /\ client' = [client EXCEPT !.pc = "launched", !.launched = m]
        /\ UNCHANGED <<receipt, fence, work, generation, identity, capture, version, faults, late>>
  BY DEF RunLaunch, IsFresh, repository
<1>2. /\ client' \in ClientType /\ client'.pc = "launched" /\ client'.cmd = client.cmd
      /\ client'.launched = m
  BY <1>1, Types DEF IInv, ClientType, ClientSteps
<1>3. /\ process' \in [Managers -> ProcessType]
      /\ \A n \in Managers : IF n = m THEN process'[n].pc = "spawned" /\ process'[n].operation = receipt.id
                             ELSE process'[n] = process[n]
  <2>1. [pc |-> "spawned", operation |-> receipt.id, version |-> receipt.version] \in ProcessType
    BY Types DEF IInv, ReceiptType, ProcessType, Alive
  <2>2. process \in [Managers -> ProcessType]
    BY Types DEF IInv
  <2> QED BY <1>1, <2>1, <2>2
<1>4. m # None
  BY OperationAssumption
<1>5. TypeOK'
  BY <1>1, <1>2, <1>3, Types DEF IInv, TypeOK, ClientType, ProcessType
<1>6. WorkCounted' /\ ReceiptSound'
  BY <1>1 DEF IInv, WorkCounted, ReceiptSound, FenceBelongs
<1>7. ClientSound'
  BY <1>1, <1>2, <1>4 DEF IInv, ClientSound
<1>8. ProcessSound'
  BY <1>1, <1>2, <1>3, Types DEF IInv, ProcessSound, ServingIsNamed, HoldsLock
<1>9. BootSound'
  <2> SUFFICES ASSUME ~late PROVE OneManager' /\ OneStart'
    BY <1>1 DEF BootSound
  <2>1. identity = None /\ NoneAlive
    BY <1>1 DEF IInv, BootSound, OneStart
  <2>2. \A n \in Managers : IsAlive(n)' => n = m
    BY <1>3, <2>1 DEF IsAlive
  <2>3. receipt.state = "pending" /\ receipt.kind # "stop" /\ receipt.at = "runtime-verified"
    BY <1>1 DEF IInv, ClientSound
  <2>4. OneManager'
    BY <1>1, <1>3, <2>1, <2>2, <2>3 DEF OneManager, Boots
  <2>5. OneStart'
    BY <1>2, <2>2 DEF OneStart
  <2> QED BY <2>4, <2>5
<1> QED BY <1>5, <1>6, <1>7, <1>8, <1>9 DEF IInv

LEMMA RunLaunchFailsStep ==
  ASSUME IInv, RunLaunchFails
  PROVE  IInv'
<1>1. /\ client.pc = "launch" /\ client' = [client EXCEPT !.pc = "failclean"]
      /\ UNCHANGED <<receipt, fence, work, generation, identity, capture, process, version, faults, late>>
      /\ faults' \in 0..MaxFaults
  BY DEF RunLaunchFails, Goto, Local, repository, boot, IInv, TypeOK
<1>2. /\ client' \in ClientType /\ client'.pc = "failclean" /\ client'.cmd = client.cmd
      /\ client'.launched = client.launched /\ client.launched = None
  BY <1>1, Moved DEF ClientSteps, IInv, ClientSound
<1>3. ClientSound'
  BY <1>1, <1>2 DEF IInv, ClientSound
<1>4. ~late => OneStart'
  BY <1>1, <1>2 DEF IInv, BootSound, OneStart, IsAlive
<1> QED BY <1>1, <1>2, <1>3, <1>4, ClientStep

LEMMA RunLaunchedStep ==
  ASSUME IInv, RunLaunched
  PROVE  IInv'
<1>1. /\ client.pc = "launched" /\ client' = [client EXCEPT !.pc = "watch"]
      /\ receipt' = [receipt EXCEPT !.at = "bootstrap-launched"]
      /\ UNCHANGED <<fence, work, generation, identity, capture, process, version, faults, late>>
      /\ faults' \in 0..MaxFaults
  BY DEF RunLaunched, Write, Advance, Goto, repository, boot, IInv, TypeOK
<1>2. /\ client' \in ClientType /\ client'.pc = "watch" /\ client'.cmd = client.cmd
      /\ client'.launched = client.launched
  BY <1>1, Moved DEF ClientSteps
<1>3. /\ receipt' \in ReceiptType /\ receipt'.at = "bootstrap-launched" /\ receipt'.id = receipt.id
      /\ receipt'.kind = receipt.kind /\ receipt'.state = receipt.state
      /\ receipt'.kind # "restart" => receipt'.new = None
  BY <1>1, Noted, Names, StartNames
<1>4. ReceiptSound'
  BY <1>1, <1>3, StartNoted, StartNames
<1>5. ClientSound'
  BY <1>1, <1>2, <1>3, StartNames DEF IInv, ClientSound
<1>6. BootSound'
  <2>1. receipt.at = "runtime-verified"
    BY <1>1 DEF IInv, ClientSound
  <2> QED BY <1>1, <1>2, <1>3, <2>1 DEF IInv, BootSound, OneManager, OneStart, Boots, IsAlive
<1> QED BY <1>1, <1>2, <1>3, <1>4, <1>5, <1>6, ReceiptStep

\* The receipt with the manager that a start has got.
LEMMA IdentifiedIs ==
  ASSUME IInv, NEW at \in Checkpoints, NEW m \in Managers \cup {None}, receipt.kind \in {"ensure", "restart"},
         receipt' = Identified(at, m)
  PROVE  /\ receipt' \in ReceiptType /\ receipt'.at = at /\ receipt'.id = receipt.id
         /\ receipt'.kind = receipt.kind /\ receipt'.state = receipt.state
         /\ receipt'.kind = "restart" => receipt'.new = m /\ receipt'.old = receipt.old
         /\ receipt'.kind # "restart" => receipt'.new = None
BY Types DEF IInv, ReceiptType, Identified

LEMMA WatchIdentityStep ==
  ASSUME IInv, WatchIdentity
  PROVE  IInv'
<1>1. /\ client.pc = "watch" /\ identity # None /\ receipt.at = "bootstrap-launched"
      /\ receipt' = Identified("identity-published", identity)
      /\ UNCHANGED <<fence, work, generation, identity, capture, process, version, faults, late, client>>
      /\ faults' \in 0..MaxFaults /\ client' \in ClientType
  BY Types DEF WatchIdentity, Write, repository, boot, IInv
<1>2. receipt.kind = client.cmd /\ client.cmd \in {"ensure", "restart"} /\ receipt.state = "pending"
  BY <1>1 DEF IInv, ClientSound, Kinds
<1>3. /\ receipt' \in ReceiptType /\ receipt'.at = "identity-published" /\ receipt'.id = receipt.id
      /\ receipt'.kind = receipt.kind /\ receipt'.state = receipt.state
      /\ receipt'.kind # "restart" => receipt'.new = None
  BY <1>1, <1>2, IdentifiedIs, Names, StartNames, Types DEF IInv
<1>4. ReceiptSound'
  BY <1>1, <1>3, StartNoted, StartNames
<1>5. ClientSound'
  BY <1>1, <1>2, <1>3, StartNames DEF IInv, ClientSound
<1>6. BootSound'
  BY <1>1, <1>3 DEF IInv, BootSound, OneManager, OneStart, Boots, IsAlive
<1> QED BY <1>1, <1>3, <1>4, <1>5, <1>6, ReceiptStep

LEMMA WatchEndStep ==
  ASSUME IInv, client.pc = "watch", client' = [client EXCEPT !.pc = "failclean"],
         UNCHANGED <<receipt, fence, work, generation, identity, capture, process, version, late>>,
         faults' \in 0..MaxFaults
  PROVE  IInv'
<1>1. /\ client' \in ClientType /\ client'.pc = "failclean" /\ client'.cmd = client.cmd
      /\ client'.launched = client.launched
  BY Moved DEF ClientSteps
<1>2. ClientSound'
  BY <1>1 DEF IInv, ClientSound
<1>3. ~late => OneStart'
  BY <1>1 DEF IInv, BootSound, OneStart, IsAlive
<1> QED BY <1>1, <1>2, <1>3, ClientStep

LEMMA WatchFailStep ==
  ASSUME IInv, WatchFail
  PROVE  IInv'
BY WatchEndStep DEF WatchFail, Goto, Local, repository, boot, IInv, TypeOK

\* Faults are counted.
LEMMA FaultIs ==
  ASSUME IInv, Fault
  PROVE  faults' \in 0..MaxFaults /\ faults' # faults
BY OperationAssumption DEF Fault, IInv, TypeOK

LEMMA WatchExpiresStep ==
  ASSUME IInv, WatchExpires
  PROVE  IInv'
BY WatchEndStep, FaultIs DEF WatchExpires, Goto, LocalFault, repository, boot

LEMMA FailCleanStep ==
  ASSUME IInv, FailClean
  PROVE  IInv'
<1> DEFINE S == {m \in Managers : m \in {client.launched, capture}}
<1>1. /\ client.pc = "failclean" /\ client' = [client EXCEPT !.pc = "fail"] /\ capture' = None
      /\ UNCHANGED <<receipt, fence, work, generation, identity, version, faults, late>>
  BY DEF FailClean, Goto, repository
<1>2. process' = [n \in Managers |-> IF n \in S THEN [process[n] EXCEPT !.pc = "gone"] ELSE process[n]]
  BY DEF FailClean
<1>3. S \in SUBSET Managers /\ \A m \in Managers : m = client.launched => m \in S
  OBVIOUS
<1> HIDE DEF S
<1>4. /\ client' \in ClientType /\ client'.pc = "fail" /\ client'.cmd = client.cmd
      /\ client'.launched = client.launched
  BY <1>1, Moved DEF ClientSteps
<1>5. /\ process' \in [Managers -> ProcessType]
      /\ \A m \in Managers : process'[m].pc = IF m \in S THEN "gone" ELSE process[m].pc
  BY <1>2, <1>3, Killed
<1>6. TypeOK'
  BY <1>1, <1>4, <1>5, Types DEF IInv, TypeOK, ClientType, ProcessType
<1>7. WorkCounted' /\ ReceiptSound'
  BY <1>1 DEF IInv, WorkCounted, ReceiptSound, FenceBelongs
<1>8. ClientSound'
  BY <1>1, <1>4 DEF IInv, ClientSound
<1>9. ProcessSound'
  BY <1>1, <1>2, <1>3, <1>4, KilledSound
<1>10. BootSound'
  <2> SUFFICES ASSUME ~late PROVE OneManager' /\ OneStart'
    BY <1>1 DEF BootSound
  <2>1. \A m \in Managers : IsAlive(m) => m \in S
    BY <1>1, <1>3 DEF IInv, BootSound, OneStart
  <2>2. \A m \in Managers : ~IsAlive(m)'
    BY <1>5, <2>1 DEF IsAlive, Alive
  <2>3. OneManager'
    BY <1>1, <2>2 DEF IInv, BootSound, OneManager
  <2>4. OneStart'
    BY <1>4, <2>2 DEF OneStart
  <2> QED BY <2>3, <2>4
<1> QED BY <1>6, <1>7, <1>8, <1>9, <1>10 DEF IInv

LEMMA FailReceiptStep ==
  ASSUME IInv, FailReceipt
  PROVE  IInv'
<1>1. /\ client.pc = "fail" /\ receipt' = Fail /\ client' = IdleClient
      /\ UNCHANGED <<fence, work, generation, identity, capture, process, version, faults, late>>
      /\ faults' \in 0..MaxFaults
  BY DEF FailReceipt, Write, End, repository, boot, IInv, TypeOK
<1>2. client' \in ClientType /\ client'.pc = "idle" /\ client'.launched = None
  BY <1>1, Idle DEF IdleClient
<1>3. /\ receipt' \in ReceiptType /\ receipt'.id = receipt.id
      /\ receipt'.kind = receipt.kind /\ receipt'.state = "failed"
      /\ receipt'.kind # "restart" => receipt'.new = None
  BY <1>1, FailedIs
<1>4. ReceiptSound'
  BY <1>1, <1>3 DEF IInv, ReceiptSound, FenceBelongs
<1>5. ClientSound'
  BY <1>2, <1>4 DEF ClientSound
<1>6. BootSound'
  BY <1>1, <1>2, <1>3 DEF IInv, BootSound, OneManager, OneStart, IsAlive
<1> QED BY <1>1, <1>2, <1>3, <1>4, <1>5, <1>6, ReceiptStep

LEMMA WaitGivesUpStep ==
  ASSUME IInv, WaitGivesUp
  PROVE  IInv'
BY EndStep DEF WaitGivesUp, End, Local, repository, boot, IInv, TypeOK

--------------------------------------------------------------------------------
(* The end of a command *)

LEMMA CompleteStep ==
  ASSUME IInv, Complete
  PROVE  IInv'
<1>1. CASE End /\ Local
  BY <1>1, EndStep DEF End, Local, repository, boot, IInv, TypeOK
<1>2. CASE Write(Identified("endpoint-ready", client.seen)) /\ Goto("succeed")
  <2>1. /\ client.pc = "ready" /\ client' = [client EXCEPT !.pc = "succeed"]
        /\ receipt' = Identified("endpoint-ready", client.seen)
        /\ UNCHANGED <<fence, work, generation, identity, capture, process, version, faults, late>>
        /\ faults' \in 0..MaxFaults
    BY <1>2 DEF Complete, Write, Goto, repository, boot, IInv, TypeOK
  <2>2. receipt.kind = client.cmd /\ client.cmd \in {"ensure", "restart"} /\ receipt.state = "pending"
    BY <2>1 DEF IInv, ClientSound, Kinds
  <2>3. client.seen \in Managers \cup {None}
    BY Types DEF IInv, ClientType
  <2>4. /\ receipt' \in ReceiptType /\ receipt'.at = "endpoint-ready" /\ receipt'.id = receipt.id
        /\ receipt'.kind = receipt.kind /\ receipt'.state = receipt.state
        /\ receipt'.kind = "restart" => receipt'.new = client.seen
        /\ receipt'.kind # "restart" => receipt'.new = None
    BY <2>1, <2>2, <2>3, IdentifiedIs, Names, StartNames
  <2>5. /\ client' \in ClientType /\ client'.pc = "succeed" /\ client'.cmd = client.cmd
        /\ client'.launched = client.launched /\ client'.seen = client.seen
    BY <2>1, Moved DEF ClientSteps
  <2>6. ReceiptSound'
    BY <2>1, <2>4, StartNoted, StartNames
  <2>7. ClientSound'
    BY <2>1, <2>2, <2>4, <2>5, StartNames DEF IInv, ClientSound
  <2>8. BootSound'
    BY <2>1, <2>2, <2>4, <2>5 DEF IInv, BootSound, OneManager, OneStart, Boots, IsAlive
  <2> QED BY <2>1, <2>4, <2>5, <2>6, <2>7, <2>8, ReceiptStep
<1> QED BY <1>1, <1>2 DEF Complete

LEMMA SucceedIs ==
  ASSUME IInv, receipt' = Succeed
  PROVE  /\ receipt' \in ReceiptType /\ receipt'.at = receipt.at /\ receipt'.id = receipt.id
         /\ receipt'.kind = receipt.kind /\ receipt'.state = "succeeded"
         /\ receipt'.kind # "restart" => receipt'.new = None
BY Types DEF IInv, ReceiptType, Succeed

\* At the last checkpoint of a command no boot is under way.
LEMMA BootsAreOver ==
  ASSUME IInv, ~late, receipt.at \in {"bootstrap-cleaned", "endpoint-ready"}, NEW m \in Managers, IsAlive(m)
  PROVE  process[m].pc \in {"published", "serving", "stopping"} /\ identity = m
BY DEF IInv, BootSound, OneManager, Boots

LEMMA FinishStep ==
  ASSUME IInv, Finish
  PROVE  IInv'
<1>1. /\ client.pc = "succeed" /\ receipt' = Succeed
      /\ UNCHANGED <<fence, work, generation, identity, capture, process, version, faults, late>>
      /\ faults' \in 0..MaxFaults
  BY DEF Finish, Write, repository, boot, IInv, TypeOK
<1>2. /\ receipt' \in ReceiptType /\ receipt'.at = receipt.at /\ receipt'.id = receipt.id
      /\ receipt'.kind = receipt.kind /\ receipt'.state = "succeeded"
      /\ receipt'.kind # "restart" => receipt'.new = None
  BY <1>1, SucceedIs
<1>3. /\ receipt.state = "pending" /\ receipt.kind = client.cmd
      /\ receipt.at \in {"bootstrap-cleaned", "endpoint-ready"}
  BY <1>1 DEF IInv, ClientSound
<1>4. /\ client' \in ClientType /\ client'.pc \in {"idle", "unfence"}
      /\ client'.pc = "unfence" => client'.cmd = client.cmd /\ client.cmd \in {"stop", "restart"}
  <2>1. CASE client.cmd = "ensure"
    <3>1. client' = IdleClient
      BY <1>3, <2>1 DEF Finish, End
    <3>2. client'.pc = "idle"
      BY <3>1 DEF IdleClient
    <3> QED BY <3>1, <3>2, Idle
  <2>2. CASE client.cmd \in {"stop", "restart"}
    <3>1. client' = [client EXCEPT !.pc = "unfence"]
      BY <1>3, <2>2 DEF Finish, Goto
    <3> QED BY <2>2, <3>1, Moved DEF ClientSteps
  <2> QED BY <1>1, <2>1, <2>2 DEF IInv, ClientSound, Kinds
<1>5. client'.pc = "idle" => client'.launched = None
  BY <1>3, Idle DEF Finish, End, Goto, IdleClient, IInv, TypeOK
<1>6. ReceiptSound'
  BY <1>1, <1>2 DEF IInv, ReceiptSound, FenceBelongs
<1>7. ClientSound'
  BY <1>1, <1>2, <1>3, <1>4, <1>5 DEF IInv, ClientSound, Kinds
<1>8. BootSound'
  <2> SUFFICES ASSUME ~late PROVE OneManager' /\ OneStart'
    BY <1>1 DEF BootSound
  <2>1. OneManager'
    BY <1>1, <1>2, <1>3, BootsAreOver DEF IInv, BootSound, OneManager, IsAlive
  <2>2. OneStart'
    BY <1>4 DEF OneStart
  <2> QED BY <2>1, <2>2
<1> QED BY <1>1, <1>2, <1>4, <1>6, <1>7, <1>8, ReceiptStep

LEMMA UnfenceStep ==
  ASSUME IInv, Unfence
  PROVE  IInv'
<1>1. /\ client.pc = "unfence" /\ client' = IdleClient
      /\ UNCHANGED <<receipt, work, generation, identity, capture, process, version, faults, late>>
  BY DEF Unfence, End, boot
<1>2. client' \in ClientType /\ client'.pc = "idle" /\ client'.launched = None
  BY Idle DEF Unfence, End, IdleClient
<1>3. receipt.state # "pending"
  BY DEF Unfence, IInv, ClientSound
<1>4. fence' \in {0, fence}
  BY DEF Unfence
<1>5. TypeOK'
  BY <1>1, <1>2, <1>4, Types, Zeros DEF IInv, TypeOK, ClientType
<1>6. WorkCounted' /\ ReceiptSound'
  BY <1>1, <1>3, <1>4 DEF IInv, WorkCounted, ReceiptSound, FenceBelongs
<1>7. ClientSound'
  BY <1>2 DEF ClientSound
<1>8. ProcessSound'
  BY <1>1, <1>2 DEF IInv, ProcessSound, ServingIsNamed
<1>9. BootSound'
  BY <1>1, <1>2 DEF IInv, BootSound, OneManager, OneStart, Boots, IsAlive
<1> QED BY <1>5, <1>6, <1>7, <1>8, <1>9 DEF IInv

LEMMA GiveUpStep ==
  ASSUME IInv, GiveUp
  PROVE  IInv'
BY EndStep, FaultIs DEF GiveUp, End, LocalFault, repository, boot

LEMMA KillStep ==
  ASSUME IInv, Kill
  PROVE  IInv'
BY EndStep, FaultIs DEF Kill, End, repository, boot

--------------------------------------------------------------------------------
(* The manager processes and their work *)

\* A process moves on from one state to another.
LEMMA BecomeIs ==
  ASSUME IInv, NEW m \in Managers, NEW pc \in Alive \cup {"gone"}, process' = [process EXCEPT ![m].pc = pc]
  PROVE  /\ process' \in [Managers -> ProcessType]
         /\ \A n \in Managers : /\ process'[n].pc = IF n = m THEN pc ELSE process[n].pc
                                /\ process'[n].operation = process[n].operation
<1>1. process \in [Managers -> ProcessType]
  BY Types DEF IInv
<1> QED BY <1>1 DEF ProcessType

\* A process that does not serve ends, and takes its own files with it.
LEMMA LeaveStep ==
  ASSUME IInv, NEW m \in Managers, IsAlive(m), process[m].pc # "serving", Leave(m), work' \subseteq work,
         UNCHANGED <<receipt, fence, generation, version, client, faults, late>>
  PROVE  IInv'
<1>1. /\ process' \in [Managers -> ProcessType]
      /\ \A n \in Managers : /\ process'[n].pc = IF n = m THEN "gone" ELSE process[n].pc
                             /\ process'[n].operation = process[n].operation
  BY BecomeIs DEF Leave
<1>2. /\ capture' = IF capture = m THEN None ELSE capture
      /\ identity' = IF identity = m THEN None ELSE identity
  BY DEF Leave
<1>3. TypeOK'
  BY <1>1, <1>2, Types DEF IInv, TypeOK, ProcessType
<1>4. WorkCounted' /\ ReceiptSound'
  <2>1. work = {} => work' = {}
    OBVIOUS
  <2>2. work' = {"run", "session"} => work = {"run", "session"}
    BY Types DEF IInv
  <2> QED BY <2>1, <2>2 DEF IInv, WorkCounted, ReceiptSound, FenceBelongs
<1>5. ClientSound'
  BY DEF IInv, ClientSound
<1>6. ProcessSound'
  <2>1. capture' # None => capture' = capture /\ capture # m
    BY <1>2
  <2>2. capture' # None => process'[capture'].pc # "serving"
    BY <1>1, <2>1, Types DEF IInv, ProcessSound
  <2>3. ServingIsNamed'
    BY <1>1, <1>2 DEF IInv, ProcessSound, ServingIsNamed
  <2> QED BY <1>1, <2>2, <2>3 DEF IInv, ProcessSound, HoldsLock
<1>7. BootSound'
  <2> SUFFICES ASSUME ~late PROVE OneManager' /\ OneStart'
    BY DEF BootSound
  <2>1. \A n \in Managers : ~IsAlive(n)'
    BY <1>1 DEF IInv, BootSound, OneManager, IsAlive, Alive
  <2>2. OneManager'
    BY <1>2, <2>1 DEF IInv, BootSound, OneManager
  <2>3. ~(client.pc \in Confirming /\ client.cmd # "stop" /\ m = client.seen)
    BY DEF IInv, BootSound, OneStart, IsAlive, Alive
  <2>4. client.pc \in Confirming /\ client.cmd # "stop" =>
          client.seen \in Managers /\ client.seen # m
    BY <2>3, Types DEF IInv, BootSound, OneStart, ClientType
  <2>5. work = {} => work' = {}
    OBVIOUS
  <2>6. OneStart'
    BY <1>1, <1>2, <2>1, <2>4, <2>5 DEF IInv, BootSound, OneStart
  <2> QED BY <2>2, <2>6
<1> QED BY <1>3, <1>4, <1>5, <1>6, <1>7 DEF IInv

\* A boot goes on, short of its publication.
LEMMA BootStep ==
  ASSUME IInv, NEW m \in Managers, process[m].pc \in {"spawned", "admitted", "captured", "locked"},
         NEW pc \in {"admitted", "captured", "locked", "cleared"}, process' = [process EXCEPT ![m].pc = pc],
         capture' \in {capture, m},
         pc = "admitted" \/ capture' = m \/ process[m].pc \in {"captured", "locked"},
         pc \in HoldsLock => process[m].pc \in HoldsLock \/ LockFree,
         UNCHANGED <<receipt, fence, work, generation, identity, version, client, faults, late>>
  PROVE  IInv'
<1>1. /\ process' \in [Managers -> ProcessType]
      /\ \A n \in Managers : /\ process'[n].pc = IF n = m THEN pc ELSE process[n].pc
                             /\ process'[n].operation = process[n].operation
  BY BecomeIs DEF Alive
<1>2. TypeOK'
  BY <1>1, Types DEF IInv, TypeOK, ProcessType
<1>3. WorkCounted' /\ ReceiptSound' /\ ClientSound'
  BY DEF IInv, WorkCounted, ReceiptSound, FenceBelongs, ClientSound
<1>4. ProcessSound'
  <2>1. capture' # None => process'[capture'].pc # "serving"
    BY <1>1, Types DEF IInv, ProcessSound
  <2>2. ServingIsNamed'
    BY <1>1 DEF IInv, ProcessSound, ServingIsNamed
  <2>3. \A n, k \in Managers : process'[n].pc \in HoldsLock /\ process'[k].pc \in HoldsLock => n = k
    BY <1>1 DEF IInv, ProcessSound, LockFree
  <2> QED BY <1>1, <2>1, <2>2, <2>3 DEF IInv, ProcessSound
<1>5. BootSound'
  <2> SUFFICES ASSUME ~late PROVE OneManager' /\ OneStart'
    BY DEF BootSound
  <2>1. IsAlive(m) /\ \A n \in Managers : IsAlive(n)' <=> IsAlive(n)
    BY <1>1 DEF IsAlive, Alive
  <2>2. \A n \in Managers : IsAlive(n) => n = m
    BY <2>1 DEF IInv, BootSound, OneManager
  <2>3. Boots(m)
    BY <2>1 DEF IInv, BootSound, OneManager
  <2>4. Boots(m)'
    BY <1>1, <2>3 DEF Boots
  <2>5. OneManager'
    BY <1>1, <2>1, <2>2, <2>4 DEF IInv, BootSound, OneManager
  <2>6. client.pc \notin Confirming \/ client.cmd = "stop"
    BY <2>3 DEF IInv, BootSound, OneStart, Boots
  <2>7. client.pc = "clean" => capture = m
    BY <2>1 DEF IInv, BootSound, OneStart
  <2>8. OneStart'
    BY <1>1, <2>1, <2>2, <2>6, <2>7 DEF IInv, BootSound, OneStart
  <2> QED BY <2>5, <2>8
<1> QED BY <1>2, <1>3, <1>4, <1>5 DEF IInv

LEMMA BootAdmitStep ==
  ASSUME IInv, NEW m \in Managers, BootAdmit(m)
  PROVE  IInv'
<1>1. /\ process[m].pc = "spawned" /\ IsAlive(m)
      /\ UNCHANGED <<receipt, fence, work, generation, version, client, faults, late>>
  BY DEF BootAdmit, BootFrame, repository, IsAlive, Alive
<1>2. CASE Leave(m)
  BY <1>1, <1>2, LeaveStep
<1>3. CASE Become(m, "admitted") /\ UNCHANGED <<identity, capture>>
  BY <1>1, <1>3, BootStep DEF Become, HoldsLock
<1> QED BY <1>2, <1>3 DEF BootAdmit

LEMMA BootCaptureStep ==
  ASSUME IInv, NEW m \in Managers, BootCapture(m)
  PROVE  IInv'
BY BootStep DEF BootCapture, Become, BootFrame, repository, HoldsLock

LEMMA BootLockStep ==
  ASSUME IInv, NEW m \in Managers, BootLock(m)
  PROVE  IInv'
<1>1. /\ process[m].pc = "captured" /\ IsAlive(m)
      /\ UNCHANGED <<receipt, fence, work, generation, version, client, faults, late>>
  BY DEF BootLock, BootFrame, repository, IsAlive, Alive
<1>2. CASE Leave(m)
  BY <1>1, <1>2, LeaveStep
<1>3. CASE LockFree /\ Become(m, "locked") /\ UNCHANGED <<identity, capture>>
  BY <1>1, <1>3, BootStep DEF Become
<1> QED BY <1>2, <1>3 DEF BootLock

LEMMA BootClearStep ==
  ASSUME IInv, NEW m \in Managers, BootClear(m)
  PROVE  IInv'
<1>1. /\ process[m].pc = "locked" /\ IsAlive(m)
      /\ UNCHANGED <<receipt, fence, work, generation, version, client, faults, late>>
  BY DEF BootClear, BootFrame, repository, IsAlive, Alive
<1>2. CASE Leave(m)
  BY <1>1, <1>2, LeaveStep
<1>3. CASE Become(m, "cleared") /\ UNCHANGED <<identity, capture>>
  BY <1>1, <1>3, BootStep DEF Become, HoldsLock
<1> QED BY <1>2, <1>3 DEF BootClear

LEMMA BootPublishStep ==
  ASSUME IInv, NEW m \in Managers, BootPublish(m)
  PROVE  IInv'
<1>1. /\ process[m].pc = "cleared" /\ identity' = m /\ process' = [process EXCEPT ![m].pc = "published"]
      /\ UNCHANGED <<receipt, fence, work, generation, capture, version, client>>
  BY DEF BootPublish, Become, repository
<1>2. /\ faults' \in 0..MaxFaults /\ late' \in BOOLEAN
      /\ ~late' => ~late /\ client.pc # "clean"
  <2>1. Escapes(client.pc = "clean")
    BY DEF BootPublish
  <2> QED BY <2>1, EscapesIs
<1>3. /\ process' \in [Managers -> ProcessType]
      /\ \A n \in Managers : /\ process'[n].pc = IF n = m THEN "published" ELSE process[n].pc
                             /\ process'[n].operation = process[n].operation
  BY <1>1, BecomeIs DEF Alive
<1>4. TypeOK'
  BY <1>1, <1>2, <1>3, Types DEF IInv, TypeOK, ProcessType
<1>5. WorkCounted' /\ ReceiptSound' /\ ClientSound'
  BY <1>1 DEF IInv, WorkCounted, ReceiptSound, FenceBelongs, ClientSound
<1>6. ProcessSound'
  <2>1. capture' # None => process'[capture'].pc # "serving"
    BY <1>1, <1>3, Types DEF IInv, ProcessSound
  <2>2. ServingIsNamed'
    BY <1>1, <1>3 DEF IInv, ProcessSound, ServingIsNamed, HoldsLock
  <2>3. \A n, k \in Managers : process'[n].pc \in HoldsLock /\ process'[k].pc \in HoldsLock => n = k
    BY <1>1, <1>3 DEF IInv, ProcessSound, HoldsLock
  <2> QED BY <1>1, <1>3, <2>1, <2>2, <2>3 DEF IInv, ProcessSound
<1>7. BootSound'
  <2> SUFFICES ASSUME ~late' PROVE OneManager' /\ OneStart'
    BY DEF BootSound
  <2>1. IsAlive(m) /\ \A n \in Managers : IsAlive(n)' <=> IsAlive(n)
    BY <1>1, <1>3 DEF IsAlive, Alive
  <2>2. \A n \in Managers : IsAlive(n) => n = m
    BY <1>2, <2>1 DEF IInv, BootSound, OneManager
  <2>3. Boots(m)
    BY <1>1, <1>2, <2>1 DEF IInv, BootSound, OneManager
  <2>4. OneManager'
    BY <1>1, <1>3, <2>1, <2>2, <2>3 DEF OneManager, Boots
  <2>5. OneStart'
    BY <1>1, <1>2, <1>3, <2>1, <2>2, <2>3 DEF IInv, BootSound, OneStart, Boots
  <2> QED BY <2>4, <2>5
<1> QED BY <1>4, <1>5, <1>6, <1>7 DEF IInv

LEMMA BootServeStep ==
  ASSUME IInv, NEW m \in Managers, BootServe(m)
  PROVE  IInv'
<1>1. /\ process[m].pc = "published" /\ IsAlive(m)
      /\ UNCHANGED <<receipt, fence, work, generation, version, client, faults, late>>
  BY DEF BootServe, BootFrame, repository, IsAlive, Alive
<1>2. CASE Leave(m)
  BY <1>1, <1>2, LeaveStep
<1>3. CASE /\ capture \in {None, m} /\ process' = [process EXCEPT ![m].pc = "serving"]
           /\ capture' = None /\ identity' = identity
  <2>1. /\ process' \in [Managers -> ProcessType]
        /\ \A n \in Managers : /\ process'[n].pc = IF n = m THEN "serving" ELSE process[n].pc
                               /\ process'[n].operation = process[n].operation
    BY <1>3, BecomeIs DEF Alive
  <2>2. TypeOK'
    BY <1>1, <1>3, <2>1, Types DEF IInv, TypeOK, ProcessType
  <2>3. WorkCounted' /\ ReceiptSound' /\ ClientSound'
    BY <1>1 DEF IInv, WorkCounted, ReceiptSound, FenceBelongs, ClientSound
  <2>4. ProcessSound'
    BY <1>1, <1>3, <2>1 DEF IInv, ProcessSound, ServingIsNamed, HoldsLock
  <2>5. BootSound'
    <3> SUFFICES ASSUME ~late PROVE OneManager' /\ OneStart'
      BY <1>1 DEF BootSound
    <3>1. \A n \in Managers : (IsAlive(n)' <=> IsAlive(n)) /\ (IsAlive(n) => n = m)
      BY <1>1, <2>1 DEF IInv, BootSound, OneManager, IsAlive, Alive
    <3>2. identity = m /\ m # None
      BY <1>1, OperationAssumption DEF IInv, ProcessSound, ServingIsNamed
    <3>3. OneManager'
      BY <1>1, <1>3, <2>1, <3>1, <3>2 DEF IInv, BootSound, OneManager, Boots
    <3>4. OneStart'
      BY <1>1, <1>3, <2>1, <3>1, <3>2 DEF IInv, BootSound, OneStart
    <3> QED BY <3>3, <3>4
  <2> QED BY <2>2, <2>3, <2>4, <2>5 DEF IInv
<1> QED BY <1>2, <1>3 DEF BootServe, Become

LEMMA ExitStep ==
  ASSUME IInv, NEW m \in Managers, Exit(m)
  PROVE  IInv'
BY LeaveStep DEF Exit, IsAlive, Alive

\* Behind a fence no work begins.
LEMMA OpenIntake ==
  ASSUME IInv, fence = 0
  PROVE  /\ Pending => receipt.kind = "ensure" \/ receipt.at = Requested(receipt.kind)
         /\ client.pc \in Starting \cup Confirming => client.cmd = "ensure"
         /\ Pending => fence # receipt.id
<1>1. Pending => receipt.id # 0
  BY DEF IInv, ReceiptSound
<1>2. Pending => receipt.kind = "ensure" \/ receipt.at = Requested(receipt.kind)
  BY <1>1 DEF IInv, ReceiptSound
<1>3. ASSUME client.pc \in Starting \cup Confirming, client.cmd # "ensure" PROVE FALSE
  <2>1. /\ receipt.state = "pending" /\ receipt.kind = client.cmd /\ client.cmd \in {"stop", "restart"}
    BY <1>3 DEF IInv, ClientSound, Kinds
  <2>2. receipt.at \in StartCheckpoints \cup {"start-requested", "bootstrap-cleaned"}
    BY <1>3, StartNames DEF IInv, ClientSound
  <2> QED BY <1>2, <2>1, <2>2, StartNames
<1> QED BY <1>1, <1>2, <1>3

LEMMA BeginWorkStep ==
  ASSUME IInv, NEW m \in Managers, BeginWork(m)
  PROVE  IInv'
<1>1. PICK w \in {"run", "session"} \ work :
        /\ work' = work \cup {w} /\ generation' = generation + 1 /\ generation < MaxGeneration /\ fence = 0
        /\ UNCHANGED <<receipt, fence, identity, capture, process, version, client, faults, late>>
  BY DEF BeginWork, IntakeOpen, boot
<1>2. TypeOK'
  BY <1>1, Types, OperationAssumption DEF IInv, TypeOK, Generations
<1>3. WorkCounted'
  BY <1>1, Types, OperationAssumption DEF IInv, WorkCounted, Generations
<1>4. ReceiptSound'
  BY <1>1, OpenIntake DEF IInv, ReceiptSound, FenceBelongs
<1>5. ClientSound'
  BY <1>1, OpenIntake DEF IInv, ClientSound
<1>6. ProcessSound'
  BY <1>1 DEF IInv, ProcessSound, ServingIsNamed
<1>7. BootSound'
  BY <1>1, OpenIntake DEF IInv, BootSound, OneManager, OneStart, Boots, IsAlive
<1> QED BY <1>2, <1>3, <1>4, <1>5, <1>6, <1>7 DEF IInv

LEMMA EndWorkStep ==
  ASSUME IInv, NEW m \in Managers, EndWork(m)
  PROVE  IInv'
<1>1. PICK w \in work :
        /\ work' = work \ {w} /\ generation' = generation + 1
        /\ UNCHANGED <<receipt, fence, identity, capture, process, version, client, faults, late>>
  BY DEF EndWork, boot
<1>2. work \subseteq {"run", "session"} /\ generation \in 0..MaxGeneration + 2 /\ MaxGeneration \in Nat
  BY Types, OperationAssumption DEF IInv, Generations
<1>3. work' # {} => work = {"run", "session"}
  BY <1>1, <1>2
<1>4. TypeOK'
  <2>1. generation' \in Generations
    BY <1>1, <1>2 DEF IInv, WorkCounted, Generations
  <2> QED BY <1>1, <1>2, <2>1, Types DEF IInv, TypeOK
<1>5. WorkCounted'
  <2>1. work' # {} => generation' <= MaxGeneration + 1
    BY <1>1, <1>2, <1>3 DEF IInv, WorkCounted
  <2>2. work' # {"run", "session"}
    BY <1>1, <1>2
  <2> QED BY <1>1, <1>2, <2>1, <2>2 DEF WorkCounted
<1>6. ReceiptSound'
  BY <1>1, <1>2 DEF IInv, ReceiptSound, FenceBelongs
<1>7. ClientSound'
  BY <1>1 DEF IInv, ClientSound
<1>8. ProcessSound'
  BY <1>1 DEF IInv, ProcessSound, ServingIsNamed
<1>9. BootSound'
  BY <1>1 DEF IInv, BootSound, OneManager, OneStart, Boots, IsAlive
<1> QED BY <1>4, <1>5, <1>6, <1>7, <1>8, <1>9 DEF IInv

LEMMA CrashStep ==
  ASSUME IInv, NEW m \in Managers, Crash(m)
  PROVE  IInv'
<1>1. /\ process' = Terminate(m)
      /\ UNCHANGED <<receipt, fence, work, generation, identity, capture, version, client, late>>
  BY DEF Crash, Become, Terminate, repository
<1>2. process' = [n \in Managers |-> IF n \in {m} THEN [process[n] EXCEPT !.pc = "gone"] ELSE process[n]]
  BY <1>1, TerminateKills
<1>3. {m} \in SUBSET Managers
  OBVIOUS
<1>4. /\ process' \in [Managers -> ProcessType]
      /\ \A n \in Managers : process'[n].pc = IF n \in {m} THEN "gone" ELSE process[n].pc
  BY <1>2, <1>3, Killed
<1>5. faults' \in 0..MaxFaults
  BY FaultIs DEF Crash
<1>6. TypeOK'
  BY <1>1, <1>4, <1>5, Types DEF IInv, TypeOK, ProcessType
<1>7. WorkCounted' /\ ReceiptSound' /\ ClientSound'
  BY <1>1 DEF IInv, WorkCounted, ReceiptSound, FenceBelongs, ClientSound
<1>8. ProcessSound'
  BY <1>1, <1>2, <1>3, KilledSound
<1>9. BootSound'
  <2> SUFFICES ASSUME ~late PROVE OneManager' /\ OneStart'
    BY <1>1 DEF BootSound
  <2>1. OneManager'
    <3>1. \A n \in Managers : IsAlive(n)' => IsAlive(n) /\ process'[n].pc = process[n].pc
      BY <1>4 DEF IsAlive, Alive
    <3> QED BY <1>1, <3>1 DEF IInv, BootSound, OneManager, Boots
  <2>2. \A n \in Managers : IsAlive(n)' => IsAlive(n)
    BY <1>4 DEF IsAlive, Alive
  <2>3. client.seen # None => client.seen \in Managers
    BY Types DEF IInv, ClientType
  <2>4. OneStart'
    BY <1>1, <1>4, <2>2, <2>3 DEF IInv, BootSound, OneStart
  <2> QED BY <2>1, <2>4
<1> QED BY <1>6, <1>7, <1>8, <1>9 DEF IInv

LEMMA ExpireStep ==
  ASSUME IInv, Expire
  PROVE  IInv'
<1>1. /\ receipt' = [receipt EXCEPT !.expired = TRUE]
      /\ UNCHANGED <<fence, work, generation, identity, capture, process, version, client, faults, late>>
  BY DEF Expire, repository, boot
<1>2. /\ receipt' \in ReceiptType /\ receipt'.at = receipt.at /\ receipt'.id = receipt.id
      /\ receipt'.kind = receipt.kind /\ receipt'.state = receipt.state
      /\ receipt'.old = receipt.old /\ receipt'.new = receipt.new
      /\ receipt'.kind # "restart" => receipt'.new = None
  BY <1>1, Types DEF IInv, ReceiptType
<1>3. TypeOK'
  BY <1>1, <1>2, Types DEF IInv, TypeOK, ReceiptType
<1>4. WorkCounted' /\ ReceiptSound'
  BY <1>1, <1>2 DEF IInv, WorkCounted, ReceiptSound, FenceBelongs
<1>5. ClientSound'
  BY <1>1, <1>2 DEF IInv, ClientSound
<1>6. ProcessSound'
  BY <1>1, <1>2 DEF IInv, ProcessSound, ServingIsNamed
<1>7. BootSound'
  BY <1>1, <1>2 DEF IInv, BootSound, OneManager, OneStart, Boots, IsAlive
<1> QED BY <1>3, <1>4, <1>5, <1>6, <1>7 DEF IInv

LEMMA UpgradeStep ==
  ASSUME IInv, Upgrade
  PROVE  IInv'
<1>1. /\ version' \in 1..MaxVersion
      /\ UNCHANGED <<receipt, fence, work, generation, identity, capture, process, client, late>>
  BY OperationAssumption DEF Upgrade, repository, boot, IInv, TypeOK
<1>2. faults' \in 0..MaxFaults
  BY FaultIs DEF Upgrade
<1>3. TypeOK'
  BY <1>1, <1>2, Types DEF IInv, TypeOK
<1>4. WorkCounted' /\ ReceiptSound' /\ ClientSound' /\ ProcessSound' /\ BootSound'
  BY <1>1 DEF IInv, WorkCounted, ReceiptSound, FenceBelongs, ClientSound, ProcessSound, ServingIsNamed,
     BootSound, OneManager, OneStart, Boots, IsAlive
<1> QED BY <1>3, <1>4 DEF IInv

LEMMA StutterStep ==
  ASSUME IInv, UNCHANGED vars
  PROVE  IInv'
BY DEF vars, repository, boot, IInv, TypeOK, WorkCounted, ReceiptSound, FenceBelongs, ClientSound, ProcessSound,
   ServingIsNamed, BootSound, OneManager, OneStart, Boots, IsAlive

--------------------------------------------------------------------------------
(* The invariant *)

LEMMA Initially == Init => IInv
<1> SUFFICES ASSUME Init PROVE IInv
  OBVIOUS
<1>1. client.pc = "idle" /\ client.launched = None /\ client \in ClientType
  BY Idle DEF Init, IdleClient
<1>2. /\ receipt \in ReceiptType /\ receipt.state = "none" /\ receipt.kind = "none" /\ receipt.new = None
  BY Zeros DEF Init, NoReceipt, ReceiptType
<1>3. /\ process \in [Managers -> ProcessType] /\ \A m \in Managers : process[m].pc = "unused"
  BY Zeros DEF Init, ProcessType
<1>4. TypeOK
  <2>1. version \in 1..MaxVersion /\ faults \in 0..MaxFaults
    BY OperationAssumption DEF Init
  <2>2. late \in BOOLEAN
    BY DEF Init
  <2> QED BY <1>1, <1>2, <1>3, <2>1, <2>2, Types, Zeros DEF Init
<1>5. WorkCounted /\ ReceiptSound
  BY <1>2 DEF Init, WorkCounted, ReceiptSound, FenceBelongs
<1>6. ClientSound
  BY <1>1, <1>2 DEF Init, ClientSound
<1>7. ProcessSound
  BY <1>1, <1>3 DEF Init, ProcessSound, ServingIsNamed, HoldsLock
<1>8. BootSound
  BY <1>1, <1>2, <1>3 DEF Init, BootSound, OneManager, OneStart, IsAlive, Alive
<1> QED BY <1>4, <1>5, <1>6, <1>7, <1>8 DEF IInv

LEMMA NextStep ==
  ASSUME IInv, [Next]_vars
  PROVE  IInv'
<1>1. ASSUME NEW cmd \in Kinds, NEW confirmed \in BOOLEAN, NEW idle \in BOOLEAN, Begin(cmd, confirmed, idle)
      PROVE  IInv'
  BY <1>1, BeginStep
<1>2. ASSUME Client PROVE IInv'
  <2>1. CASE EnsureReady \/ EnsureResume \/ EnsureCreate \/ StopResolve
    BY <2>1, EnsureReadyStep, EnsureResumeStep, EnsureCreateStep, StopResolveStep
  <2>2. CASE RequestResume \/ RequestRefused \/ RequestPending \/ RequestNew \/ InstallFence \/ CloseIntake
    BY <2>2, RequestResumeStep, RequestRefusedStep, RequestPendingStep, RequestNewStep, InstallFenceStep,
       CloseIntakeStep
  <2>3. CASE StopBegin \/ StopNothing \/ StopBind \/ StopForeign \/ StopGraceful \/ StopForced
    BY <2>3, StopBeginStep, StopNothingStep, StopBindStep, StopForeignStep, StopGracefulStep, StopForcedStep
  <2>4. CASE StopExited \/ Reconcile \/ StopOwnersEmpty \/ StopCleanBoot \/ StopSessions
    BY <2>4, StopExitedStep, ReconcileStep, StopOwnersEmptyStep, StopCleanBootStep, StopSessionsStep
  <2>5. CASE RecoverResume \/ RecoverWait \/ RecoverRefused \/ RecoverStop \/ RecoverClean
    BY <2>5, RecoverResumeStep, RecoverWaitStep, RecoverRefusedStep, RecoverStopStep, RecoverCleanStep
  <2>6. CASE RecoverFail \/ RecoverReplace \/ RunReady \/ RunWait \/ RunVerify
    BY <2>6, RecoverFailStep, RecoverReplaceStep, RunReadyStep, RunWaitStep, RunVerifyStep
  <2>7. CASE RunLaunch \/ RunLaunchFails \/ RunLaunched \/ WatchIdentity \/ WatchReady \/ WatchFail
    BY <2>7, RunLaunchStep, RunLaunchFailsStep, RunLaunchedStep, WatchIdentityStep, WatchReadyStep, WatchFailStep
  <2>8. CASE FailClean \/ FailReceipt \/ WaitReady \/ WaitGivesUp \/ Complete \/ Finish \/ Unfence
    BY <2>8, FailCleanStep, FailReceiptStep, WaitReadyStep, WaitGivesUpStep, CompleteStep, FinishStep, UnfenceStep
  <2> QED BY <1>2, <2>1, <2>2, <2>3, <2>4, <2>5, <2>6, <2>7, <2>8 DEF Client
<1>3. ASSUME WatchExpires \/ GiveUp \/ Kill \/ Expire \/ Upgrade PROVE IInv'
  BY <1>3, WatchExpiresStep, GiveUpStep, KillStep, ExpireStep, UpgradeStep
<1>4. ASSUME NEW m \in Managers, Boot(m) PROVE IInv'
  BY <1>4, BootAdmitStep, BootCaptureStep, BootLockStep, BootClearStep, BootPublishStep, BootServeStep, ExitStep
     DEF Boot
<1>5. ASSUME NEW m \in Managers, BeginWork(m) \/ EndWork(m) \/ Crash(m) PROVE IInv'
  BY <1>5, BeginWorkStep, EndWorkStep, CrashStep
<1> QED BY <1>1, <1>2, <1>3, <1>4, <1>5, StutterStep DEF Next

\* What receipt, fence, checkpoints and manager.json say of the managers and their work is
\* true, whatever commands follow one another and wherever they are killed.
THEOREM InvariantHolds == Spec => []IInv
<1>1. IInv /\ [Next]_vars => IInv'
  BY NextStep
<1> QED BY Initially, <1>1, PTL DEF Spec

\* _destructive_operation and clear_terminal_intake_fence: the fence on disk names the
\* receipt on disk.
THEOREM FencesAreOwned == Spec => []FenceHasReceipt
<1>1. IInv => FenceHasReceipt
  BY DEF IInv, ReceiptSound, FenceHasReceipt
<1> QED BY <1>1, InvariantHolds, PTL

\* _stop_phase: what a checkpoint has noted of the work stays true until the receipt ends.
THEOREM CheckpointsAreTrue == Spec => []CheckpointsHold
<1>1. IInv => CheckpointsHold
  BY DEF IInv, ReceiptSound, CheckpointsHold
<1> QED BY <1>1, InvariantHolds, PTL

\* remove_manager_identity: manager.json names every manager that serves.
THEOREM ServingAreNamed == Spec => []ServingIsNamed
<1>1. IInv => ServingIsNamed
  BY DEF IInv, ProcessSound
<1> QED BY <1>1, InvariantHolds, PTL

--------------------------------------------------------------------------------
(* What a step may not do *)

\* Only Finish ends a pending receipt as succeeded.
LEMMA OnlyFinishSucceeds ==
  ASSUME IInv, [Next]_vars, Pending, receipt'.state = "succeeded"
  PROVE  Finish
<1>1. receipt' # receipt
  OBVIOUS
<1>2. ~\E at \in Checkpoints : receipt' = [receipt EXCEPT !.at = at]
  BY Noted
<1>3. receipt' # Renewed /\ receipt' # Fail
  BY RenewedIs, FailedIs
<1>4. ~\E kind, gen, old : receipt' = NewReceipt(kind, gen, old)
  BY DEF NewReceipt
<1>5. /\ ~\E m : receipt' = [receipt EXCEPT !.old = m] \/ receipt' = [receipt EXCEPT !.new = m]
      /\ receipt' # [receipt EXCEPT !.expired = TRUE]
  BY Types DEF IInv, ReceiptType
<1>6. ~\E at, m : receipt' = Identified(at, m)
  BY Types DEF IInv, ReceiptType, Identified
<1>7. ~UNCHANGED vars
  BY <1>1 DEF vars
<1>8. ASSUME NEW cmd \in Kinds, NEW confirmed \in BOOLEAN, NEW idle \in BOOLEAN, Begin(cmd, confirmed, idle)
      PROVE  FALSE
  BY <1>1, <1>8 DEF Begin
<1>9. ASSUME WatchExpires \/ GiveUp \/ Kill \/ Expire \/ Upgrade PROVE FALSE
  BY <1>1, <1>5, <1>9 DEF WatchExpires, GiveUp, Kill, Expire, Upgrade, LocalFault
<1>10. ASSUME NEW m \in Managers, Boot(m) \/ BeginWork(m) \/ EndWork(m) \/ Crash(m) PROVE FALSE
  BY <1>1, <1>10 DEF Boot, BootAdmit, BootCapture, BootLock, BootClear, BootPublish, BootServe, Exit, BootFrame,
     BeginWork, EndWork, Crash
<1>11. ASSUME EnsureReady \/ EnsureResume \/ EnsureCreate \/ StopResolve \/ RequestResume \/ RequestRefused
              \/ RequestPending \/ RequestNew \/ InstallFence
       PROVE  FALSE
  BY <1>1, <1>3, <1>4, <1>11 DEF EnsureReady, EnsureResume, EnsureCreate, StopResolve, RequestResume,
     RequestRefused, RequestPending, RequestNew, InstallFence, Local, Write
<1>12. ASSUME CloseIntake \/ StopBegin \/ StopNothing \/ StopBind \/ StopForeign \/ StopGraceful \/ StopForced
              \/ StopExited \/ Reconcile \/ StopOwnersEmpty \/ StopCleanBoot \/ StopSessions
       PROVE  FALSE
  BY <1>1, <1>2, <1>5, <1>12, Names DEF CloseIntake, StopBegin, StopNothing, StopBind, StopForeign, StopGraceful,
     StopForced, StopExited, Reconcile, StopOwnersEmpty, StopCleanBoot, StopSessions, Local, Write, Advance
<1>13. ASSUME RecoverResume \/ RecoverWait \/ RecoverRefused \/ RecoverClean \/ RecoverFail
       PROVE  FALSE
  BY <1>1, <1>3, <1>13 DEF RecoverResume, RecoverWait, RecoverRefused, RecoverClean, RecoverFail, Local, Write
<1>14. ASSUME RecoverStop PROVE FALSE
  BY <1>1, <1>5, <1>14 DEF RecoverStop
<1>15. ASSUME RecoverReplace PROVE FALSE
  <2>1. CASE receipt' = receipt
    BY <1>1, <2>1
  <2>2. CASE \E kind, gen, old : receipt' = NewReceipt(kind, gen, old)
    BY <1>4, <2>2
  <2> QED BY <1>15, <2>1, <2>2 DEF RecoverReplace, Local
<1>16. ASSUME RunReady \/ RunWait \/ RunLaunch \/ RunLaunchFails \/ WatchReady \/ WatchFail \/ FailClean
              \/ WaitReady \/ WaitGivesUp \/ Unfence
       PROVE  FALSE
  BY <1>1, <1>16 DEF RunReady, RunWait, RunLaunch, RunLaunchFails, WatchReady, WatchFail, FailClean, WaitReady,
     WaitGivesUp, Unfence, Local
<1>17. ASSUME RunVerify \/ RunLaunched PROVE FALSE
  BY <1>1, <1>2, <1>17, Names, StartNames DEF RunVerify, RunLaunched, Local, Write, Advance
<1>18. ASSUME WatchIdentity \/ FailReceipt \/ Complete PROVE FALSE
  BY <1>1, <1>3, <1>6, <1>18 DEF WatchIdentity, FailReceipt, Complete, Local, Write
<1> QED BY <1>7, <1>8, <1>9, <1>10, <1>11, <1>12, <1>13, <1>16, <1>17, <1>18, <1>14, <1>15 DEF Next, Client

\* ManagerConverger.stop: when a stop is noted as succeeded no manager is alive, manager.json
\* is gone and so is all work, unless a boot has escaped the cleanup of its receipt.
THEOREM StopsAreComplete == Spec => StoppedIsStopped
<1>1. ASSUME IInv, [Next]_vars, Pending, ~late, receipt.kind = "stop", receipt'.state = "succeeded"
      PROVE  work = {} /\ identity = None /\ \A m \in Managers : ~IsAlive(m)
  <2>1. client.pc = "succeed"
    BY <1>1, OnlyFinishSucceeds DEF Finish
  <2>2. client.cmd = "stop" /\ receipt.at = "bootstrap-cleaned"
    BY <1>1, <2>1 DEF IInv, ClientSound
  <2>3. work = {} /\ identity = None
    BY <1>1, <2>1, <2>2 DEF IInv, BootSound, OneManager, OneStart
  <2> QED BY <1>1, <2>2, <2>3, BootsAreOver, OperationAssumption
<1> QED BY <1>1, InvariantHolds, PTL DEF Spec, StoppedIsStopped

\* ManagerConverger.restart: when a restart is noted as succeeded, the manager it has launched
\* is the one manager.json names, the only one alive, and without work of its predecessor.
THEOREM RestartsReplace == Spec => RestartReplaces
<1>1. ASSUME IInv, [Next]_vars, Pending, ~late, receipt.kind = "restart", receipt'.state = "succeeded"
      PROVE  work = {} /\ identity = receipt.new /\ \A m \in Managers \ {identity} : ~IsAlive(m)
  <2>1. client.pc = "succeed"
    BY <1>1, OnlyFinishSucceeds DEF Finish
  <2>2. /\ client.cmd = "restart" /\ receipt.at = "endpoint-ready" /\ work = {} /\ receipt.new = client.seen
    BY <1>1, <2>1 DEF IInv, ClientSound
  <2>3. identity = client.seen
    BY <1>1, <2>1, <2>2 DEF IInv, BootSound, OneStart
  <2> QED BY <1>1, <2>2, <2>3, BootsAreOver
<1> QED BY <1>1, InvariantHolds, PTL DEF Spec, RestartReplaces

\* stop, and the cleanup of a start: a manager with live work is ended behind a fence only, or
\* by the client that gives up the very start which launched it.
THEOREM WorkKept == Spec => WorkIsSpared
<1>1. ASSUME IInv, [Next]_vars, NEW m \in Managers, process[m].pc = "serving", process'[m].pc # "serving",
             faults' = faults
      PROVE  Pending /\ (fence = receipt.id \/ process[m].operation = receipt.id)
  <2>1. process' # process
    BY <1>1
  <2>2. /\ identity = m /\ capture # m /\ m # None
        /\ client.pc = "stop" => Pending /\ fence = receipt.id
        /\ client.pc \in {"recover", "failclean"} => Pending
    BY <1>1, OperationAssumption DEF IInv, ProcessSound, ServingIsNamed, ClientSound, ReceiptSound
  <2>3. process \in [Managers -> ProcessType]
    BY <1>1, Types DEF IInv
  <2>4. \A n \in Managers : process' = Terminate(n) => n = m
    BY <1>1, <2>3 DEF Terminate, ProcessType
  <2>5. ASSUME Client PROVE Pending /\ (fence = receipt.id \/ process[m].operation = receipt.id)
    <3>1. CASE StopGraceful \/ StopForced \/ StopCleanBoot
      BY <2>2, <3>1 DEF StopGraceful, StopForced, StopCleanBoot
    <3>2. CASE RecoverStop
      BY <2>1, <2>2, <3>2 DEF RecoverStop, IsOurs
    <3>3. CASE RecoverClean
      <4>1. process' = process \/ (capture \in Managers /\ process' = Terminate(capture))
        BY <1>1, <3>3, Types DEF RecoverClean, Cleaned, IInv
      <4> QED BY <2>1, <2>2, <2>4, <4>1
    <3>4. CASE RunLaunch
      <4>1. PICK n \in Managers :
              /\ process[n].pc \in {"unused", "gone"}
              /\ process' = [process EXCEPT ![n] =
                   [pc |-> "spawned", operation |-> receipt.id, version |-> receipt.version]]
        BY <3>4 DEF RunLaunch, IsFresh
      <4> QED BY <1>1, <2>3, <4>1
    <3>5. CASE FailClean
      <4>1. m = client.launched
        BY <1>1, <2>2, <3>5 DEF FailClean
      <4> QED BY <1>1, <2>2, <3>5, <4>1 DEF FailClean, IInv, ProcessSound
    <3>6. UNCHANGED process \/ StopGraceful \/ StopForced \/ StopCleanBoot \/ RecoverStop \/ RecoverClean
            \/ RunLaunch \/ FailClean
      <4>1. CASE EnsureReady \/ EnsureResume \/ EnsureCreate \/ StopResolve \/ RequestResume \/ RequestRefused
                   \/ RequestPending \/ RequestNew \/ InstallFence \/ CloseIntake
        BY <4>1 DEF EnsureReady, EnsureResume, EnsureCreate, StopResolve, RequestResume, RequestRefused,
           RequestPending, RequestNew, InstallFence, CloseIntake, Local, Write, boot
      <4>2. CASE StopBegin \/ StopNothing \/ StopBind \/ StopForeign \/ StopExited \/ Reconcile
                   \/ StopOwnersEmpty \/ StopSessions
        BY <4>2 DEF StopBegin, StopNothing, StopBind, StopForeign, StopExited, Reconcile, StopOwnersEmpty,
           StopSessions, Local, Write, boot
      <4>3. CASE RecoverResume \/ RecoverWait \/ RecoverRefused \/ RecoverFail \/ RecoverReplace \/ RunReady
                   \/ RunWait \/ RunVerify \/ RunLaunchFails \/ RunLaunched
        BY <4>3 DEF RecoverResume, RecoverWait, RecoverRefused, RecoverFail, RecoverReplace, RunReady, RunWait,
           RunVerify, RunLaunchFails, RunLaunched, Local, Write, boot
      <4>4. CASE WatchIdentity \/ WatchReady \/ WatchFail \/ FailReceipt \/ WaitReady \/ WaitGivesUp \/ Complete
                   \/ Finish \/ Unfence
        BY <4>4 DEF WatchIdentity, WatchReady, WatchFail, FailReceipt, WaitReady, WaitGivesUp, Complete, Finish,
           Unfence, Local, Write, boot
      <4> QED BY <2>5, <4>1, <4>2, <4>3, <4>4 DEF Client
    <3> QED BY <2>1, <3>1, <3>2, <3>3, <3>4, <3>5, <3>6
  <2>6. ASSUME NEW n \in Managers, Boot(n) PROVE FALSE
    <3>1. process[n].pc # "serving"
      BY <2>6 DEF Boot, BootAdmit, BootCapture, BootLock, BootClear, BootPublish, BootServe, Exit
    <3>2. \E pc : process' = [process EXCEPT ![n].pc = pc]
      BY <2>6 DEF Boot, BootAdmit, BootCapture, BootLock, BootClear, BootPublish, BootServe, Exit, Become, Leave
    <3> QED BY <1>1, <2>3, <3>1, <3>2
  <2>7. ASSUME NEW n \in Managers, Crash(n) PROVE FALSE
    BY <1>1, <2>7, FaultIs DEF Crash
  <2>8. ASSUME NEW cmd \in Kinds, NEW confirmed \in BOOLEAN, NEW idle \in BOOLEAN, Begin(cmd, confirmed, idle)
        PROVE  FALSE
    BY <2>1, <2>8 DEF Begin, boot
  <2>9. ASSUME \/ WatchExpires \/ GiveUp \/ Kill \/ Expire \/ Upgrade \/ UNCHANGED vars
               \/ \E n \in Managers : BeginWork(n) \/ EndWork(n)
        PROVE  FALSE
    BY <2>1, <2>9 DEF WatchExpires, GiveUp, Kill, Expire, Upgrade, LocalFault, BeginWork, EndWork, vars, boot
  <2> QED BY <1>1, <2>5, <2>6, <2>7, <2>8, <2>9 DEF Next
<1> DEFINE Step == \A m \in Managers :
        process[m].pc = "serving" /\ process'[m].pc # "serving" /\ faults' = faults /\ work # {}
        => Pending /\ (fence = receipt.id \/ process[m].operation = receipt.id)
<1>2. IInv /\ [Next]_vars => Step
  BY <1>1
<1> HIDE DEF Step
<1>3. Spec => [][Step]_vars
  BY <1>2, InvariantHolds, PTL DEF Spec
<1> QED BY <1>3 DEF WorkIsSpared, Step
--------------------------------------------------------------------------------
(* The intake fence *)

LEMMA FenceOfClient ==
  ASSUME IInv, Client
  PROVE  \/ UNCHANGED fence /\ work' \subseteq work
         \/ fence = 0 /\ fence' \in Ids \ {0} /\ UNCHANGED work
         \/ work = {} /\ fence' = 0 /\ UNCHANGED work
<1>1. CASE InstallFence
  <2>1. client.pc = "fence"
    BY <1>1 DEF InstallFence, At
  <2>2. Pending
    BY <2>1 DEF IInv, ClientSound, Planning, Ended
  <2>3. receipt.id \in Ids /\ receipt.id > 0
    BY <2>2, Types DEF IInv, ReceiptSound, ReceiptType
  <2> QED BY <1>1, <2>3 DEF InstallFence, Fenced, Write, repository
<1>2. CASE RecoverReplace
  <2>1. ~Pending
    BY <1>2 DEF RecoverReplace, At, IInv, ClientSound, Ended
  <2> QED BY <1>2, <2>1 DEF RecoverReplace, Clearable, ReleaseFence, Local, repository
<1>3. CASE Unfence
  <2>1. ~Pending
    BY <1>3 DEF Unfence, At, IInv, ClientSound, Ended
  <2> QED BY <1>3, <2>1 DEF Unfence, Clearable
<1>4. CASE Reconcile \/ StopSessions
  BY <1>4 DEF Reconcile, StopSessions
<1>5. CASE EnsureReady \/ EnsureResume \/ EnsureCreate \/ StopResolve \/ RequestResume \/ RequestRefused
             \/ RequestPending \/ RequestNew \/ CloseIntake
  BY <1>5 DEF EnsureReady, EnsureResume, EnsureCreate, StopResolve, RequestResume, RequestRefused, RequestPending,
     RequestNew, CloseIntake, Local, Write, repository
<1>6. CASE StopBegin \/ StopNothing \/ StopBind \/ StopForeign \/ StopGraceful \/ StopForced \/ StopExited
             \/ StopOwnersEmpty \/ StopCleanBoot
  BY <1>6 DEF StopBegin, StopNothing, StopBind, StopForeign, StopGraceful, StopForced, StopExited,
     StopOwnersEmpty, StopCleanBoot, Local, Write, repository
<1>7. CASE RecoverResume \/ RecoverWait \/ RecoverRefused \/ RecoverStop \/ RecoverClean \/ RecoverFail
  BY <1>7 DEF RecoverResume, RecoverWait, RecoverRefused, RecoverStop, RecoverClean, RecoverFail, Local, Write,
     repository
<1>8. CASE RunReady \/ RunWait \/ RunVerify \/ RunLaunch \/ RunLaunchFails \/ RunLaunched \/ WatchIdentity
             \/ WatchReady \/ WatchFail \/ FailClean \/ FailReceipt \/ WaitReady \/ WaitGivesUp \/ Complete \/ Finish
  BY <1>8 DEF RunReady, RunWait, RunVerify, RunLaunch, RunLaunchFails, RunLaunched, WatchIdentity, WatchReady,
     WatchFail, FailClean, FailReceipt, WaitReady, WaitGivesUp, Complete, Finish, Local, Write, repository
<1> QED BY <1>1, <1>2, <1>3, <1>4, <1>5, <1>6, <1>7, <1>8 DEF Client

LEMMA StepKeepsIntake ==
  ASSUME IInv, [Next]_vars
  PROVE  [Intake!Next]_(Intake!fenceVars)
<1>1. CASE UNCHANGED <<fence, work>>
  BY <1>1 DEF Intake!fenceVars
<1>2. CASE UNCHANGED fence /\ work' \subseteq work
  BY <1>2 DEF Intake!Next, Intake!Drain
<1>3. CASE fence = 0 /\ fence' \in Ids \ {0} /\ UNCHANGED work
  BY <1>3 DEF Intake!Next, Intake!Install
<1>4. CASE work = {} /\ fence' = 0 /\ UNCHANGED work
  BY <1>4 DEF Intake!Next, Intake!Lift
<1>5. ASSUME NEW cmd \in Kinds, NEW confirmed \in BOOLEAN, NEW idle \in BOOLEAN, Begin(cmd, confirmed, idle)
      PROVE  [Intake!Next]_(Intake!fenceVars)
  <2>1. UNCHANGED work /\ (UNCHANGED fence \/ (fence' = 0 /\ ~Pending))
    BY <1>5 DEF Begin, ClearFence
  <2>2. fence = 0 \/ Pending \/ work = {}
    BY <1>5 DEF Begin, Clearable
  <2> QED BY <1>1, <1>4, <2>1, <2>2
<1>6. ASSUME NEW m \in Managers, BeginWork(m) PROVE Intake!Next
  BY <1>6 DEF BeginWork, IntakeOpen, Intake!Next, Intake!Admit
<1>7. ASSUME NEW m \in Managers, EndWork(m) \/ Exit(m) PROVE UNCHANGED fence /\ work' \subseteq work
  BY <1>7 DEF EndWork, Exit
<1>8. ASSUME NEW m \in Managers, Crash(m) \/ (Boot(m) /\ ~Exit(m)) PROVE UNCHANGED <<fence, work>>
  BY <1>8 DEF Crash, Boot, BootAdmit, BootCapture, BootLock, BootClear, BootPublish, BootServe, BootFrame, repository
<1>9. ASSUME WatchExpires \/ GiveUp \/ Kill \/ Expire \/ Upgrade PROVE UNCHANGED <<fence, work>>
  BY <1>9 DEF WatchExpires, GiveUp, Kill, Expire, Upgrade, LocalFault, repository
<1>10. CASE Client
  BY <1>2, <1>3, <1>4, <1>10, FenceOfClient
<1>11. CASE UNCHANGED vars
  BY <1>1, <1>11 DEF vars, repository
<1> QED BY <1>1, <1>2, <1>5, <1>6, <1>7, <1>8, <1>9, <1>10, <1>11 DEF Next, Boot

\* manager_lifecycle.py: stop and restart do to the fence and the work only what
\* IntakeFence allows, which is all that RunRepository does to them (IntakeIsKept).
THEOREM OperationsKeepIntake == Spec => KeepsIntake
<1>1. Init => Intake!Init
  BY DEF Init, Intake!Init
<1>2. IInv /\ [Next]_vars => [Intake!Next]_(Intake!fenceVars)
  BY StepKeepsIntake
<1> QED BY InvariantHolds, <1>1, <1>2, PTL DEF Spec, KeepsIntake, Intake!Spec

--------------------------------------------------------------------------------
(* One manager *)

\* A start that escapes nobody (manager_server.py: three reads of the receipt and the manager
\* lock): no two manager processes are up at a time, whichever commands and losses meet.
THEOREM ManagersComeAlone ==
  Spec => [](~late => \A m, n \in Managers : IsAlive(m) /\ IsAlive(n) => m = n)
<1>1. IInv => (~late => \A m, n \in Managers : IsAlive(m) /\ IsAlive(n) => m = n)
  BY DEF IInv, BootSound, OneManager
<1> QED BY <1>1, InvariantHolds, PTL

\* Escaped or not, one manager at most has the lock and serves.
THEOREM OneManagerServes ==
  Spec => [](\A m, n \in Managers : process[m].pc \in HoldsLock /\ process[n].pc \in HoldsLock => m = n)
<1>1. IInv => \A m, n \in Managers : process[m].pc \in HoldsLock /\ process[n].pc \in HoldsLock => m = n
  BY DEF IInv, ProcessSound
<1> QED BY <1>1, InvariantHolds, PTL
===============================================================================
