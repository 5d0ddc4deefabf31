-------------------------- MODULE RunRepositoryProofs --------------------------
(* Proofs about RunRepository, for any number of runs, services, sessions,   *)
(* managers and any limits.  Next is first reduced to the twelve primitive   *)
(* operations; every invariant is then proved operation by operation.        *)
EXTENDS RunRepository, TLAPS, FiniteSetTheorems

\* What an operation may be, with the ranges of its arguments.
Operation ==
  \/ \E k \in Keys, i \in Sessions \cup {None}, m \in Instances : Reserve(k, i, m)
  \/ \E k \in Keys, status \in ActiveStates, evidence \in Evidence,
        claim \in Claim \cup {NoClaim} :
       UpdateActive(k, status, evidence, claim, {})
  \/ \E k \in Keys : ExpireClaim(k)
  \/ \E k \in Keys, id \in ClaimIds : CommitTerminal(k, id)
  \/ \E k \in Keys, keepRun \in BOOLEAN : SaveIntent(k, keepRun)
  \/ \E k \in Keys : CommitPrune(k)
  \/ \E k \in Keys : FinishPrune(k)
  \/ \E i \in Sessions, m \in Instances : OpenSession(i, m)
  \/ \E i \in Sessions, from \in SUBSET SessionActiveStates,
        to \in SessionActiveStates \ {"open"} : SetClosing(i, from, to)
  \/ \E ids \in SUBSET {i \in ActiveSessionIds : SessionEmpty(i)} :
       ids # {} /\ Compact(ids)
  \/ \E op \in Operations, g \in Nat, idle \in BOOLEAN : InstallFence(op, g, idle)
  \/ \E op \in Operations : ClearTerminalFence(op)

--------------------------------------------------------------------------------
\* Fields of a record before and after the changes the operations make.
LEMMA RecordFields ==
  ASSUME NEW r \in Record \cup {NoRecord}, r # NoRecord
  PROVE  /\ r \in Record
         /\ r.status \in ActiveStates \cup {"terminal"}
         /\ r.claim \in Claim \cup {NoClaim}
         /\ r.owner \in Sessions \cup {None}
         /\ r.evidence \in Evidence
BY DEF Record

LEMMA RecordUpdate ==
  ASSUME NEW r \in Record, NEW status \in ActiveStates \cup {"terminal"},
         NEW evidence \in Evidence, NEW claim \in Claim \cup {NoClaim}
  PROVE  LET new == [r EXCEPT !.status = status, !.evidence = evidence, !.claim = claim]
         IN  /\ new \in Record
             /\ new.status = status /\ new.claim = claim /\ new.owner = r.owner
BY DEF Record

\* NoRecord and NoSession are neither active nor terminal nor typed records.
LEMMA Absent ==
  /\ ~IsActive(NoRecord) /\ NoRecord.status = "absent" /\ NoRecord \notin Record
  /\ NoSession.state = "absent" /\ NoSession.runKeys = {} /\ NoSession \notin Session
  /\ NoClaim \notin Claim /\ NoClaim.id = None
BY NoneAssumption DEF IsActive, NoRecord, Record, NoSession, Session, ActiveStates,
   SessionActiveStates, NoClaim, Claim

\* Next is made of the primitive operations.
LEMMA NextIsOperation == TypeOK /\ Next => Operation
<1> SUFFICES ASSUME TypeOK, Next PROVE Operation
  OBVIOUS
<1>1. CASE RunStep
  <2> PICK k \in Keys :
        \/ \E i \in Sessions \cup {None}, m \in Instances : Reserve(k, i, m)
        \/ \E status \in ActiveStates, evidence \in Evidence :
             /\ processes[k] # NoRecord
             /\ UpdateActive(k, status, evidence, processes[k].claim, {})
        \/ \E id \in ClaimIds, m \in Instances, inspected \in BOOLEAN :
             ClaimFinalization(k, id, m, inspected, {})
        \/ ExpireClaim(k)
        \/ \E id \in ClaimIds, completed \in BOOLEAN : CommitFinalization(k, id, completed)
        \/ \E keepRun \in BOOLEAN : SaveIntent(k, keepRun)
        \/ CommitPrune(k)
        \/ FinishPrune(k)
    BY <1>1 DEF RunStep
  <2>a. processes[k] \in Record \cup {NoRecord}
    BY DEF TypeOK
  <2>1. CASE \E i \in Sessions \cup {None}, m \in Instances : Reserve(k, i, m)
    BY <2>1 DEF Operation
  <2>2. CASE \E status \in ActiveStates, evidence \in Evidence :
               /\ processes[k] # NoRecord
               /\ UpdateActive(k, status, evidence, processes[k].claim, {})
    BY <2>2, <2>a, RecordFields DEF Operation
  <2>3. CASE \E id \in ClaimIds, m \in Instances, inspected \in BOOLEAN :
               ClaimFinalization(k, id, m, inspected, {})
    <3> PICK id \in ClaimIds, m \in Instances, inspected \in BOOLEAN :
          ClaimFinalization(k, id, m, inspected, {})
      BY <2>3
    <3>1. UpdateActive(k, "terminating", processes[k].evidence,
                       [id |-> id, by |-> m, expired |-> FALSE], {})
      BY DEF ClaimFinalization
    <3>2. [id |-> id, by |-> m, expired |-> FALSE] \in Claim \cup {NoClaim}
      BY DEF Claim
    <3>3. processes[k].evidence \in Evidence
      BY <2>a, <3>1, RecordFields DEF UpdateActive
    <3>4. "terminating" \in ActiveStates
      BY DEF ActiveStates
    <3> QED BY <3>1, <3>2, <3>3, <3>4 DEF Operation
  <2>4. CASE ExpireClaim(k)
    BY <2>4 DEF Operation
  <2>5. CASE \E id \in ClaimIds, completed \in BOOLEAN : CommitFinalization(k, id, completed)
    <3> PICK id \in ClaimIds, completed \in BOOLEAN : CommitFinalization(k, id, completed)
      BY <2>5
    <3>1. CASE completed
      BY <3>1 DEF CommitFinalization, Operation
    <3>2. CASE ~completed
      <4>1. processes[k] # NoRecord
            /\ UpdateActive(k, "terminating", processes[k].evidence, NoClaim, {})
        BY <3>2 DEF CommitFinalization, CommitPending
      <4>2. processes[k].evidence \in Evidence /\ "terminating" \in ActiveStates
        BY <2>a, <4>1, RecordFields DEF ActiveStates
      <4> QED BY <4>1, <4>2 DEF Operation
    <3> QED BY <3>1, <3>2
  <2>6. CASE \E keepRun \in BOOLEAN : SaveIntent(k, keepRun)
    BY <2>6 DEF Operation
  <2>7. CASE CommitPrune(k) \/ FinishPrune(k)
    BY <2>7 DEF Operation
  <2> QED BY <2>1, <2>2, <2>3, <2>4, <2>5, <2>6, <2>7
<1>2. CASE SessionStep
  <2>a. "terminating" \in SessionActiveStates \ {"open"}
        /\ "expired" \in SessionActiveStates \ {"open"}
        /\ "cleanup_failed" \in SessionActiveStates \ {"open"}
        /\ {"open", "cleanup_failed"} \in SUBSET SessionActiveStates
        /\ {"open"} \in SUBSET SessionActiveStates
    BY DEF SessionActiveStates
  <2>1. CASE CloseOrphanedSessions
    BY <2>1 DEF CloseOrphanedSessions, Operation
  <2>2. ASSUME NEW i \in Sessions, FinishSession(i) PROVE Operation
    <3>1. CASE SessionEmpty(i) /\ Compact({i})
      <4>1. {i} \in SUBSET {j \in ActiveSessionIds : SessionEmpty(j)}
        BY <2>2, <3>1 DEF FinishSession, ActiveSessionIds
      <4> QED BY <3>1, <4>1 DEF Operation
    <3>2. CASE SetClosing(i, SessionActiveStates, "cleanup_failed")
      BY <3>2, <2>a DEF Operation
    <3> QED BY <2>2, <3>1, <3>2 DEF FinishSession
  <2>3. ASSUME NEW i \in Sessions, CloseRequest(i) \/ ExpireSession(i) PROVE Operation
    BY <2>3, <2>a DEF CloseRequest, ExpireSession, Operation
  <2>4. ASSUME NEW i \in Sessions, NEW m \in Instances, OpenSession(i, m) PROVE Operation
    BY <2>4 DEF Operation
  <2> QED BY <1>2, <2>1, <2>2, <2>3, <2>4 DEF SessionStep
<1>3. CASE FenceStep
  <2>1. workGeneration \in Nat
    BY DEF TypeOK
  <2>2. 0..workGeneration \subseteq Nat
    BY <2>1
  <2> QED BY <1>3, <2>2 DEF FenceStep, Operation
<1> QED BY <1>1, <1>2, <1>3 DEF Next

--------------------------------------------------------------------------------
(* Type correctness, together with the bookkeeping of used identifiers.      *)

\* Whatever exists, or left a tombstone, has an identifier that was issued: a
\* fresh one meets no record, no session, no tombstone and no journal.
IdentitiesIssued ==
  /\ \A k \in Keys : processes[k] # NoRecord => k \in issued
  /\ \A i \in Sessions : sessions[i] # NoSession => i \in issued
  /\ tombstones \subseteq issued

TInv == TypeOK /\ IdentitiesIssued

LEMMA AddedTombstones ==
  ASSUME TypeOK, NEW ids \in SUBSET (Keys \cup Sessions), AddTombstones(ids)
  PROVE  /\ tombstones' \subseteq tombstones \cup ids
         /\ tombstones' \in SUBSET (Keys \cup Sessions)
         /\ retained \subseteq tombstones'
         /\ \A k \in Keys : journals[k] # NoJournal /\ k \in tombstones => k \in tombstones'
         /\ \A x \in ids : ids = {x} => x \in tombstones'
BY DEF AddTombstones, Forgettable, TypeOK

LEMMA CompactCardinality ==
  ASSUME NEW ids \in SUBSET Sessions
  PROVE  Cardinality(ids) \in Nat /\ (ids # {} => Cardinality(ids) > 0)
<1>1. IsFiniteSet(ids)
  BY FiniteAssumption, FS_Subset
<1>2. Cardinality(ids) \in Nat
  BY <1>1, FS_CardinalityType
<1>3. ids # {} => Cardinality(ids) # 0
  BY <1>1, FS_EmptySet
<1> QED BY <1>2, <1>3

LEMMA TInvInit == Init => TInv
BY DEF Init, TInv, TypeOK, IdentitiesIssued, NoFence

LEMMA TInvReserve ==
  ASSUME TInv, NEW k \in Keys, NEW i \in Sessions \cup {None}, NEW m \in Instances,
         Reserve(k, i, m)
  PROVE  TInv'
<1>1. NewRecord(i, m) \in Record
  BY DEF NewRecord, Record, ActiveStates, Evidence
<1>2. sessions' \in [Sessions -> Session \cup {NoSession}]
  <2>1. CASE i = None
    BY <2>1 DEF Reserve, TInv, TypeOK
  <2>2. CASE i # None
    <3>1. i \in Sessions /\ sessions[i] \in Session
      BY <2>2, Absent DEF Reserve, SessionAccepts, TInv, TypeOK
    <3>2. [sessions[i] EXCEPT !.runKeys = @ \cup {k}] \in Session
      BY <3>1 DEF Session
    <3> QED BY <2>2, <3>1, <3>2 DEF Reserve, TInv, TypeOK
  <2> QED BY <2>1, <2>2
<1>3. \A j \in Sessions : sessions'[j] # NoSession => sessions[j] # NoSession
  BY Absent DEF Reserve, SessionAccepts, TInv, TypeOK
<1>4. /\ processes' = [processes EXCEPT ![k] = NewRecord(i, m)]
      /\ active' = [active EXCEPT ![ServiceOf[k]] = k]
      /\ workGeneration' = workGeneration + 1
      /\ issued' = issued \cup {k}
      /\ UNCHANGED <<journals, tombstones, retained, intakeFence, current>>
  BY DEF Reserve, history
<1>5. TypeOK'
  <2>1. processes' \in [Keys -> Record \cup {NoRecord}]
    BY <1>1, <1>4 DEF TInv, TypeOK
  <2>2. active' \in [Services -> Keys \cup {None}]
    BY <1>4 DEF TInv, TypeOK
  <2>3. issued' \in SUBSET (Keys \cup Sessions) /\ workGeneration' \in Nat
    BY <1>4 DEF TInv, TypeOK
  <2> QED BY <1>2, <1>4, <2>1, <2>2, <2>3 DEF TInv, TypeOK
<1>6. IdentitiesIssued'
  BY <1>3, <1>4 DEF TInv, TypeOK, IdentitiesIssued
<1> QED BY <1>5, <1>6 DEF TInv

LEMMA TInvUpdate ==
  ASSUME TInv, NEW k \in Keys, NEW status \in ActiveStates, NEW evidence \in Evidence,
         NEW claim \in Claim \cup {NoClaim}, NEW remembering \in SUBSET Readers,
         UpdateActive(k, status, evidence, claim, remembering)
  PROVE  TInv'
<1> DEFINE record == [processes[k] EXCEPT !.status = status, !.evidence = evidence,
                                          !.claim = claim]
<1>1. processes[k] \in Record /\ processes[k] # NoRecord
  BY RecordFields DEF TInv, TypeOK, UpdateActive
<1>2. record \in Record
  BY <1>1, RecordUpdate
<1>3. processes' = [processes EXCEPT ![k] = record]
  BY DEF UpdateActive
<1>4. /\ workGeneration' \in {workGeneration, workGeneration + 1}
      /\ current' = [current EXCEPT ![k] = remembering]
      /\ UNCHANGED <<active, sessions, journals, tombstones, retained, issued, intakeFence>>
  BY DEF UpdateActive, history
<1> HIDE DEF record
<1>5. TypeOK'
  BY <1>2, <1>3, <1>4 DEF TInv, TypeOK
<1>6. IdentitiesIssued'
  BY <1>1, <1>3, <1>4 DEF TInv, TypeOK, IdentitiesIssued
<1> QED BY <1>5, <1>6 DEF TInv

LEMMA TInvExpire ==
  ASSUME TInv, NEW k \in Keys, ExpireClaim(k)
  PROVE  TInv'
<1>1. processes[k] \in Record /\ processes[k].claim \in Claim
  BY RecordFields DEF TInv, TypeOK, ExpireClaim
<1>2. [processes[k].claim EXCEPT !.expired = TRUE] \in Claim
  BY <1>1 DEF Claim
<1>3. [processes[k] EXCEPT !.claim.expired = TRUE] \in Record
  BY <1>1, <1>2 DEF Record
<1>4. processes' = [processes EXCEPT ![k] = [processes[k] EXCEPT !.claim.expired = TRUE]]
  BY DEF ExpireClaim, TInv, TypeOK
<1>5. TypeOK'
  BY <1>3, <1>4 DEF ExpireClaim, TInv, TypeOK, history
<1>6. IdentitiesIssued'
  BY <1>4 DEF ExpireClaim, TInv, TypeOK, IdentitiesIssued, history
<1> QED BY <1>5, <1>6 DEF TInv

LEMMA TInvCommitTerminal ==
  ASSUME TInv, NEW k \in Keys, NEW id \in ClaimIds, CommitTerminal(k, id)
  PROVE  TInv'
<1> DEFINE i == processes[k].owner
           record == [processes[k] EXCEPT !.status = "terminal", !.claim = NoClaim]
<1>1. processes[k] \in Record /\ processes[k] # NoRecord /\ i \in Sessions \cup {None}
  BY RecordFields DEF TInv, TypeOK, CommitTerminal
<1>2. record \in Record
  BY <1>1 DEF Record
<1>3. processes' = [processes EXCEPT ![k] = record]
  BY DEF CommitTerminal, TInv, TypeOK
<1>4. sessions' \in [Sessions -> Session \cup {NoSession}]
      /\ \A j \in Sessions : sessions'[j] # NoSession => sessions[j] # NoSession
  <2>1. CASE i = None
    BY <2>1 DEF CommitTerminal, DropRunKey, TInv, TypeOK
  <2>2. CASE i # None
    <3>1. i \in Sessions /\ sessions[i] \in Session /\ sessions[i] # NoSession
      BY <1>1, <2>2, Absent DEF CommitTerminal, TInv, TypeOK
    <3>2. [sessions[i] EXCEPT !.runKeys = @ \ {k}] \in Session
      BY <3>1 DEF Session
    <3> QED BY <2>2, <3>1, <3>2 DEF CommitTerminal, DropRunKey, TInv, TypeOK
  <2> QED BY <2>1, <2>2
<1>5. active' \in [Services -> Keys \cup {None}]
  BY DEF CommitTerminal, TInv, TypeOK
<1> HIDE DEF i, record
<1>6. /\ workGeneration' = workGeneration + 1
      /\ current' = [current EXCEPT ![k] = {}]
      /\ UNCHANGED <<journals, tombstones, retained, issued, intakeFence>>
  BY DEF CommitTerminal, NextGeneration, history
<1>7. TypeOK'
  BY <1>2, <1>3, <1>4, <1>5, <1>6 DEF TInv, TypeOK
<1>8. IdentitiesIssued'
  BY <1>1, <1>3, <1>4, <1>6 DEF TInv, TypeOK, IdentitiesIssued
<1> QED BY <1>7, <1>8 DEF TInv

LEMMA TInvPrune ==
  ASSUME TInv, NEW k \in Keys,
         \/ \E keepRun \in BOOLEAN : SaveIntent(k, keepRun)
         \/ CommitPrune(k)
         \/ FinishPrune(k)
  PROVE  TInv'
<1>1. ASSUME NEW keepRun \in BOOLEAN, SaveIntent(k, keepRun) PROVE TInv'
  <2>1. [phase |-> "pending", keepRun |-> keepRun] \in Journal
    BY DEF Journal
  <2> QED BY <1>1, <2>1 DEF SaveIntent, TInv, TypeOK, IdentitiesIssued
<1>2. CASE CommitPrune(k)
  <2>1. journals[k] \in Journal
    BY <1>2 DEF CommitPrune, TInv, TypeOK, NoJournal
  <2>2. [journals[k] EXCEPT !.phase = "committed"] \in Journal
    BY <2>1 DEF Journal
  <2>3. /\ tombstones' \subseteq tombstones \cup {k}
        /\ tombstones' \in SUBSET (Keys \cup Sessions)
        /\ retained \subseteq tombstones' /\ k \in tombstones'
    BY <1>2, AddedTombstones DEF CommitPrune, TInv
  <2>4. processes[k] # NoRecord
    BY <1>2, Absent DEF CommitPrune, Eligible
  <2>5. TypeOK'
    BY <1>2, <2>2, <2>3 DEF CommitPrune, TInv, TypeOK
  <2>6. IdentitiesIssued'
    BY <1>2, <2>3, <2>4 DEF CommitPrune, TInv, TypeOK, IdentitiesIssued
  <2> QED BY <2>5, <2>6 DEF TInv
<1>3. CASE FinishPrune(k)
  BY <1>3 DEF FinishPrune, TInv, TypeOK, IdentitiesIssued
<1> QED BY <1>1, <1>2, <1>3

LEMMA TInvSession ==
  ASSUME TInv, NEW i \in Sessions,
         \/ \E m \in Instances : OpenSession(i, m)
         \/ \E from \in SUBSET SessionActiveStates, to \in SessionActiveStates :
              SetClosing(i, from, to)
  PROVE  TInv'
<1>1. ASSUME NEW m \in Instances, OpenSession(i, m) PROVE TInv'
  <2>1. [state |-> "open", runKeys |-> {}, manager |-> m] \in Session
    BY DEF Session, SessionActiveStates
  <2> QED BY <1>1, <2>1 DEF OpenSession, TInv, TypeOK, IdentitiesIssued, history
<1>2. ASSUME NEW from \in SUBSET SessionActiveStates, NEW to \in SessionActiveStates,
             SetClosing(i, from, to)
      PROVE  TInv'
  <2>1. sessions[i] \in Session /\ sessions[i] # NoSession
    BY <1>2, Absent DEF SetClosing, TInv, TypeOK, SessionActiveStates
  <2>2. [sessions[i] EXCEPT !.state = to] \in Session
    BY <2>1 DEF Session
  <2>3. sessions' = [sessions EXCEPT ![i] = [sessions[i] EXCEPT !.state = to]]
    BY <1>2 DEF SetClosing, TInv, TypeOK
  <2> QED BY <1>2, <2>1, <2>2, <2>3 DEF SetClosing, TInv, TypeOK, IdentitiesIssued, history
<1> QED BY <1>1, <1>2

LEMMA TInvCompact ==
  ASSUME TInv, NEW ids \in SUBSET {i \in ActiveSessionIds : SessionEmpty(i)}, Compact(ids)
  PROVE  TInv'
<1>1. ids \in SUBSET Sessions /\ \A i \in ids : sessions[i] # NoSession
  BY Absent DEF ActiveSessionIds, SessionActiveStates
<1>2. /\ tombstones' \subseteq tombstones \cup ids
      /\ tombstones' \in SUBSET (Keys \cup Sessions)
      /\ retained \subseteq tombstones'
  BY <1>1, AddedTombstones DEF Compact, TInv
<1>3. workGeneration' \in Nat
  BY <1>1, CompactCardinality DEF Compact, TInv, TypeOK
<1>4. TypeOK'
  BY <1>1, <1>2, <1>3 DEF Compact, TInv, TypeOK
<1>5. IdentitiesIssued'
  BY <1>1, <1>2 DEF Compact, TInv, TypeOK, IdentitiesIssued
<1> QED BY <1>4, <1>5 DEF TInv

LEMMA TInvFence ==
  ASSUME TInv, NEW op \in Operations,
         \/ \E g \in Nat, idle \in BOOLEAN : InstallFence(op, g, idle)
         \/ ClearTerminalFence(op)
  PROVE  TInv'
<1>1. ASSUME NEW g \in Nat, NEW idle \in BOOLEAN, InstallFence(op, g, idle) PROVE TInv'
  <2>1. [op |-> op, generation |-> g, idle |-> idle] \in Fence
    BY DEF Fence
  <2> QED BY <1>1, <2>1 DEF InstallFence, TInv, TypeOK, IdentitiesIssued, history
<1>2. CASE ClearTerminalFence(op)
  BY <1>2 DEF ClearTerminalFence, TInv, TypeOK, IdentitiesIssued, history
<1> QED BY <1>1, <1>2

LEMMA TInvStep == TInv /\ [Next]_repoVars => TInv'
<1> SUFFICES ASSUME TInv, [Next]_repoVars PROVE TInv'
  OBVIOUS
<1>1. CASE UNCHANGED repoVars
  BY <1>1 DEF repoVars, TInv, TypeOK, IdentitiesIssued
<1>2. CASE Next
  <2>1. Operation
    BY <1>2, NextIsOperation DEF TInv
  <2> QED BY <2>1, TInvReserve, TInvUpdate, TInvExpire, TInvCommitTerminal, TInvPrune,
             TInvSession, TInvCompact, TInvFence DEF Operation
<1> QED BY <1>1, <1>2

\* The repository only ever holds records, sessions, journals, tombstones and
\* fences of the shapes the schema allows.
THEOREM TypeCorrect == Spec => []TypeOK
<1>1. TInv => TypeOK
  BY DEF TInv
<1> QED BY TInvInit, TInvStep, <1>1, PTL DEF Spec

--------------------------------------------------------------------------------
(* The consistency of the central state (StateSchema.validate_state).        *)

SInv == TInv /\ StateValid

LEMMA SInvInit == Init => SInv
<1> SUFFICES ASSUME Init PROVE SInv
  OBVIOUS
<1>1. IndexValid(processes, active)
  BY Absent, ServiceOfAssumption DEF Init, IndexValid
<1>2. OwnershipValid(processes, sessions)
  BY Absent DEF Init, OwnershipValid
<1>3. ResourcesValid(processes, sessions, journals, tombstones)
  BY DEF Init, ResourcesValid, NoJournal
<1> QED BY <1>1, <1>2, <1>3, TInvInit DEF SInv, StateValid, ValidState

\* A run identifier that was not issued names nothing.
LEMMA FreshRun ==
  ASSUME SInv, NEW k \in Keys, k \notin issued
  PROVE  /\ processes[k] = NoRecord
         /\ journals[k] = NoJournal
         /\ \A s \in Services : active[s] # k
         /\ \A i \in Sessions : k \notin sessions[i].runKeys
<1>1. processes[k] = NoRecord /\ k \notin tombstones
  BY DEF SInv, TInv, IdentitiesIssued
<1>2. journals[k] = NoJournal
  <2>1. journals[k].phase # "pending" /\ journals[k].phase # "committed"
    BY <1>1, Absent DEF SInv, StateValid, ValidState, ResourcesValid
  <2> QED BY <2>1 DEF SInv, TInv, TypeOK, Journal
<1>3. \A s \in Services : active[s] # k
  BY <1>1, Absent, NoneAssumption DEF SInv, StateValid, ValidState, IndexValid
<1>4. \A i \in Sessions : k \notin sessions[i].runKeys
  BY <1>1, Absent DEF SInv, StateValid, ValidState, OwnershipValid
<1> QED BY <1>1, <1>2, <1>3, <1>4

LEMMA SValidReserve ==
  ASSUME SInv, NEW k \in Keys, NEW i \in Sessions \cup {None}, NEW m \in Instances,
         Reserve(k, i, m)
  PROVE  StateValid'
<1> DEFINE new == NewRecord(i, m)
<1>1. /\ processes[k] = NoRecord /\ journals[k] = NoJournal
      /\ \A s \in Services : active[s] # k
      /\ \A j \in Sessions : k \notin sessions[j].runKeys
  BY FreshRun DEF Reserve
<1>2. IsActive(new) /\ new.owner = i
  BY DEF NewRecord, IsActive, ActiveStates
<1>3. /\ processes' = [processes EXCEPT ![k] = new]
      /\ active' = [active EXCEPT ![ServiceOf[k]] = k]
      /\ active[ServiceOf[k]] = None
      /\ k \notin issued
      /\ UNCHANGED <<journals, tombstones>>
  BY DEF Reserve, history
<1>4. /\ i = None => sessions' = sessions
      /\ i # None => /\ sessions[i].state = "open"
                     /\ \A j \in Sessions :
                          /\ sessions'[j].state = sessions[j].state
                          /\ sessions'[j].runKeys =
                               IF j = i THEN sessions[j].runKeys \cup {k}
                               ELSE sessions[j].runKeys
                          /\ j # i => sessions'[j] = sessions[j]
  BY Absent DEF Reserve, SessionAccepts, SInv, TInv, TypeOK, Session
<1>5. ServiceOf[k] \in Services /\ \A j \in Keys : ServiceOf[j] \in Services
  BY ServiceOfAssumption
<1> HIDE DEF new
<1>6. IndexValid(processes', active')
  BY <1>1, <1>2, <1>3, <1>5, NoneAssumption
  DEF SInv, StateValid, ValidState, IndexValid, TInv, TypeOK
<1>7. OwnershipValid(processes', sessions')
  <2>1. ASSUME NEW j \in Keys, IsActive(processes'[j]), processes'[j].owner # None
        PROVE  /\ sessions'[processes'[j].owner].state \in SessionActiveStates
               /\ j \in sessions'[processes'[j].owner].runKeys
    <3>1. CASE j = k
      BY <1>2, <1>3, <1>4, <2>1, <3>1 DEF SInv, TInv, TypeOK, SessionActiveStates
    <3>2. CASE j # k
      <4>1. processes'[j] = processes[j]
        BY <1>3, <3>2 DEF SInv, TInv, TypeOK
      <4>2. /\ sessions[processes[j].owner].state \in SessionActiveStates
            /\ j \in sessions[processes[j].owner].runKeys
        BY <2>1, <4>1 DEF SInv, StateValid, ValidState, OwnershipValid
      <4>3. processes[j].owner \in Sessions
        BY <2>1, <4>1, RecordFields, Absent DEF SInv, TInv, TypeOK
      <4> QED BY <1>4, <4>1, <4>2, <4>3
    <3> QED BY <3>1, <3>2
  <2>2. ASSUME NEW j \in Sessions, NEW h \in sessions'[j].runKeys, h \in Keys
        PROVE  IsActive(processes'[h]) /\ processes'[h].owner = j
    <3>1. CASE h = k
      <4>1. processes'[k] = new
        BY <1>3 DEF SInv, TInv, TypeOK
      <4>2. i # None /\ j = i
        BY <1>1, <1>4, <2>2, <3>1
      <4> QED BY <1>2, <3>1, <4>1, <4>2
    <3>2. CASE h # k
      <4>1. processes'[h] = processes[h]
        BY <1>3, <2>2, <3>2 DEF SInv, TInv, TypeOK
      <4>2. h \in sessions[j].runKeys
        BY <1>4, <2>2, <3>2
      <4> QED BY <4>1, <4>2 DEF SInv, StateValid, ValidState, OwnershipValid
    <3> QED BY <3>1, <3>2
  <2>3. \A j \in Sessions : sessions'[j].runKeys \subseteq Keys
    BY TInvReserve DEF SInv, TInv, TypeOK, Session, NoSession
  <2> QED BY <2>1, <2>2, <2>3 DEF OwnershipValid
<1>8. ResourcesValid(processes', sessions', journals', tombstones')
  <2>1. /\ k \notin tombstones
        /\ \A j \in Keys : j # k => processes'[j] = processes[j]
    BY <1>3 DEF SInv, TInv, TypeOK, IdentitiesIssued
  <2>2. \A j \in Sessions \cap tombstones : sessions'[j] = sessions[j]
    BY <1>4, Absent DEF SInv, StateValid, ValidState, ResourcesValid
  <2> QED BY <1>1, <1>3, <2>1, <2>2
          DEF SInv, StateValid, ValidState, ResourcesValid, NoJournal
<1> QED BY <1>6, <1>7, <1>8 DEF StateValid, ValidState

LEMMA SValidUpdate ==
  ASSUME SInv, NEW k \in Keys, NEW status \in ActiveStates, NEW evidence \in Evidence,
         NEW claim \in Claim \cup {NoClaim}, NEW remembering \in SUBSET Readers,
         UpdateActive(k, status, evidence, claim, remembering)
  PROVE  StateValid'
<1> DEFINE record == [processes[k] EXCEPT !.status = status, !.evidence = evidence,
                                          !.claim = claim]
<1>1. /\ ValidState([processes EXCEPT ![k] = record], active, sessions, journals, tombstones)
      /\ processes' = [processes EXCEPT ![k] = record]
      /\ UNCHANGED <<active, sessions, journals, tombstones>>
  BY DEF UpdateActive, Validated, history
<1> HIDE DEF record
<1> QED BY <1>1 DEF StateValid

LEMMA SValidExpire ==
  ASSUME SInv, NEW k \in Keys, ExpireClaim(k)
  PROVE  StateValid'
<1>1. processes[k] \in Record /\ processes[k].claim \in Claim
  BY RecordFields DEF SInv, TInv, TypeOK, ExpireClaim
<1>2. /\ \A j \in Keys : /\ processes'[j].status = processes[j].status
                         /\ processes'[j].owner = processes[j].owner
                         /\ j # k => processes'[j] = processes[j]
      /\ UNCHANGED <<active, sessions, journals, tombstones>>
  <2>1. \A j \in Keys : j # k => processes'[j] = processes[j]
    BY DEF ExpireClaim, SInv, TInv, TypeOK
  <2>2. processes'[k] = [processes[k] EXCEPT !.claim.expired = TRUE]
    BY DEF ExpireClaim, SInv, TInv, TypeOK
  <2>3. processes'[k].status = processes[k].status /\ processes'[k].owner = processes[k].owner
    BY <1>1, <2>2 DEF Record
  <2> QED BY <2>1, <2>3 DEF ExpireClaim, history
<1>3. journals[k].phase # "pending" /\ k \notin tombstones
  BY <1>1, Absent DEF SInv, StateValid, ValidState, ResourcesValid, ExpireClaim
<1>4. IndexValid(processes', active')
  BY <1>2, ServiceOfAssumption
  DEF SInv, TInv, TypeOK, StateValid, ValidState, IndexValid, IsActive
<1>5. OwnershipValid(processes', sessions')
  BY <1>2 DEF SInv, TInv, TypeOK, Session, NoSession, StateValid, ValidState,
              OwnershipValid, IsActive
<1>6. ResourcesValid(processes', sessions', journals', tombstones')
  BY <1>2, <1>3 DEF SInv, StateValid, ValidState, ResourcesValid
<1> QED BY <1>4, <1>5, <1>6 DEF StateValid, ValidState

LEMMA SValidCommitTerminal ==
  ASSUME SInv, NEW k \in Keys, NEW id \in ClaimIds, CommitTerminal(k, id)
  PROVE  StateValid'
<1> DEFINE i == processes[k].owner
           record == [processes[k] EXCEPT !.status = "terminal", !.claim = NoClaim]
<1>1. /\ processes[k] \in Record /\ processes[k].claim # NoClaim
      /\ i \in Sessions \cup {None}
  BY RecordFields, Absent, NoneAssumption DEF SInv, TInv, TypeOK, CommitTerminal, HoldsClaim
<1>2. ~IsActive(record) /\ record.owner = i
  BY <1>1 DEF Record, IsActive, ActiveStates
<1>3. /\ processes' = [processes EXCEPT ![k] = record]
      /\ active' = [active EXCEPT ![ServiceOf[k]] =
                      IF active[ServiceOf[k]] = k THEN None ELSE active[ServiceOf[k]]]
      /\ journals[k] = NoJournal
      /\ UNCHANGED <<journals, tombstones>>
  BY DEF CommitTerminal, SInv, TInv, TypeOK, history
<1>4. \A j \in Sessions :
        /\ sessions'[j].state = sessions[j].state
        /\ sessions'[j].runKeys = sessions[j].runKeys \ {k}
        /\ sessions[j] = NoSession => sessions'[j] = NoSession
  <2>1. \A j \in Sessions : k \in sessions[j].runKeys => j = i
    BY DEF SInv, StateValid, ValidState, OwnershipValid
  <2>2. CASE i = None
    <3>1. \A j \in Sessions : k \notin sessions[j].runKeys
      BY <2>1, <2>2, NoneAssumption
    <3> QED BY <2>2, <3>1 DEF CommitTerminal, DropRunKey
  <2>3. CASE i # None
    <3>1. i \in Sessions /\ sessions[i] \in Session /\ sessions[i] # NoSession
      BY <1>1, <2>3, Absent DEF CommitTerminal, SInv, TInv, TypeOK
    <3>2. sessions' = [sessions EXCEPT ![i] =
                         [sessions[i] EXCEPT !.runKeys = sessions[i].runKeys \ {k}]]
      BY <2>3 DEF CommitTerminal, DropRunKey, SInv, TInv, TypeOK
    <3>3. /\ sessions'[i].state = sessions[i].state
          /\ sessions'[i].runKeys = sessions[i].runKeys \ {k}
      BY <3>1, <3>2 DEF SInv, TInv, TypeOK, Session
    <3>4. \A j \in Sessions : j # i => sessions'[j] = sessions[j]
      BY <3>2 DEF SInv, TInv, TypeOK
    <3> QED BY <2>1, <3>1, <3>3, <3>4
  <2> QED BY <2>2, <2>3
<1>5. k \notin tombstones
  BY <1>1, Absent DEF SInv, StateValid, ValidState, ResourcesValid
<1> HIDE DEF record, i
<1>6. /\ processes'[k] = record
      /\ \A j \in Keys : j # k => processes'[j] = processes[j]
  BY <1>3 DEF SInv, TInv, TypeOK
<1>7. IndexValid(processes', active')
  BY <1>2, <1>3, <1>6, ServiceOfAssumption, NoneAssumption
  DEF SInv, StateValid, ValidState, IndexValid, TInv, TypeOK
<1>8. OwnershipValid(processes', sessions')
  <2>1. ASSUME NEW j \in Keys, IsActive(processes'[j]), processes'[j].owner # None
        PROVE  /\ sessions'[processes'[j].owner].state \in SessionActiveStates
               /\ j \in sessions'[processes'[j].owner].runKeys
    <3>1. j # k /\ processes'[j] = processes[j]
      BY <1>2, <1>6, <2>1
    <3>2. processes[j].owner \in Sessions
      BY <2>1, <3>1, RecordFields, Absent DEF SInv, TInv, TypeOK
    <3> QED BY <1>4, <2>1, <3>1, <3>2 DEF SInv, StateValid, ValidState, OwnershipValid
  <2>2. ASSUME NEW j \in Sessions, NEW h \in sessions'[j].runKeys
        PROVE  IsActive(processes'[h]) /\ processes'[h].owner = j
    <3>1. h # k /\ h \in sessions[j].runKeys /\ h \in Keys
      BY <1>4, <2>2 DEF SInv, TInv, TypeOK, Session, NoSession
    <3> QED BY <1>6, <3>1 DEF SInv, StateValid, ValidState, OwnershipValid
  <2> QED BY <2>1, <2>2 DEF OwnershipValid
<1>9. ResourcesValid(processes', sessions', journals', tombstones')
  BY <1>3, <1>4, <1>5, <1>6
  DEF SInv, TInv, TypeOK, StateValid, ValidState, ResourcesValid, NoJournal
<1> QED BY <1>7, <1>8, <1>9 DEF StateValid, ValidState

LEMMA SValidPrune ==
  ASSUME SInv, NEW k \in Keys,
         \/ \E keepRun \in BOOLEAN : SaveIntent(k, keepRun)
         \/ CommitPrune(k)
         \/ FinishPrune(k)
  PROVE  StateValid'
<1>1. ASSUME NEW keepRun \in BOOLEAN, SaveIntent(k, keepRun) PROVE StateValid'
  <2>1. /\ \A j \in Keys : j # k => journals'[j] = journals[j]
        /\ journals'[k].phase = "pending"
        /\ processes[k].status = "terminal" /\ processes[k].claim = NoClaim
        /\ UNCHANGED <<processes, active, sessions, tombstones>>
    BY <1>1 DEF SaveIntent, Eligible, SInv, TInv, TypeOK
  <2> QED BY <2>1 DEF SInv, StateValid, ValidState, ResourcesValid
<1>2. CASE CommitPrune(k)
  <2>1. /\ \A j \in Keys : j # k => journals'[j] = journals[j]
        /\ journals'[k].phase = "committed"
    BY <1>2 DEF CommitPrune, SInv, TInv, TypeOK, Journal, NoJournal
  <2>2. /\ processes'[k] = NoRecord
        /\ \A j \in Keys : j # k => processes'[j] = processes[j]
        /\ ~IsActive(processes[k])
        /\ UNCHANGED <<active, sessions>>
    BY <1>2 DEF CommitPrune, Eligible, SInv, TInv, TypeOK, IsActive, ActiveStates
  <2>3. /\ tombstones' \subseteq tombstones \cup {k}
        /\ k \in tombstones'
        /\ \A j \in Keys : journals[j] # NoJournal /\ j \in tombstones => j \in tombstones'
    BY <1>2, AddedTombstones DEF CommitPrune, SInv, TInv
  <2>4. IndexValid(processes', active')
    BY <2>2, Absent, ServiceOfAssumption
    DEF SInv, StateValid, ValidState, IndexValid, TInv, TypeOK
  <2>5. OwnershipValid(processes', sessions')
    BY <2>2, Absent
    DEF SInv, StateValid, ValidState, OwnershipValid, TInv, TypeOK, Session, NoSession
  <2>6. ResourcesValid(processes', sessions', journals', tombstones')
    <3>1. \A i \in Sessions \cap tombstones' : sessions'[i] = NoSession
      BY <2>2, <2>3, DisjointAssumption DEF SInv, StateValid, ValidState, ResourcesValid
    <3>2. \A j \in Keys : journals[j].phase = "committed" => journals[j] # NoJournal
      BY DEF NoJournal
    <3> QED BY <2>1, <2>2, <2>3, <3>1, <3>2
            DEF SInv, StateValid, ValidState, ResourcesValid
  <2> QED BY <2>4, <2>5, <2>6 DEF StateValid, ValidState
<1>3. CASE FinishPrune(k)
  <2>1. /\ \A j \in Keys : j # k => journals'[j] = journals[j]
        /\ journals'[k].phase = "none"
        /\ UNCHANGED <<processes, active, sessions, tombstones>>
    BY <1>3 DEF FinishPrune, SInv, TInv, TypeOK, NoJournal
  <2> QED BY <2>1 DEF SInv, StateValid, ValidState, ResourcesValid
<1> QED BY <1>1, <1>2, <1>3

LEMMA SValidSession ==
  ASSUME SInv, NEW i \in Sessions,
         \/ \E m \in Instances : OpenSession(i, m)
         \/ \E from \in SUBSET SessionActiveStates, to \in SessionActiveStates :
              SetClosing(i, from, to)
  PROVE  StateValid'
<1> DEFINE OnlyStateChanges ==
             /\ sessions'[i].state \in SessionActiveStates
             /\ sessions'[i].runKeys = sessions[i].runKeys
             /\ \A j \in Sessions : j # i => sessions'[j] = sessions[j]
             /\ i \notin tombstones
             /\ UNCHANGED <<processes, active, journals, tombstones>>
<1>1. OnlyStateChanges
  <2>1. ASSUME NEW m \in Instances, OpenSession(i, m) PROVE OnlyStateChanges
    BY <2>1, Absent
    DEF OpenSession, SInv, TInv, TypeOK, IdentitiesIssued, SessionActiveStates, history
  <2>2. ASSUME NEW from \in SUBSET SessionActiveStates, NEW to \in SessionActiveStates,
               SetClosing(i, from, to)
        PROVE  OnlyStateChanges
    <3>1. sessions[i] \in Session /\ sessions[i] # NoSession
      BY <2>2, Absent DEF SetClosing, SInv, TInv, TypeOK, SessionActiveStates
    <3>2. i \notin tombstones
      BY <3>1 DEF SInv, StateValid, ValidState, ResourcesValid
    <3>3. sessions' = [sessions EXCEPT ![i] = [sessions[i] EXCEPT !.state = to]]
      BY <2>2 DEF SetClosing, SInv, TInv, TypeOK
    <3>4. sessions'[i].state = to /\ sessions'[i].runKeys = sessions[i].runKeys
      BY <3>1, <3>3 DEF SInv, TInv, TypeOK, Session
    <3>5. \A j \in Sessions : j # i => sessions'[j] = sessions[j]
      BY <3>3 DEF SInv, TInv, TypeOK
    <3>6. UNCHANGED <<processes, active, journals, tombstones>>
      BY <2>2 DEF SetClosing, history
    <3> QED BY <2>2, <3>2, <3>4, <3>5, <3>6
  <2> QED BY <2>1, <2>2
<1>2. OwnershipValid(processes, sessions')
  <2>1. ASSUME NEW k \in Keys, IsActive(processes[k]), processes[k].owner # None
        PROVE  /\ sessions'[processes[k].owner].state \in SessionActiveStates
               /\ k \in sessions'[processes[k].owner].runKeys
    <3>1. processes[k].owner \in Sessions
      BY <2>1, RecordFields, Absent DEF SInv, TInv, TypeOK
    <3> QED BY <1>1, <2>1, <3>1 DEF SInv, StateValid, ValidState, OwnershipValid
  <2>2. \A j \in Sessions : sessions'[j].runKeys = sessions[j].runKeys
    BY <1>1
  <2> QED BY <2>1, <2>2 DEF SInv, StateValid, ValidState, OwnershipValid
<1>3. ResourcesValid(processes, sessions', journals, tombstones)
  BY <1>1 DEF SInv, StateValid, ValidState, ResourcesValid
<1> QED BY <1>1, <1>2, <1>3 DEF SInv, StateValid, ValidState

LEMMA SValidCompact ==
  ASSUME SInv, NEW ids \in SUBSET {i \in ActiveSessionIds : SessionEmpty(i)}, Compact(ids)
  PROVE  StateValid'
<1>1. /\ ids \in SUBSET Sessions
      /\ \A i \in ids : sessions[i].runKeys = {} /\ sessions'[i] = NoSession
      /\ \A i \in Sessions \ ids : sessions'[i] = sessions[i]
      /\ UNCHANGED <<processes, active, journals>>
  BY DEF ActiveSessionIds, SessionEmpty, Compact
<1>2. /\ tombstones' \subseteq tombstones \cup ids
      /\ \A k \in Keys : journals[k] # NoJournal /\ k \in tombstones => k \in tombstones'
  BY <1>1, AddedTombstones DEF Compact, SInv, TInv
<1>3. OwnershipValid(processes, sessions')
  <2>1. ASSUME NEW k \in Keys, IsActive(processes[k]), processes[k].owner # None
        PROVE  /\ sessions'[processes[k].owner].state \in SessionActiveStates
               /\ k \in sessions'[processes[k].owner].runKeys
    <3>1. processes[k].owner \in Sessions
      BY <2>1, RecordFields, Absent DEF SInv, TInv, TypeOK
    <3> QED BY <1>1, <2>1, <3>1 DEF SInv, StateValid, ValidState, OwnershipValid
  <2>2. \A i \in Sessions : sessions'[i].runKeys = sessions[i].runKeys
    BY <1>1, Absent
  <2> QED BY <2>1, <2>2 DEF SInv, StateValid, ValidState, OwnershipValid
<1>4. ResourcesValid(processes, sessions', journals, tombstones')
  <2>1. \A k \in Keys : journals[k].phase = "committed" => journals[k] # NoJournal
    BY DEF NoJournal
  <2> QED BY <1>1, <1>2, <2>1, DisjointAssumption
          DEF SInv, StateValid, ValidState, ResourcesValid
<1> QED BY <1>1, <1>3, <1>4 DEF SInv, StateValid, ValidState

LEMMA SInvStep == SInv /\ [Next]_repoVars => SInv'
<1> SUFFICES ASSUME SInv, [Next]_repoVars PROVE StateValid'
  BY TInvStep DEF SInv
<1>1. CASE UNCHANGED repoVars
  BY <1>1 DEF repoVars, SInv, StateValid
<1>2. CASE Next
  <2>1. Operation
    BY <1>2, NextIsOperation DEF SInv, TInv
  <2>2. ASSUME NEW op \in Operations,
               \/ \E g \in Nat, idle \in BOOLEAN : InstallFence(op, g, idle)
               \/ ClearTerminalFence(op)
        PROVE  StateValid'
    BY <2>2 DEF InstallFence, ClearTerminalFence, SInv, StateValid, history
  <2> QED BY <2>1, <2>2, SValidReserve, SValidUpdate, SValidExpire, SValidCommitTerminal,
             SValidPrune, SValidSession, SValidCompact DEF Operation
<1> QED BY <1>1, <1>2

\* Every state an operation leaves behind passes validate_state, so the check each
\* commit runs refuses no operation but an `update` that revives a finished run.
THEOREM StateAlwaysValid == Spec => []StateValid
<1>1. SInv => StateValid
  BY DEF SInv
<1> QED BY SInvInit, SInvStep, <1>1, PTL DEF Spec

--------------------------------------------------------------------------------
(* Finished runs.                                                            *)

\* A claim is only ever held on a run that still has to be finished.
ClaimsOnActive == \A k \in Keys :
  processes[k] # NoRecord /\ processes[k].claim # NoClaim => IsActive(processes[k])

CInv == SInv /\ ClaimsOnActive

\* validate_state refuses an update that would make an inactive run active: its
\* service has no index entry for it.
LEMMA UpdateNeedsActive ==
  ASSUME SInv, NEW k \in Keys, NEW status \in ActiveStates, NEW evidence \in Evidence,
         NEW claim \in Claim \cup {NoClaim}, NEW remembering \in SUBSET Readers,
         UpdateActive(k, status, evidence, claim, remembering)
  PROVE  /\ IsActive(processes[k]) /\ IsActive(processes'[k])
         /\ \A j \in Keys : j # k => processes'[j] = processes[j]
<1> DEFINE record == [processes[k] EXCEPT !.status = status, !.evidence = evidence,
                                          !.claim = claim]
           new == [processes EXCEPT ![k] = record]
<1>1. processes[k] \in Record
  BY RecordFields DEF SInv, TInv, TypeOK, UpdateActive
<1>2. record.status = status
  BY <1>1 DEF Record
<1>3. IndexValid(new, active) /\ processes' = new
  BY DEF UpdateActive, Validated, ValidState
<1> HIDE DEF record
<1>4. new[k] = record /\ \A j \in Keys : j # k => new[j] = processes[j]
  BY DEF SInv, TInv, TypeOK
<1>5. IsActive(new[k])
  BY <1>2, <1>4 DEF IsActive
<1>6. active[ServiceOf[k]] = k
  BY <1>3, <1>5 DEF IndexValid
<1>7. IsActive(processes[k])
  BY <1>6, ServiceOfAssumption, NoneAssumption DEF SInv, StateValid, ValidState, IndexValid
<1> QED BY <1>3, <1>4, <1>5, <1>7

LEMMA CInvStep == CInv /\ [Next]_repoVars => CInv'
<1> SUFFICES ASSUME CInv, [Next]_repoVars PROVE ClaimsOnActive'
  BY SInvStep DEF CInv
<1>1. CASE UNCHANGED repoVars
  BY <1>1 DEF repoVars, CInv, ClaimsOnActive
<1>2. CASE Next
  <2>1. Operation
    BY <1>2, NextIsOperation DEF CInv, SInv, TInv
  <2>2. ASSUME NEW k \in Keys, NEW i \in Sessions \cup {None}, NEW m \in Instances,
               Reserve(k, i, m)
        PROVE  ClaimsOnActive'
    BY <2>2 DEF Reserve, NewRecord, CInv, SInv, TInv, TypeOK, ClaimsOnActive
  <2>3. ASSUME NEW k \in Keys, NEW status \in ActiveStates, NEW evidence \in Evidence,
               NEW claim \in Claim \cup {NoClaim},
               UpdateActive(k, status, evidence, claim, {})
        PROVE  ClaimsOnActive'
    BY <2>3, UpdateNeedsActive DEF CInv, ClaimsOnActive
  <2>4. ASSUME NEW k \in Keys, ExpireClaim(k) PROVE ClaimsOnActive'
    <3>1. processes[k] \in Record
      BY <2>4, RecordFields DEF CInv, SInv, TInv, TypeOK, ExpireClaim
    <3>2. /\ processes'[k].status = processes[k].status
          /\ \A j \in Keys : j # k => processes'[j] = processes[j]
      BY <2>4, <3>1 DEF ExpireClaim, CInv, SInv, TInv, TypeOK, Record
    <3> QED BY <2>4, <3>2 DEF ExpireClaim, CInv, ClaimsOnActive, IsActive
  <2>5. ASSUME NEW k \in Keys, NEW id \in ClaimIds, CommitTerminal(k, id)
        PROVE  ClaimsOnActive'
    <3>1. processes[k] \in Record
      BY <2>5, RecordFields DEF CInv, SInv, TInv, TypeOK, CommitTerminal
    <3>2. /\ processes'[k].claim = NoClaim
          /\ \A j \in Keys : j # k => processes'[j] = processes[j]
      BY <2>5, <3>1 DEF CommitTerminal, CInv, SInv, TInv, TypeOK, Record
    <3> QED BY <3>2 DEF CInv, ClaimsOnActive
  <2>6. ASSUME NEW k \in Keys,
               \/ \E keepRun \in BOOLEAN : SaveIntent(k, keepRun)
               \/ CommitPrune(k)
               \/ FinishPrune(k)
        PROVE  ClaimsOnActive'
    BY <2>6 DEF SaveIntent, CommitPrune, FinishPrune, CInv, SInv, TInv, TypeOK,
                ClaimsOnActive
  <2>7. ASSUME UNCHANGED processes PROVE ClaimsOnActive'
    BY <2>7 DEF CInv, ClaimsOnActive
  <2> QED BY <2>1, <2>2, <2>3, <2>4, <2>5, <2>6, <2>7
          DEF Operation, OpenSession, SetClosing, Compact, InstallFence, ClearTerminalFence
<1> QED BY <1>1, <1>2

LEMMA CInvAlways == Spec => []CInv
<1>1. Init => CInv
  BY SInvInit DEF CInv, ClaimsOnActive, Init
<1> QED BY <1>1, CInvStep, PTL DEF Spec

LEMMA FinishedStaysFinished ==
  ASSUME CInv, [Next]_repoVars, NEW k \in Keys, processes[k].status = "terminal"
  PROVE  processes'[k] \in {processes[k], NoRecord}
<1>1. processes[k] \in Record /\ ~IsActive(processes[k]) /\ processes[k].claim = NoClaim
  BY RecordFields, Absent
  DEF CInv, SInv, TInv, TypeOK, ClaimsOnActive, IsActive, ActiveStates
<1>2. CASE UNCHANGED repoVars
  BY <1>2 DEF repoVars
<1>3. CASE Next
  <2>1. Operation
    BY <1>3, NextIsOperation DEF CInv, SInv, TInv
  <2>2. ASSUME NEW j \in Keys, NEW i \in Sessions \cup {None}, NEW m \in Instances,
               Reserve(j, i, m)
        PROVE  processes'[k] = processes[k]
    BY <1>1, <2>2, FreshRun, Absent DEF Reserve, CInv, SInv, TInv, TypeOK
  <2>3. ASSUME NEW j \in Keys, NEW status \in ActiveStates, NEW evidence \in Evidence,
               NEW claim \in Claim \cup {NoClaim},
               UpdateActive(j, status, evidence, claim, {})
        PROVE  processes'[k] = processes[k]
    BY <1>1, <2>3, UpdateNeedsActive DEF CInv
  <2>4. ASSUME NEW j \in Keys, ExpireClaim(j) PROVE processes'[k] = processes[k]
    BY <1>1, <2>4 DEF ExpireClaim, CInv, SInv, TInv, TypeOK
  <2>5. ASSUME NEW j \in Keys, NEW id \in ClaimIds, CommitTerminal(j, id)
        PROVE  processes'[k] = processes[k]
    BY <1>1, <2>5, Absent, NoneAssumption
    DEF CommitTerminal, HoldsClaim, CInv, SInv, TInv, TypeOK
  <2>6. ASSUME NEW j \in Keys,
               \/ \E keepRun \in BOOLEAN : SaveIntent(j, keepRun)
               \/ CommitPrune(j)
               \/ FinishPrune(j)
        PROVE  processes'[k] \in {processes[k], NoRecord}
    BY <2>6 DEF SaveIntent, CommitPrune, FinishPrune, CInv, SInv, TInv, TypeOK
  <2> QED BY <2>1, <2>2, <2>3, <2>4, <2>5, <2>6
          DEF Operation, OpenSession, SetClosing, Compact, InstallFence, ClearTerminalFence
<1> QED BY <1>2, <1>3

\* A finished run is never revived, by whichever late caller of update.
THEOREM FinishedRunsStay == Spec => TerminalIsFinal
<1>1. CInv /\ [Next]_repoVars =>
        [\A k \in Keys : processes[k].status = "terminal" =>
           processes'[k] \in {processes[k], NoRecord}]_repoVars
  BY FinishedStaysFinished
<1> QED BY CInvAlways, <1>1, PTL DEF Spec, TerminalIsFinal

--------------------------------------------------------------------------------
(* The work a conditional stop has to account for.                           *)

\* What a step may do to the live work and to the generation that stands for it.
WorkChange ==
  \/ LiveWork' = LiveWork /\ workGeneration' = workGeneration
  \/ workGeneration' > workGeneration /\ LiveWork' \subseteq LiveWork
  \/ /\ workGeneration' > workGeneration /\ intakeFence = NoFence
     /\ \E w \in Keys \cup Sessions : LiveWork' = LiveWork \cup {w}

\* The steps that touch a run or a session, whoever remembers the record.
LEMMA MovesChangeWork ==
  ASSUME CInv,
         \/ \E k \in Keys, i \in Sessions \cup {None}, m \in Instances : Reserve(k, i, m)
         \/ \E k \in Keys, status \in ActiveStates, evidence \in Evidence,
               claim \in Claim \cup {NoClaim}, remembering \in SUBSET Readers :
              UpdateActive(k, status, evidence, claim, remembering)
         \/ \E k \in Keys : ExpireClaim(k)
         \/ \E k \in Keys, id \in ClaimIds : CommitTerminal(k, id)
         \/ \E i \in Sessions, m \in Instances : OpenSession(i, m)
         \/ \E i \in Sessions, from \in SUBSET SessionActiveStates, to \in SessionActiveStates :
              SetClosing(i, from, to)
         \/ \E ids \in SUBSET Sessions : ids # {} /\ Compact(ids)
  PROVE  WorkChange
<1> USE DEF LiveWork, ActiveKeys, ActiveSessionIds
<1>0. workGeneration \in Nat
  BY DEF CInv, SInv, TInv, TypeOK
<1>1. ASSUME NEW k \in Keys, NEW i \in Sessions \cup {None}, NEW m \in Instances,
             Reserve(k, i, m)
      PROVE  WorkChange
  <2>1. ActiveKeys' = ActiveKeys \cup {k}
    BY <1>1 DEF Reserve, NewRecord, CInv, SInv, TInv, TypeOK, IsActive, ActiveStates
  <2>2. \A j \in Sessions : sessions'[j].state = sessions[j].state
    <3>1. CASE i = None
      BY <1>1, <3>1 DEF Reserve
    <3>2. CASE i # None
      <4>1. i \in Sessions /\ sessions[i] \in Session
        BY <1>1, <3>2, Absent DEF Reserve, SessionAccepts, CInv, SInv, TInv, TypeOK
      <4> QED BY <1>1, <3>2, <4>1 DEF Reserve, CInv, SInv, TInv, TypeOK, Session
    <3> QED BY <3>1, <3>2
  <2>3. LiveWork' = LiveWork \cup {k}
    BY <2>1, <2>2
  <2>4. workGeneration' > workGeneration /\ intakeFence = NoFence
    BY <1>0, <1>1 DEF Reserve, IntakeOpen
  <2> QED BY <2>3, <2>4 DEF WorkChange
<1>2. ASSUME NEW k \in Keys, NEW status \in ActiveStates, NEW evidence \in Evidence,
             NEW claim \in Claim \cup {NoClaim}, NEW remembering \in SUBSET Readers,
             UpdateActive(k, status, evidence, claim, remembering)
      PROVE  WorkChange
  <2>1. /\ IsActive(processes[k]) /\ IsActive(processes'[k])
        /\ \A j \in Keys : j # k => processes'[j] = processes[j]
    BY <1>2, UpdateNeedsActive DEF CInv
  <2>2. ActiveKeys' = ActiveKeys
    BY <2>1
  <2>3. UNCHANGED <<sessions, workGeneration>>
    BY <1>2, <2>1 DEF UpdateActive
  <2> QED BY <2>2, <2>3 DEF WorkChange
<1>3. ASSUME NEW k \in Keys, ExpireClaim(k) PROVE WorkChange
  <2>1. processes[k] \in Record
    BY <1>3, RecordFields DEF CInv, SInv, TInv, TypeOK, ExpireClaim
  <2>2. /\ processes'[k].status = processes[k].status
        /\ \A j \in Keys : j # k => processes'[j] = processes[j]
        /\ UNCHANGED <<sessions, workGeneration>>
    BY <1>3, <2>1 DEF ExpireClaim, CInv, SInv, TInv, TypeOK, Record
  <2>3. ActiveKeys' = ActiveKeys
    BY <2>2 DEF IsActive
  <2> QED BY <2>2, <2>3 DEF WorkChange
<1>4. ASSUME NEW k \in Keys, NEW id \in ClaimIds, CommitTerminal(k, id)
      PROVE  WorkChange
  <2>1. processes[k] \in Record
    BY <1>4, RecordFields DEF CInv, SInv, TInv, TypeOK, CommitTerminal
  <2>2. /\ ~IsActive(processes'[k])
        /\ \A j \in Keys : j # k => processes'[j] = processes[j]
    BY <1>4, <2>1
    DEF CommitTerminal, CInv, SInv, TInv, TypeOK, Record, IsActive, ActiveStates
  <2>3. ActiveKeys' \subseteq ActiveKeys
    BY <2>2
  <2>4. \A j \in Sessions : sessions'[j].state = sessions[j].state
    <3>1. CASE processes[k].owner = None
      BY <1>4, <3>1 DEF CommitTerminal, DropRunKey
    <3>2. CASE processes[k].owner # None
      <4>1. /\ processes[k].owner \in Sessions
            /\ sessions[processes[k].owner] \in Session
        BY <1>4, <2>1, <3>2, Absent DEF CommitTerminal, Record, CInv, SInv, TInv, TypeOK
      <4> QED BY <1>4, <3>2, <4>1
              DEF CommitTerminal, DropRunKey, CInv, SInv, TInv, TypeOK, Session
    <3> QED BY <3>1, <3>2
  <2>5. workGeneration' = workGeneration + 1
    BY <1>4 DEF CommitTerminal, NextGeneration
  <2> QED BY <1>0, <2>3, <2>4, <2>5 DEF WorkChange
<1>5. ASSUME NEW i \in Sessions, NEW m \in Instances, OpenSession(i, m)
      PROVE  WorkChange
  <2>1. ActiveSessionIds' = ActiveSessionIds \cup {i}
    BY <1>5 DEF OpenSession, CInv, SInv, TInv, TypeOK, SessionActiveStates
  <2>2. LiveWork' = LiveWork \cup {i}
    BY <1>5, <2>1 DEF OpenSession
  <2>3. workGeneration' > workGeneration /\ intakeFence = NoFence
    BY <1>0, <1>5 DEF OpenSession, IntakeOpen
  <2> QED BY <2>2, <2>3 DEF WorkChange
<1>6. ASSUME NEW i \in Sessions, NEW from \in SUBSET SessionActiveStates,
             NEW to \in SessionActiveStates, SetClosing(i, from, to)
      PROVE  WorkChange
  <2>1. sessions[i] \in Session /\ sessions[i].state \in SessionActiveStates
    BY <1>6, Absent DEF SetClosing, CInv, SInv, TInv, TypeOK, SessionActiveStates
  <2>2. /\ sessions'[i].state = to
        /\ \A j \in Sessions : j # i => sessions'[j] = sessions[j]
    BY <1>6, <2>1 DEF SetClosing, CInv, SInv, TInv, TypeOK, Session
  <2>3. ActiveSessionIds' = ActiveSessionIds
    BY <2>1, <2>2
  <2> QED BY <1>6, <2>3 DEF SetClosing, WorkChange
<1>7. ASSUME NEW ids \in SUBSET Sessions, ids # {},
             Compact(ids)
      PROVE  WorkChange
  <2>1. Cardinality(ids) \in Nat /\ Cardinality(ids) > 0
    BY <1>7, CompactCardinality
  <2>2. \A i \in Sessions : sessions'[i] \in {sessions[i], NoSession}
    BY <1>7 DEF Compact
  <2>3. ActiveSessionIds' \subseteq ActiveSessionIds
    BY <2>2, Absent DEF SessionActiveStates
  <2>4. workGeneration' > workGeneration
    BY <1>0, <1>7, <2>1 DEF Compact
  <2> QED BY <1>7, <2>3, <2>4 DEF Compact, WorkChange
<1> QED BY <1>1, <1>2, <1>3, <1>4, <1>5, <1>6, <1>7

LEMMA StepChangesWork == CInv /\ [Next]_repoVars => WorkChange
<1> SUFFICES ASSUME CInv, [Next]_repoVars PROVE WorkChange
  OBVIOUS
<1> USE DEF LiveWork, ActiveKeys, ActiveSessionIds
<1>1. CASE UNCHANGED repoVars
  BY <1>1 DEF repoVars, WorkChange
<1>2. CASE Next
  <2>1. Operation
    BY <1>2, NextIsOperation DEF CInv, SInv, TInv
  <2>2. ASSUME NEW k \in Keys,
               \/ \E keepRun \in BOOLEAN : SaveIntent(k, keepRun)
               \/ CommitPrune(k)
               \/ FinishPrune(k)
        PROVE  WorkChange
    <3>1. ActiveKeys' = ActiveKeys
      BY <2>2, Absent DEF SaveIntent, CommitPrune, FinishPrune, Eligible, IsActive,
         ActiveStates, CInv, SInv, TInv, TypeOK
    <3> QED BY <2>2, <3>1 DEF SaveIntent, CommitPrune, FinishPrune, WorkChange
  <2>3. ASSUME NEW op \in Operations,
                \/ \E g \in Nat, idle \in BOOLEAN : InstallFence(op, g, idle)
                \/ ClearTerminalFence(op)
         PROVE  WorkChange
    BY <2>3 DEF InstallFence, ClearTerminalFence, WorkChange
  <2>4. {} \in SUBSET Readers
    OBVIOUS
  <2>5. \A ids \in SUBSET {i \in ActiveSessionIds : SessionEmpty(i)} : ids \in SUBSET Sessions
    OBVIOUS
  <2> HIDE DEF LiveWork, ActiveKeys, ActiveSessionIds
  <2> QED BY <2>1, <2>2, <2>3, <2>4, <2>5, MovesChangeWork DEF Operation
<1> QED BY <1>1, <1>2

\* No run and no session begins or ends without a new work generation: a stop that
\* sees the generation it expects sees the work it expects.
THEOREM GenerationTracksWork == Spec => GenerationSeesWork
<1>1. CInv /\ [Next]_repoVars =>
        [/\ workGeneration' >= workGeneration
         /\ LiveWork' # LiveWork => workGeneration' > workGeneration]_repoVars
  <2>1. CInv => workGeneration \in Nat
    BY DEF CInv, SInv, TInv, TypeOK
  <2>2. CInv /\ [Next]_repoVars => workGeneration' \in Nat
    BY CInvStep DEF CInv, SInv, TInv, TypeOK
  <2> QED BY <2>1, <2>2, StepChangesWork DEF WorkChange
<1> QED BY CInvAlways, <1>1, PTL DEF Spec, GenerationSeesWork

\* Behind the intake fence of a stop or a restart work can only drain.
THEOREM FenceHoldsWork == Spec => FenceDrainsWork
<1>1. CInv /\ [Next]_repoVars =>
        [intakeFence # NoFence => LiveWork' \subseteq LiveWork]_repoVars
  BY StepChangesWork DEF WorkChange
<1> QED BY CInvAlways, <1>1, PTL DEF Spec, FenceDrainsWork

\* Only the operation that installs the fence, and the one that lifts it, changes it.
LEMMA FenceMoves ==
  ASSUME CInv, [Next]_repoVars, intakeFence' # intakeFence
  PROVE  \E op \in Operations :
           \/ \E g \in Nat, idle \in BOOLEAN : InstallFence(op, g, idle)
           \/ ClearTerminalFence(op)
<1>1. Operation
  BY NextIsOperation DEF CInv, SInv, TInv, repoVars
<1> QED BY <1>1 DEF Operation, Reserve, UpdateActive, ExpireClaim, CommitTerminal,
           SaveIntent, CommitPrune, FinishPrune, OpenSession, SetClosing, Compact

LEMMA StepKeepsIntake ==
  ASSUME CInv, [Next]_repoVars
  PROVE  [Intake!Next]_(Intake!fenceVars)
<1>1. CASE intakeFence' = intakeFence
  <2>1. CASE LiveWork' \subseteq LiveWork
    BY <1>1, <2>1 DEF Intake!Next, Intake!Drain
  <2>2. ASSUME NEW w \in Keys \cup Sessions, LiveWork' = LiveWork \cup {w}, intakeFence = NoFence
        PROVE  Intake!Next
    BY <1>1, <2>2 DEF Intake!Next, Intake!Admit, NoFence
  <2> QED BY <2>1, <2>2, StepChangesWork DEF WorkChange
<1>2. ASSUME NEW op \in Operations, NEW g \in Nat, NEW idle \in BOOLEAN, InstallFence(op, g, idle)
      PROVE  Intake!Next
  <2>1. intakeFence.op = None /\ intakeFence'.op = op /\ LiveWork' = LiveWork
    BY <1>2 DEF InstallFence, NoFence, LiveWork, ActiveKeys, ActiveSessionIds
  <2> QED BY <2>1 DEF Intake!Next, Intake!Install
<1>3. ASSUME NEW op \in Operations, ClearTerminalFence(op) PROVE Intake!Next
  <2>1. LiveWork = {} /\ intakeFence'.op = None /\ LiveWork' = LiveWork
    BY <1>3 DEF ClearTerminalFence, NoFence, LiveWork, ActiveKeys, ActiveSessionIds
  <2> QED BY <2>1 DEF Intake!Next, Intake!Lift
<1> QED BY <1>1, <1>2, <1>3, FenceMoves

\* What stop and restart rely on: until the fence is lifted, by its operation and with no
\* work left, none is admitted and no other operation is let in.
THEOREM IntakeIsKept == Spec => KeepsIntake
<1>1. Init => Intake!Init
  BY DEF Init, Intake!Init, NoFence, NoRecord, NoSession, LiveWork, ActiveKeys, ActiveSessionIds,
         IsActive, ActiveStates, SessionActiveStates
<1>2. CInv /\ [Next]_repoVars => [Intake!Next]_(Intake!fenceVars)
  BY StepKeepsIntake
<1> QED BY CInvAlways, <1>1, <1>2, PTL DEF Spec, KeepsIntake, Intake!Spec

LEMMA FenceStays ==
  ASSUME CInv, [Next]_repoVars, intakeFence' # intakeFence
  PROVE  \/ intakeFence' = NoFence
         \/ intakeFence'.idle => LiveWork' = {}
<1>1. ASSUME NEW op \in Operations, NEW g \in Nat, NEW idle \in BOOLEAN,
             InstallFence(op, g, idle)
      PROVE  intakeFence'.idle => LiveWork' = {}
  BY <1>1 DEF InstallFence, LiveWork, ActiveKeys, ActiveSessionIds
<1> QED BY <1>1, FenceMoves DEF ClearTerminalFence

\* A stop that asked for idleness never has anybody's work to stop, from the
\* moment its fence is in place until the fence is cleared.
THEOREM IdleStopIsIdle == Spec => []IdleFenceIsIdle
<1>1. Init => IdleFenceIsIdle
  BY DEF Init, IdleFenceIsIdle
<1>2. CInv /\ IdleFenceIsIdle /\ [Next]_repoVars => IdleFenceIsIdle'
  BY FenceStays, StepChangesWork DEF IdleFenceIsIdle, WorkChange
<1> QED BY CInvAlways, <1>1, <1>2, PTL DEF Spec

--------------------------------------------------------------------------------
(* Sessions that close, and the tombstones they leave.                       *)

LEMMA ClosingStep ==
  ASSUME CInv, [Next]_repoVars, NEW i \in Sessions,
         sessions[i].state \in SessionActiveStates \ {"open"}
  PROVE  /\ sessions'[i].state # "open"
         /\ sessions'[i].runKeys \subseteq sessions[i].runKeys
<1>1. sessions[i] \in Session /\ sessions[i] # NoSession /\ sessions[i].state # "open"
  BY Absent DEF CInv, SInv, TInv, TypeOK, SessionActiveStates
<1>2. CASE UNCHANGED repoVars
  BY <1>1, <1>2 DEF repoVars
<1>3. CASE Next
  <2>1. Operation
    BY <1>3, NextIsOperation DEF CInv, SInv, TInv
  <2>2. CASE sessions'[i] \in {sessions[i], NoSession}
    BY <1>1, <2>2, Absent
  <2>3. ASSUME NEW k \in Keys, NEW j \in Sessions \cup {None}, NEW m \in Instances,
               Reserve(k, j, m)
        PROVE  sessions'[i] = sessions[i]
    BY <1>1, <2>3 DEF Reserve, SessionAccepts, CInv, SInv, TInv, TypeOK
  <2>4. ASSUME NEW k \in Keys, NEW id \in ClaimIds, CommitTerminal(k, id)
        PROVE  /\ sessions'[i].state # "open"
               /\ sessions'[i].runKeys \subseteq sessions[i].runKeys
    <3>1. CASE processes[k].owner # i \/ processes[k].owner = None
      BY <1>1, <2>4, <3>1 DEF CommitTerminal, DropRunKey, CInv, SInv, TInv, TypeOK
    <3>2. CASE processes[k].owner = i /\ processes[k].owner # None
      BY <1>1, <2>4, <3>2
      DEF CommitTerminal, DropRunKey, CInv, SInv, TInv, TypeOK, Session
    <3> QED BY <3>1, <3>2
  <2>5. ASSUME NEW j \in Sessions, NEW m \in Instances, OpenSession(j, m)
        PROVE  sessions'[i] = sessions[i]
    BY <1>1, <2>5 DEF OpenSession, CInv, SInv, TInv, TypeOK, IdentitiesIssued
  <2>6. ASSUME NEW j \in Sessions, NEW from \in SUBSET SessionActiveStates,
               NEW to \in SessionActiveStates \ {"open"}, SetClosing(j, from, to)
        PROVE  /\ sessions'[i].state # "open"
               /\ sessions'[i].runKeys \subseteq sessions[i].runKeys
    BY <1>1, <2>6 DEF SetClosing, CInv, SInv, TInv, TypeOK, Session
  <2>7. ASSUME NEW ids \in SUBSET {j \in ActiveSessionIds : SessionEmpty(j)}, Compact(ids)
        PROVE  sessions'[i] \in {sessions[i], NoSession}
    BY <2>7 DEF Compact
  <2> QED BY <2>1, <2>2, <2>3, <2>4, <2>5, <2>6, <2>7
          DEF Operation, UpdateActive, ExpireClaim, SaveIntent, CommitPrune, FinishPrune,
              InstallFence, ClearTerminalFence
<1> QED BY <1>2, <1>3

\* Once its close or its expiry has been recorded, no start, however late, adds a
\* run to a session.
THEOREM ClosingSessionsDrain == Spec => ClosingSessionDrains
<1>1. CInv /\ [Next]_repoVars =>
        [\A i \in Sessions : sessions[i].state \in SessionActiveStates \ {"open"} =>
           /\ sessions'[i].state # "open"
           /\ sessions'[i].runKeys \subseteq sessions[i].runKeys]_repoVars
  BY ClosingStep
<1> QED BY CInvAlways, <1>1, PTL DEF Spec, ClosingSessionDrains

LEMMA BoundedAdd ==
  ASSUME TypeOK, TombstonesBounded, NEW ids \in SUBSET (Keys \cup Sessions),
         AddTombstones(ids)
  PROVE  TombstonesBounded'
<1> DEFINE all == tombstones \cup ids
           excess == Cardinality(all) - MaxTombstones
<1>1. PICK gone \in SUBSET Forgettable(ids) :
        /\ Cardinality(gone) = IF excess > 0 THEN excess ELSE 0
        /\ tombstones' = all \ gone
  BY DEF AddTombstones
<1>2. IsFiniteSet(all) /\ gone \subseteq all
  <2>1. IsFiniteSet(Keys \cup Sessions)
    BY FiniteAssumption, FS_Union
  <2>2. all \subseteq Keys \cup Sessions
    BY DEF TypeOK
  <2>3. gone \subseteq all
    BY <1>1 DEF Forgettable
  <2> QED BY <2>1, <2>2, <2>3, FS_Subset
<1>3. IsFiniteSet(gone) /\ Cardinality(gone) \in Nat /\ Cardinality(all) \in Nat
  BY <1>2, FS_Subset, FS_CardinalityType
<1>4. gone = all \cap gone
  BY <1>2
<1>5. Cardinality(all \ gone) = Cardinality(all) - Cardinality(gone)
  BY <1>2, <1>4, FS_Difference
<1> HIDE DEF all
<1> QED BY <1>1, <1>3, <1>5, LimitAssumption DEF TombstonesBounded

\* The tombstone table never outgrows history.maxTombstones.
THEOREM TombstonesStayBounded == Spec => []TombstonesBounded
<1>1. Init => TombstonesBounded
  BY FS_EmptySet, LimitAssumption DEF Init, TombstonesBounded
<1>2. CInv /\ TombstonesBounded /\ [Next]_repoVars => TombstonesBounded'
  <2> SUFFICES ASSUME CInv, TombstonesBounded, [Next]_repoVars PROVE TombstonesBounded'
    OBVIOUS
  <2>1. TypeOK
    BY DEF CInv, SInv, TInv
  <2>2. CASE UNCHANGED tombstones
    BY <2>2 DEF TombstonesBounded
  <2>3. ASSUME NEW ids \in SUBSET (Keys \cup Sessions), AddTombstones(ids)
        PROVE  TombstonesBounded'
    BY <2>1, <2>3, BoundedAdd
  <2>4. CASE Operation
    <3>1. ASSUME NEW k \in Keys, CommitPrune(k) PROVE TombstonesBounded'
      BY <2>3, <3>1 DEF CommitPrune
    <3>2. ASSUME NEW ids \in SUBSET {i \in ActiveSessionIds : SessionEmpty(i)}, Compact(ids)
          PROVE  TombstonesBounded'
      BY <2>3, <3>2 DEF Compact, ActiveSessionIds
    <3> QED BY <2>2, <2>4, <3>1, <3>2
            DEF Operation, Reserve, UpdateActive, ExpireClaim, CommitTerminal, SaveIntent,
                FinishPrune, OpenSession, SetClosing, InstallFence, ClearTerminalFence, history
  <2> QED BY <2>1, <2>2, <2>4, NextIsOperation DEF repoVars
<1> QED BY CInvAlways, <1>1, <1>2, PTL DEF Spec
================================================================================
