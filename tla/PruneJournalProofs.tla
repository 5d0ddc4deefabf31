-------------------------- MODULE PruneJournalProofs --------------------------
(* Proofs about PruneJournal, for any runs, sessions, coordinators and limits:  *)
(* files go last, evidence stays until then, nothing pruned comes back, and     *)
(* every step on the repository is one of its transactions.                     *)
EXTENDS PruneJournal, FiniteSetTheorems, TLAPS

-------------------------------------------------------------------------------
(* The invariant *)

\* Where the files of a run are, against what a state says of it: the one that
\* processes.json holds, or the backup of it.
RunSound(records, pending, tombs, k) ==
  /\ pending[k].phase \in {"quarantined", "committed"} => place[k] # "source"
  /\ pending[k].phase \in {"intent", "quarantined"} => k \in records
  /\ k \in records /\ place[k] = "gone" => pending[k].phase = "quarantined"
  /\ pending[k].phase = "committed" => k \notin records /\ k \in tombs
  /\ k \in tombs => k \notin records /\ place[k] # "source"

\* A run that is pruned is, as far as the backup knows, about to be.
Trails(b, k) == k \in b.recorded => b.journals[k].phase = "quarantined"

\* What a run is in the central state, against the directories and the backup.
CentralRun(k) ==
  /\ RunSound(recorded, journals, stones, k)
  /\ place[k] = "source" => k \in recorded
  /\ journals[k].phase = "committed" => Trails(backup, k)
  /\ k \in stones /\ journals[k] = NoJournal => k \notin backup.recorded

BackupSound ==
  /\ \A k \in Runs : RunSound(backup.recorded, backup.journals, backup.stones, k)
  /\ backup.retained \subseteq backup.stones
  /\ backup.stones \cap files = {}

SessionsSound == stones \cap closing = {} /\ files \subseteq closing

\* What a coordinator has established by the step it is at; others cannot undo it.
ThreadSound(t) ==
  LET k == thread[t].run
  IN  /\ thread[t].pc \notin {"idle", "next"} => k \in Runs
      /\ thread[t].pc \in {"mark", "verify", "commit", "prove", "remove", "pop"} =>
           place[k] # "source"
      /\ thread[t].pc \in {"prove", "remove", "pop"} => k \notin recorded /\ Trails(backup, k)

IInv ==
  /\ TypeOK
  /\ \A k \in Runs : CentralRun(k)
  /\ BackupSound /\ SessionsSound
  /\ \A t \in Threads : ThreadSound(t)

-------------------------------------------------------------------------------
(* Coordinators *)

ThreadsSound == thread \in [Threads -> Thread] /\ \A t \in Threads : ThreadSound(t)

\* The central state and the disk, without the coordinators.
CentralTyped ==
  /\ recorded \subseteq Runs
  /\ journals \in [Runs -> Journal \cup {NoJournal}]
  /\ stones \subseteq Runs \cup Sessions
  /\ retained \subseteq Runs \cap stones
  /\ closing \subseteq Sessions
  /\ backup \in State
  /\ place \in [Runs -> Places]
  /\ files \subseteq Sessions
  /\ faults \in 0..MaxFaults
CentralSound == CentralTyped /\ (\A k \in Runs : CentralRun(k)) /\ BackupSound /\ SessionsSound

LEMMA InvParts == IInv <=> CentralSound /\ ThreadsSound
BY DEF IInv, TypeOK, CentralTyped, CentralSound, ThreadsSound

LEMMA ThreadFields ==
  ASSUME ThreadsSound, NEW t \in Threads
  PROVE  /\ thread[t] \in Thread /\ thread[t].pc \in Steps /\ thread[t].todo \in SUBSET Runs
         /\ thread[t].run \in Runs \cup {None} /\ thread[t].keepRun \in BOOLEAN
         /\ thread[t].pc \notin {"idle", "next"} => thread[t].run \in Runs
BY DEF ThreadsSound, ThreadSound, Thread

LEMMA IdleTyped == Idle \in Thread
BY DEF Idle, Thread, Steps

LEMMA JournalFields ==
  ASSUME CentralTyped, NEW k \in Runs
  PROVE  /\ journals[k] = NoJournal \/ journals[k] \in Journal
         /\ journals[k] # NoJournal <=> journals[k].phase \in Phases
         /\ journals[k] = NoJournal <=> journals[k].phase = "none"
BY DEF CentralTyped, Journal, NoJournal, Phases

\* Nothing that a coordinator has established is undone by what the others do.
Forward ==
  /\ recorded' \subseteq recorded
  /\ \A k \in Runs : place'[k] = "source" => place[k] = "source"
  /\ \A k \in Runs : k \notin recorded /\ Trails(backup, k) => Trails(backup', k)

\* A coordinator that goes on has to have established what its next step relies on.
LEMMA ThreadMoves ==
  ASSUME CentralTyped, ThreadsSound, Forward, place' \in [Runs -> Places],
         NEW t \in Threads, NEW x \in Thread, thread' = [thread EXCEPT ![t] = x],
         x.pc \notin {"idle", "next"} => x.run \in Runs,
         x.pc \in {"mark", "verify", "commit", "prove", "remove", "pop"} => place'[x.run] # "source",
         x.pc \in {"prove", "remove", "pop"} => x.run \notin recorded' /\ Trails(backup', x.run)
  PROVE  ThreadsSound'
<1>1. thread' \in [Threads -> Thread]
  BY DEF ThreadsSound
<1>2. ASSUME NEW u \in Threads, u # t PROVE ThreadSound(u)'
  <2>1. thread'[u] = thread[u] /\ ThreadSound(u)
    BY <1>2 DEF ThreadsSound
  <2> QED BY <2>1 DEF ThreadSound, Forward
<1>3. thread'[t] = x
  BY DEF ThreadsSound
<1>4. ThreadSound(t)'
  BY <1>3 DEF ThreadSound, Trails
<1> QED BY <1>1, <1>2, <1>4 DEF ThreadsSound

LEMMA Raised ==
  ASSUME CentralTyped, ThreadsSound, Forward, place' \in [Runs -> Places],
         NEW t \in Threads, Raise(t)
  PROVE  ThreadsSound'
<1>1. Idle.pc = "idle"
  BY DEF Idle
<1> QED BY <1>1, IdleTyped, ThreadMoves DEF Raise

LEMMA Continued ==
  ASSUME CentralTyped, ThreadsSound, Forward, place' \in [Runs -> Places],
         NEW t \in Threads, Continue(t)
  PROVE  ThreadsSound'
<1> DEFINE x == [thread[t] EXCEPT !.pc = "next", !.run = None, !.keepRun = FALSE]
<1>1. x \in Thread /\ x.pc = "next"
  BY DEF ThreadsSound, Thread, Steps
<1>2. thread' = [thread EXCEPT ![t] = x]
  BY DEF Continue, ThreadsSound
<1> HIDE DEF x
<1> QED BY <1>1, <1>2, ThreadMoves

LEMMA WentOn ==
  ASSUME CentralTyped, ThreadsSound, Forward, place' \in [Runs -> Places],
         NEW t \in Threads, NEW pc \in Steps, Goto(t, pc), thread[t].run \in Runs,
         pc \in {"mark", "verify", "commit", "prove", "remove", "pop"} => place'[thread[t].run] # "source",
         pc \in {"prove", "remove", "pop"} => thread[t].run \notin recorded' /\ Trails(backup', thread[t].run)
  PROVE  ThreadsSound'
<1> DEFINE k == thread[t].run
           x == [thread[t] EXCEPT !.pc = pc]
<1>1. x \in Thread /\ x.pc = pc /\ x.run = k
  BY DEF ThreadsSound, Thread
<1>2. thread' = [thread EXCEPT ![t] = x]
  BY DEF Goto, ThreadsSound
<1>3. pc \in {"prove", "remove", "pop"} => x.run \notin recorded' /\ Trails(backup', x.run)
  BY <1>1 DEF Trails
<1> HIDE DEF x
<1> QED BY <1>1, <1>2, <1>3, ThreadMoves
-------------------------------------------------------------------------------
(* The steps *)

\* A step that changes neither what is saved nor where files are.
LEMMA CentralKept ==
  ASSUME CentralSound, UNCHANGED <<repository, disk>>, faults' \in 0..MaxFaults
  PROVE  /\ CentralSound' /\ Forward
         /\ place' \in [Runs -> Places]
<1>1. UNCHANGED <<recorded, journals, stones, retained, closing, backup, place, files>>
  BY DEF repository, disk
<1>2. CentralTyped'
  BY <1>1 DEF CentralSound, CentralTyped
<1>3. \A k \in Runs : CentralRun(k)'
  BY <1>1 DEF CentralSound, CentralRun, RunSound, Trails
<1>4. BackupSound'
  BY <1>1 DEF CentralSound, BackupSound, RunSound
<1>5. SessionsSound'
  BY <1>1 DEF CentralSound, SessionsSound
<1>6. Forward /\ place' \in [Runs -> Places]
  BY <1>1 DEF Forward, Trails, CentralSound, CentralTyped
<1> QED BY <1>2, <1>3, <1>4, <1>5, <1>6 DEF CentralSound

\* What a save makes the backup is as sound as the state was, and behind it.
LEMMA SavedSound ==
  ASSUME CentralSound, Save, UNCHANGED place, files' \subseteq files, recorded' \subseteq recorded
  PROVE  /\ backup' \in State /\ BackupSound' /\ Forward
         /\ backup'.recorded = recorded /\ backup'.journals = journals
         /\ place' \in [Runs -> Places]
<1>1. /\ backup'.recorded = recorded /\ backup'.journals = journals /\ backup'.stones = stones
      /\ backup'.retained = retained /\ backup'.closing = closing
  BY DEF Save, Central
<1>2. backup' \in State
  BY DEF Save, Central, State, CentralSound, CentralTyped
<1>3. BackupSound'
  <2>1. \A k \in Runs : RunSound(backup.recorded, backup.journals, backup.stones, k)'
    BY <1>1 DEF CentralSound, CentralRun, RunSound
  <2>2. backup'.retained \subseteq backup'.stones /\ backup'.stones \cap files' = {}
    BY <1>1 DEF CentralSound, CentralTyped, SessionsSound
  <2> QED BY <2>1, <2>2 DEF BackupSound
<1>4. Forward /\ place' \in [Runs -> Places]
  BY <1>1 DEF Forward, Trails, CentralSound, CentralTyped
<1> QED BY <1>1, <1>2, <1>3, <1>4

\* A save after which every run is sound again.
LEMMA SaveSound ==
  ASSUME CentralSound, Save, UNCHANGED <<place, faults>>, files' \subseteq files, recorded' \subseteq recorded,
         journals' \in [Runs -> Journal \cup {NoJournal}], stones' \subseteq Runs \cup Sessions,
         retained' \subseteq Runs \cap stones', closing' \subseteq closing,
         SessionsSound', \A k \in Runs : RunSound(recorded', journals', stones', k),
         \A k \in Runs : k \in recorded => k \in recorded' \/ journals'[k].phase = "committed",
         \A k \in Runs : journals'[k].phase = "committed" /\ k \in recorded => journals[k].phase = "quarantined",
         \A k \in Runs : k \in stones' /\ journals'[k] = NoJournal => k \notin recorded
  PROVE  CentralSound'
<1>1. /\ backup' \in State /\ BackupSound'
      /\ backup'.recorded = recorded /\ backup'.journals = journals
  BY SavedSound
<1>2. CentralTyped'
  BY <1>1 DEF CentralSound, CentralTyped
<1>3. ASSUME NEW k \in Runs PROVE CentralRun(k)'
  <2>1. RunSound(recorded, journals, stones, k)'
    BY DEF RunSound
  <2>2. place'[k] = "source" => k \in recorded'
    BY <2>1 DEF RunSound, CentralSound, CentralRun
  <2>3. journals'[k].phase = "committed" => Trails(backup', k)
    BY <1>1 DEF Trails
  <2> QED BY <1>1, <2>1, <2>2, <2>3 DEF CentralRun
<1> QED BY <1>1, <1>2, <1>3 DEF CentralSound

\* What _add_tombstone leaves of the table.
LEMMA StonesAfter ==
  ASSUME CentralTyped, NEW id \in Runs \cup Sessions, NEW table \in WithTombstone(id)
  PROVE  /\ table \subseteq Runs \cup Sessions /\ id \in table
         /\ table \subseteq stones \cup {id}
         /\ stones \cap (retained \cup Journaled) \subseteq table
  BY DEF CentralTyped, WithTombstone, Trimmable, Pinned

LEMMA BeginSound ==
  ASSUME CentralSound, ThreadsSound, NEW t \in Threads, Begin(t)
  PROVE  CentralSound' /\ ThreadsSound'
<1>1. /\ CentralSound' /\ Forward
      /\ place' \in [Runs -> Places]
  BY CentralKept DEF Begin, CentralSound, CentralTyped
<1> DEFINE x == [thread[t] EXCEPT !.pc = "next", !.todo = Journaled]
<1>2. x \in Thread /\ x.pc = "next"
  BY DEF ThreadsSound, Thread, Steps, Journaled
<1>3. thread' = [thread EXCEPT ![t] = x]
  BY DEF Begin, ThreadsSound
<1> HIDE DEF x
<1> QED BY <1>1, <1>2, <1>3, ThreadMoves DEF CentralSound

LEMMA CloseSessionSound ==
  ASSUME CentralSound, ThreadsSound, NEW t \in Threads, NEW i \in Sessions, CloseSession(t, i)
  PROVE  CentralSound' /\ ThreadsSound'
<1>1. /\ Save /\ UNCHANGED <<recorded, journals, retained, place, faults>>
      /\ closing' = closing \ {i} /\ files' = files \ {i} /\ stones' \in WithTombstone(i)
  BY DEF CloseSession
<1>2. /\ stones' \subseteq Runs \cup Sessions /\ stones' \subseteq stones \cup {i}
      /\ stones \cap (retained \cup Journaled) \subseteq stones'
  BY <1>1, StonesAfter DEF CentralSound
<1>3. i \notin Runs
  BY PruneAssumption
<1>4. ASSUME NEW k \in Runs PROVE RunSound(recorded', journals', stones', k)
  <2>1. journals[k].phase = "committed" => k \in Journaled
    BY JournalFields DEF CentralSound, Journaled, Phases
  <2> QED BY <1>1, <1>2, <1>3, <2>1 DEF CentralSound, CentralRun, RunSound
<1>5. SessionsSound'
  BY <1>1, <1>2 DEF CentralSound, SessionsSound
<1>6. CentralTyped /\ retained' \subseteq Runs \cap stones'
  BY <1>1, <1>2 DEF CentralSound, CentralTyped
<1>7. \A k \in Runs : k \in stones' /\ journals'[k] = NoJournal => k \notin recorded
  BY <1>2, <1>3 DEF CentralSound, CentralRun, RunSound
<1>8. \A k \in Runs : journals'[k].phase = "committed" => k \notin recorded
  BY <1>1 DEF CentralSound, CentralRun, RunSound
<1>9. CentralSound'
  BY <1>1, <1>2, <1>4, <1>5, <1>6, <1>7, <1>8, SaveSound DEF CentralTyped
<1>10. Forward /\ place' \in [Runs -> Places]
  BY <1>1, SavedSound
<1> DEFINE x == [thread[t] EXCEPT !.pc = "next", !.todo = Journaled]
<1>11. x \in Thread /\ x.pc = "next"
  BY DEF ThreadsSound, Thread, Steps, Journaled
<1>12. thread' = [thread EXCEPT ![t] = x]
  BY DEF CloseSession, ThreadsSound
<1> HIDE DEF x
<1>13. ThreadsSound'
  BY <1>6, <1>10, <1>11, <1>12, ThreadMoves
<1> QED BY <1>9, <1>13

LEMMA ResumeJournalSound ==
  ASSUME CentralSound, ThreadsSound, NEW t \in Threads, ResumeJournal(t)
  PROVE  CentralSound' /\ ThreadsSound'
<1>1. /\ CentralSound' /\ Forward
      /\ place' \in [Runs -> Places] /\ UNCHANGED <<repository, disk>>
  BY CentralKept DEF ResumeJournal, CentralSound, CentralTyped
<1>2. PICK k \in thread[t].todo : thread' = [thread EXCEPT ![t] =
         IF journals[k] = NoJournal THEN [@ EXCEPT !.todo = thread[t].todo \ {k}]
         ELSE [@ EXCEPT !.pc = StepOf(journals[k].phase), !.todo = thread[t].todo \ {k},
                        !.run = k, !.keepRun = journals[k].keepRun]]
  BY DEF ResumeJournal
<1>3. k \in Runs
  BY ThreadFields
<1>4. CASE journals[k] = NoJournal
  <2> DEFINE x == [thread[t] EXCEPT !.todo = @ \ {k}]
  <2>1. x \in Thread /\ x.pc = "next"
    BY DEF ThreadsSound, Thread, ResumeJournal
  <2>2. thread' = [thread EXCEPT ![t] = x]
    BY <1>2, <1>4
  <2> HIDE DEF x
  <2> QED BY <1>1, <2>1, <2>2, ThreadMoves DEF CentralSound
<1>5. CASE journals[k] # NoJournal
  <2> DEFINE x == [thread[t] EXCEPT !.pc = StepOf(journals[k].phase), !.todo = @ \ {k}, !.run = k,
                                    !.keepRun = journals[k].keepRun]
  <2>1. journals[k].phase \in Phases /\ journals[k].keepRun \in BOOLEAN
    BY <1>3, <1>5, JournalFields DEF CentralSound, Journal
  <2>2. /\ StepOf(journals[k].phase) \in {"check", "verify", "prove"}
        /\ StepOf(journals[k].phase) # "check" => journals[k].phase \in {"quarantined", "committed"}
        /\ StepOf(journals[k].phase) = "prove" => journals[k].phase = "committed"
    BY <2>1 DEF StepOf, Phases
  <2>3. x \in Thread /\ x.pc = StepOf(journals[k].phase) /\ x.run = k
    BY <1>3, <2>1, <2>2 DEF ThreadsSound, Thread, Steps
  <2>4. thread' = [thread EXCEPT ![t] = x]
    BY <1>2, <1>5
  <2>5. /\ CentralRun(k) /\ place'[k] = place[k] /\ recorded' = recorded /\ backup' = backup
    BY <1>1, <1>3 DEF CentralSound, repository, disk
  <2>6. x.pc # "check" => place'[x.run] # "source"
    BY <2>2, <2>3, <2>5 DEF CentralRun, RunSound
  <2>7. x.pc = "prove" => x.run \notin recorded' /\ Trails(backup', x.run)
    BY <2>2, <2>3, <2>5 DEF CentralRun, RunSound, Trails
  <2> HIDE DEF x
  <2> QED BY <1>1, <1>3, <2>2, <2>3, <2>4, <2>6, <2>7, ThreadMoves DEF CentralSound
<1> QED BY <1>4, <1>5

LEMMA PlanSound ==
  ASSUME CentralSound, ThreadsSound, NEW t \in Threads, Plan(t)
  PROVE  CentralSound' /\ ThreadsSound'
<1>1. /\ CentralSound' /\ Forward
      /\ place' \in [Runs -> Places]
  BY CentralKept DEF Plan, CentralSound, CentralTyped
<1>2. CASE Raise(t)
  BY <1>1, <1>2, Raised DEF CentralSound
<1>3. CASE ~Raise(t)
  <2>1. PICK candidates \in SUBSET recorded :
          thread' = [thread EXCEPT ![t].todo = candidates, ![t].planned = TRUE]
    BY <1>3 DEF Plan
  <2> DEFINE x == [thread[t] EXCEPT !.todo = candidates, !.planned = TRUE]
  <2>2. x \in Thread /\ x.pc = "next"
    <3>1. candidates \in SUBSET Runs /\ thread[t].pc = "next" /\ thread[t] \in Thread
      BY DEF ThreadsSound, Plan, CentralSound, CentralTyped
    <3> QED BY <3>1 DEF Thread
  <2>3. thread' = [thread EXCEPT ![t] = x]
    BY <2>1 DEF ThreadsSound
  <2> HIDE DEF x
  <2> QED BY <1>1, <2>2, <2>3, ThreadMoves DEF CentralSound
<1> QED BY <1>2, <1>3

LEMMA SaveIntentSound ==
  ASSUME CentralSound, ThreadsSound, NEW t \in Threads, SaveIntent(t)
  PROVE  CentralSound' /\ ThreadsSound'
<1>1. PICK k \in thread[t].todo :
       IF k \in recorded /\ Cardinality(Journaled) < MaxPendingPrunes /\ journals[k] = NoJournal
       THEN \E keepRun \in BOOLEAN :
              /\ Save
              /\ journals' = [journals EXCEPT ![k] = [phase |-> "intent", keepRun |-> keepRun]]
              /\ thread' = [thread EXCEPT ![t] = [@ EXCEPT !.pc = "check", !.run = k,
                               !.keepRun = keepRun, !.todo = thread[t].todo \ {k}]]
       ELSE Raise(t) /\ UNCHANGED <<journals, backup>>
  BY DEF SaveIntent
<1>2. k \in Runs
  BY ThreadFields
<1>3. UNCHANGED <<recorded, stones, retained, closing, place, files, faults>>
  BY DEF SaveIntent, disk
<1>4. CASE Raise(t) /\ UNCHANGED <<journals, backup>>
  <2>1. CentralSound' /\ Forward /\ place' \in [Runs -> Places]
    BY <1>3, <1>4, CentralKept DEF CentralSound, CentralTyped, repository, disk
  <2> QED BY <1>4, <2>1, Raised DEF CentralSound
<1>5. CASE ~(Raise(t) /\ UNCHANGED <<journals, backup>>)
  <2>1. PICK keepRun \in BOOLEAN :
              /\ Save /\ k \in recorded /\ journals[k] = NoJournal
              /\ journals' = [journals EXCEPT ![k] = [phase |-> "intent", keepRun |-> keepRun]]
              /\ thread' = [thread EXCEPT ![t] = [@ EXCEPT !.pc = "check", !.run = k,
                               !.keepRun = keepRun, !.todo = thread[t].todo \ {k}]]
    BY <1>1, <1>5
  <2>2. [phase |-> "intent", keepRun |-> keepRun] \in Journal
    BY DEF Journal, Phases
  <2>3. /\ journals' \in [Runs -> Journal \cup {NoJournal}]
        /\ journals'[k].phase = "intent"
        /\ \A r \in Runs : r # k => journals'[r] = journals[r]
    BY <1>2, <2>1, <2>2 DEF CentralSound, CentralTyped
  <2>4. place[k] # "gone"
    BY <1>2, <2>1 DEF CentralSound, CentralRun, RunSound, NoJournal
  <2>5. ASSUME NEW r \in Runs
        PROVE  /\ RunSound(recorded', journals', stones', r)
               /\ journals'[r].phase = "committed" => r \notin recorded
               /\ r \in stones' => r \notin recorded
    <3>1. CentralRun(r)
      BY DEF CentralSound
    <3>2. CASE r = k
      BY <1>3, <2>1, <2>3, <2>4, <3>1, <3>2 DEF CentralRun, RunSound
    <3>3. CASE r # k
      BY <1>3, <2>3, <3>1, <3>3 DEF CentralRun, RunSound
    <3> QED BY <3>2, <3>3
  <2>6. SessionsSound'
    BY <1>3 DEF CentralSound, SessionsSound
  <2>7. CentralSound'
    BY <1>3, <2>1, <2>3, <2>5, <2>6, SaveSound DEF CentralSound, CentralTyped
  <2>8. Forward /\ place' \in [Runs -> Places]
    BY <1>3, <2>1, SavedSound
  <2> DEFINE x == [thread[t] EXCEPT !.pc = "check", !.run = k, !.keepRun = keepRun, !.todo = @ \ {k}]
  <2>9. x \in Thread /\ x.pc = "check" /\ x.run = k
    BY <1>2 DEF ThreadsSound, Thread, Steps
  <2>10. thread' = [thread EXCEPT ![t] = x]
    BY <2>1
  <2> HIDE DEF x
  <2>11. ThreadsSound'
    BY <1>2, <2>8, <2>9, <2>10, ThreadMoves DEF CentralSound
  <2> QED BY <2>7, <2>11
<1> QED BY <1>4, <1>5

LEMMA FinishSound ==
  ASSUME CentralSound, ThreadsSound, NEW t \in Threads, Finish(t)
  PROVE  CentralSound' /\ ThreadsSound'
<1>1. /\ CentralSound' /\ Forward
      /\ place' \in [Runs -> Places]
  BY CentralKept DEF Finish, CentralSound, CentralTyped
<1> QED BY <1>1, Raised DEF Finish, Raise, CentralSound

LEMMA CheckMoveSound ==
  ASSUME CentralSound, ThreadsSound, NEW t \in Threads, CheckMove(t)
  PROVE  CentralSound' /\ ThreadsSound'
<1>1. /\ CentralSound' /\ Forward
      /\ place' \in [Runs -> Places] /\ place' = place
  BY CentralKept DEF CheckMove, disk, CentralSound, CentralTyped
<1>2. thread[t].run \in Runs
  BY ThreadFields DEF CheckMove
<1>3. CASE Raise(t)
  BY <1>1, <1>3, Raised DEF CentralSound
<1>4. CASE Goto(t, "rename")
  BY <1>1, <1>2, <1>4, WentOn DEF CentralSound, Steps
<1>5. CASE AlreadyMoved(t) /\ Goto(t, "mark")
  <2>1. place'[thread[t].run] # "source"
    BY <1>1, <1>5 DEF AlreadyMoved, Target
  <2> QED BY <1>1, <1>2, <1>5, <2>1, WentOn DEF CentralSound, Steps
<1> QED BY <1>3, <1>4, <1>5 DEF CheckMove

LEMMA RenameSound ==
  ASSUME CentralSound, ThreadsSound, NEW t \in Threads, Rename(t)
  PROVE  CentralSound' /\ ThreadsSound'
<1> DEFINE k == thread[t].run
<1>1. k \in Runs
  BY ThreadFields DEF Rename
<1>2. UNCHANGED <<recorded, journals, stones, retained, closing, backup, files, faults>>
  BY DEF Rename, repository
<1>3. CASE Raise(t) /\ UNCHANGED place
  <2>1. CentralSound' /\ Forward /\ place' \in [Runs -> Places]
    BY <1>2, <1>3, CentralKept DEF CentralSound, CentralTyped, repository, disk
  <2> QED BY <1>3, <2>1, Raised DEF CentralSound
<1>4. CASE place' = [place EXCEPT ![k] = MovedTo(t)] /\ Goto(t, "mark") /\ Movable(t)
  <2>1. MovedTo(t) \in {"aside", "quarantine"} /\ place[k] # "gone"
    BY <1>4 DEF MovedTo, Target, Movable
  <2>2. /\ place' \in [Runs -> Places] /\ place'[k] \notin {"source", "gone"}
        /\ \A r \in Runs : r # k => place'[r] = place[r]
    BY <1>1, <1>4, <2>1 DEF CentralSound, CentralTyped, Places
  <2>3. Forward
    BY <1>2, <2>2 DEF Forward, Trails
  <2>4. CentralTyped'
    BY <1>2, <2>2 DEF CentralSound, CentralTyped
  <2>5. ASSUME NEW r \in Runs PROVE CentralRun(r)'
    BY <1>2, <2>2 DEF CentralSound, CentralRun, RunSound, Trails
  <2>6. BackupSound' /\ SessionsSound'
    BY <1>2, <2>2 DEF CentralSound, BackupSound, SessionsSound, RunSound
  <2>7. ThreadsSound'
    BY <1>1, <1>4, <2>2, <2>3, WentOn DEF CentralSound, Steps
  <2> QED BY <2>4, <2>5, <2>6, <2>7 DEF CentralSound
<1> QED BY <1>3, <1>4 DEF Rename

LEMMA MarkSound ==
  ASSUME CentralSound, ThreadsSound, NEW t \in Threads, MarkQuarantined(t)
  PROVE  CentralSound' /\ ThreadsSound'
<1> DEFINE k == thread[t].run
<1>1. k \in Runs /\ place[k] # "source"
  BY ThreadFields DEF MarkQuarantined, ThreadsSound, ThreadSound
<1>2. UNCHANGED <<recorded, stones, retained, closing, place, files, faults>>
  BY DEF MarkQuarantined, disk
<1>3. CASE Raise(t) /\ UNCHANGED <<journals, backup>>
  <2>1. CentralSound' /\ Forward /\ place' \in [Runs -> Places]
    BY <1>2, <1>3, CentralKept DEF CentralSound, CentralTyped, repository, disk
  <2> QED BY <1>3, <2>1, Raised DEF CentralSound
<1>4. CASE MarkAllowed(k)
  <2>1. Save /\ journals' = [journals EXCEPT ![k].phase = "quarantined"] /\ Goto(t, "verify")
    BY <1>4 DEF MarkQuarantined
  <2>2. journals[k] \in Journal /\ journals[k].phase \in {"intent", "quarantined"}
    BY <1>1, <1>4, JournalFields DEF MarkAllowed, CentralSound, Phases
  <2>3. /\ journals' \in [Runs -> Journal \cup {NoJournal}]
        /\ journals'[k].phase = "quarantined" /\ journals'[k] # NoJournal
        /\ \A r \in Runs : r # k => journals'[r] = journals[r]
    BY <1>1, <2>1, <2>2 DEF CentralSound, CentralTyped, Journal, NoJournal, Phases
  <2>4. ASSUME NEW r \in Runs
        PROVE  /\ RunSound(recorded', journals', stones', r)
               /\ journals'[r].phase = "committed" => r \notin recorded
               /\ r \in stones' => r \notin recorded
    <3>1. CentralRun(r)
      BY DEF CentralSound
    <3>2. CASE r = k
      BY <1>1, <1>2, <2>2, <2>3, <3>1, <3>2 DEF CentralRun, RunSound
    <3>3. CASE r # k
      BY <1>2, <2>3, <3>1, <3>3 DEF CentralRun, RunSound
    <3> QED BY <3>2, <3>3
  <2>5. SessionsSound'
    BY <1>2 DEF CentralSound, SessionsSound
  <2>6. CentralSound'
    BY <1>2, <2>1, <2>3, <2>4, <2>5, SaveSound DEF CentralSound, CentralTyped
  <2>7. Forward /\ place' \in [Runs -> Places]
    BY <1>2, <2>1, SavedSound
  <2>8. ThreadsSound'
    BY <1>1, <1>2, <2>1, <2>7, WentOn DEF CentralSound, Steps
  <2> QED BY <2>6, <2>8
<1> QED BY <1>3, <1>4 DEF MarkQuarantined

LEMMA VerifySound ==
  ASSUME CentralSound, ThreadsSound, NEW t \in Threads, VerifyQuarantine(t)
  PROVE  CentralSound' /\ ThreadsSound'
<1>1. /\ CentralSound' /\ Forward
      /\ place' \in [Runs -> Places] /\ place' = place
  BY CentralKept DEF VerifyQuarantine, disk, CentralSound, CentralTyped
<1>2. thread[t].run \in Runs /\ place'[thread[t].run] # "source"
  BY <1>1, ThreadFields DEF VerifyQuarantine, ThreadsSound, ThreadSound
<1>3. CASE Raise(t)
  BY <1>1, <1>3, Raised DEF CentralSound
<1>4. CASE Goto(t, "commit")
  BY <1>1, <1>2, <1>4, WentOn DEF CentralSound, Steps
<1> QED BY <1>3, <1>4 DEF VerifyQuarantine

LEMMA CommitSound ==
  ASSUME CentralSound, ThreadsSound, NEW t \in Threads, Commit(t)
  PROVE  CentralSound' /\ ThreadsSound'
<1> DEFINE k == thread[t].run
<1>1. k \in Runs /\ place[k] # "source"
  BY ThreadFields DEF Commit, ThreadsSound, ThreadSound
<1>2. UNCHANGED <<place, files, faults>>
  BY DEF Commit, disk
<1>3. CASE UNCHANGED repository
  <2>1. CentralSound' /\ Forward /\ place' \in [Runs -> Places]
    BY <1>2, <1>3, CentralKept DEF CentralSound, CentralTyped, disk
  <2>2. CASE Raise(t)
    BY <2>1, <2>2, Raised DEF CentralSound
  <2>3. CASE journals[k].phase = "committed" /\ Goto(t, "prove")
    <3>1. k \notin recorded' /\ Trails(backup', k) /\ place'[k] # "source"
      BY <1>1, <1>2, <1>3, <2>3 DEF CentralSound, CentralRun, RunSound, Trails, repository
    <3> QED BY <1>1, <2>1, <2>3, <3>1, WentOn DEF CentralSound, Steps
  <2>4. CASE ~Raise(t) /\ ~(journals[k].phase = "committed" /\ Goto(t, "prove"))
    BY <1>1, <1>3, <2>4 DEF Commit, repository, CentralSound, CentralTyped
  <2> QED BY <2>2, <2>3, <2>4
<1>4. CASE /\ journals[k].phase = "quarantined" /\ k \in recorded /\ Save
           /\ recorded' = recorded \ {k}
           /\ journals' = [journals EXCEPT ![k].phase = "committed"]
           /\ stones' \in WithTombstone(k)
           /\ retained' = IF journals[k].keepRun THEN retained \cup {k} ELSE retained
           /\ Goto(t, "prove")
           /\ UNCHANGED closing
  <2>1. /\ stones' \subseteq Runs \cup Sessions /\ stones' \subseteq stones \cup {k}
        /\ stones \cap (retained \cup Journaled) \subseteq stones' /\ k \in stones'
    BY <1>1, <1>4, StonesAfter DEF CentralSound
  <2>2. journals[k] \in Journal
    BY <1>1, <1>4, JournalFields DEF CentralSound, NoJournal
  <2>3. /\ journals' \in [Runs -> Journal \cup {NoJournal}]
        /\ journals'[k].phase = "committed" /\ journals'[k] # NoJournal
        /\ \A r \in Runs : r # k => journals'[r] = journals[r]
    BY <1>1, <1>4, <2>2 DEF CentralSound, CentralTyped, Journal, NoJournal, Phases
  <2>4. retained' \subseteq Runs \cap stones'
    BY <1>1, <1>4, <2>1 DEF CentralSound, CentralTyped
  <2>5. ASSUME NEW r \in Runs
        PROVE  /\ RunSound(recorded', journals', stones', r)
               /\ journals'[r].phase = "committed" /\ r \in recorded => journals[r].phase = "quarantined"
               /\ r \in stones' /\ journals'[r] = NoJournal => r \notin recorded
    <3>1. CentralRun(r)
      BY DEF CentralSound
    <3>2. CASE r = k
      BY <1>1, <1>2, <1>4, <2>1, <2>3, <3>2 DEF RunSound
    <3>3. CASE r # k
      <4>1. journals[r].phase = "committed" => r \in Journaled
        BY JournalFields DEF CentralSound, Journaled, Phases
      <4> QED BY <1>2, <1>4, <2>1, <2>3, <3>1, <3>3, <4>1 DEF CentralRun, RunSound
    <3> QED BY <3>2, <3>3
  <2>6. SessionsSound'
    <3>1. k \notin closing
      BY <1>1, PruneAssumption DEF CentralSound, CentralTyped
    <3> QED BY <1>2, <1>4, <2>1, <3>1 DEF CentralSound, SessionsSound
  <2>7. \A r \in Runs : r \in recorded => r \in recorded' \/ journals'[r].phase = "committed"
    BY <1>4, <2>3
  <2>8. recorded' \subseteq recorded /\ closing' \subseteq closing /\ files' \subseteq files
    BY <1>2, <1>4
  <2>9. CentralSound'
    BY <1>2, <1>4, <2>1, <2>3, <2>4, <2>5, <2>6, <2>7, <2>8, SaveSound
  <2>10. /\ Forward /\ place' \in [Runs -> Places] /\ k \notin recorded'
         /\ backup'.recorded = recorded /\ backup'.journals = journals
    BY <1>2, <1>4, <2>8, SavedSound
  <2>11. Trails(backup', k)
    BY <1>4, <2>10 DEF Trails
  <2>12. place'[k] # "source"
    BY <1>1, <1>2
  <2>13. ThreadsSound'
    BY <1>1, <1>4, <2>10, <2>11, <2>12, WentOn DEF CentralSound, Steps
  <2> QED BY <2>9, <2>13
<1> QED BY <1>3, <1>4 DEF Commit

LEMMA ProveCommitSound ==
  ASSUME CentralSound, ThreadsSound, NEW t \in Threads, ProveCommit(t)
  PROVE  CentralSound' /\ ThreadsSound'
<1> DEFINE k == thread[t].run
<1>1. /\ CentralSound' /\ Forward
      /\ place' \in [Runs -> Places] /\ UNCHANGED <<repository, disk>>
  BY CentralKept DEF ProveCommit, CentralSound, CentralTyped
<1>2. k \in Runs /\ place'[k] # "source" /\ k \notin recorded' /\ Trails(backup', k)
  BY <1>1, ThreadFields DEF ProveCommit, ThreadsSound, ThreadSound, Trails, repository, disk
<1>3. CASE Raise(t)
  BY <1>1, <1>3, Raised DEF CentralSound
<1>4. CASE Goto(t, "remove")
  BY <1>1, <1>2, <1>4, WentOn DEF CentralSound, Steps
<1> QED BY <1>3, <1>4 DEF ProveCommit

LEMMA RemoveFilesSound ==
  ASSUME CentralSound, ThreadsSound, NEW t \in Threads, RemoveFiles(t)
  PROVE  CentralSound' /\ ThreadsSound'
<1> DEFINE k == thread[t].run
<1>1. k \in Runs /\ place[k] # "source" /\ k \notin recorded /\ Trails(backup, k)
  BY ThreadFields DEF RemoveFiles, ThreadsSound, ThreadSound
<1>2. UNCHANGED <<recorded, journals, stones, retained, closing, backup, files, faults>>
  BY DEF RemoveFiles, repository
<1>3. Goto(t, "pop") /\ (place' = place \/ place' = [place EXCEPT ![k] = "gone"])
  BY DEF RemoveFiles
<1>4. /\ place' \in [Runs -> Places] /\ place'[k] # "source"
      /\ \A r \in Runs : place'[r] = place[r] \/ (r = k /\ place'[r] = "gone")
  <2>1. place \in [Runs -> Places] /\ "gone" \in Places
    BY DEF CentralSound, CentralTyped, Places
  <2>2. CASE place' = place
    BY <1>1, <2>1, <2>2
  <2>3. CASE place' = [place EXCEPT ![k] = "gone"]
    BY <1>1, <2>1, <2>3
  <2> QED BY <1>3, <2>2, <2>3
<1>5. Forward
  BY <1>1, <1>2, <1>4 DEF Forward, Trails
<1>6. CentralTyped'
  BY <1>2, <1>4 DEF CentralSound, CentralTyped
<1>7. ASSUME NEW r \in Runs PROVE CentralRun(r)'
  BY <1>1, <1>2, <1>4 DEF CentralSound, CentralRun, RunSound, Trails
<1>8. BackupSound' /\ SessionsSound'
  BY <1>1, <1>2, <1>4 DEF CentralSound, BackupSound, SessionsSound, RunSound, Trails
<1>9. k \notin recorded' /\ Trails(backup', k)
  BY <1>1, <1>2 DEF Trails
<1>10. ThreadsSound'
  BY <1>1, <1>3, <1>4, <1>5, <1>9, WentOn DEF CentralSound, Steps
<1> QED BY <1>6, <1>7, <1>8, <1>10 DEF CentralSound

LEMMA RemoveFailsSound ==
  ASSUME CentralSound, ThreadsSound, NEW t \in Threads, RemoveFails(t)
  PROVE  CentralSound' /\ ThreadsSound'
<1>1. /\ faults' \in 0..MaxFaults
      /\ UNCHANGED <<recorded, journals, stones, retained, closing, place, files>>
  BY PruneAssumption DEF RemoveFails, CentralSound, CentralTyped, disk
<1>2. CASE Raise(t) /\ UNCHANGED backup
  <2>1. CentralSound' /\ Forward /\ place' \in [Runs -> Places]
    BY <1>1, <1>2, CentralKept DEF repository, disk
  <2> QED BY <1>2, <2>1, Raised DEF CentralSound
<1>3. CASE Continue(t) /\ Save
  <2>1. /\ backup' \in State /\ BackupSound' /\ Forward
        /\ backup'.recorded = recorded /\ backup'.journals = journals
        /\ place' \in [Runs -> Places]
    BY <1>1, <1>3, SavedSound
  <2>2. CentralTyped'
    BY <1>1, <2>1 DEF CentralSound, CentralTyped
  <2>3. ASSUME NEW k \in Runs PROVE CentralRun(k)'
    BY <1>1, <2>1 DEF CentralSound, CentralRun, RunSound, Trails
  <2>4. SessionsSound'
    BY <1>1 DEF CentralSound, SessionsSound
  <2> QED BY <1>3, <2>1, <2>2, <2>3, <2>4, Continued DEF CentralSound
<1> QED BY <1>2, <1>3 DEF RemoveFails

LEMMA PopSound ==
  ASSUME CentralSound, ThreadsSound, NEW t \in Threads, PopJournal(t)
  PROVE  CentralSound' /\ ThreadsSound'
<1> DEFINE k == thread[t].run
<1>1. k \in Runs /\ k \notin recorded
  BY ThreadFields DEF PopJournal, ThreadsSound, ThreadSound
<1>2. UNCHANGED <<recorded, stones, retained, closing, place, files, faults>>
  BY DEF PopJournal, disk
<1>3. CASE Raise(t) /\ UNCHANGED <<journals, backup>>
  <2>1. CentralSound' /\ Forward /\ place' \in [Runs -> Places]
    BY <1>2, <1>3, CentralKept DEF CentralSound, CentralTyped, repository, disk
  <2> QED BY <1>3, <2>1, Raised DEF CentralSound
<1>4. CASE Save /\ journals' = [journals EXCEPT ![k] = NoJournal] /\ Continue(t)
  <2>1. /\ journals' \in [Runs -> Journal \cup {NoJournal}]
        /\ \A r \in Runs : journals'[r] = IF r = k THEN NoJournal ELSE journals[r]
    BY <1>1, <1>4 DEF CentralSound, CentralTyped
  <2>2. ASSUME NEW r \in Runs
        PROVE  /\ RunSound(recorded', journals', stones', r)
               /\ journals'[r].phase = "committed" => r \notin recorded
               /\ r \in stones' => r \notin recorded
    BY <1>1, <1>2, <2>1 DEF CentralSound, CentralRun, RunSound, NoJournal
  <2>3. SessionsSound'
    BY <1>2 DEF CentralSound, SessionsSound
  <2>4. CentralSound'
    BY <1>2, <1>4, <2>1, <2>2, <2>3, SaveSound DEF CentralSound, CentralTyped
  <2>5. Forward /\ place' \in [Runs -> Places]
    BY <1>2, <1>4, SavedSound
  <2> QED BY <1>4, <2>4, <2>5, Continued DEF CentralSound
<1> QED BY <1>3, <1>4 DEF PopJournal

LEMMA AllIdle ==
  ASSUME thread' = [t \in Threads |-> Idle]
  PROVE  ThreadsSound'
BY IdleTyped DEF ThreadsSound, ThreadSound, Idle

LEMMA CrashSound ==
  ASSUME CentralSound, ThreadsSound, Crash
  PROVE  CentralSound' /\ ThreadsSound'
<1>1. faults' \in 0..MaxFaults
  BY PruneAssumption DEF Crash, CentralSound, CentralTyped
<1> QED BY <1>1, AllIdle, CentralKept DEF Crash, CentralSound, CentralTyped
-------------------------------------------------------------------------------
(* What load makes of a state that is lost *)

LEMMA NoBackupFields ==
  /\ NoBackup \in State /\ NoBackup.recorded = {} /\ NoBackup.journals = [k \in Runs |-> NoJournal]
  /\ NoBackup.stones = {} /\ NoBackup.retained = {} /\ NoBackup.closing = {}
BY DEF NoBackup, State

LEMMA RebuiltFields ==
  /\ Rebuilt.recorded = RecordFiles /\ Rebuilt.journals = [k \in Runs |-> NoJournal]
  /\ Rebuilt.stones = {} /\ Rebuilt.retained = {} /\ Rebuilt.closing = files
BY DEF Rebuilt, NoBackup

LEMMA MergedFields ==
  ASSUME NEW b
  PROVE  /\ Merged(b).recorded = RecordFiles \cup {k \in Runs : b.journals[k].phase \in {"intent", "quarantined"}}
         /\ Merged(b).journals = b.journals /\ Merged(b).stones = b.stones
         /\ Merged(b).retained = b.retained /\ Merged(b).closing = files
BY RebuiltFields DEF Merged, Rebuilt, NoBackup

LEMMA NoBackupRecovers == Recovered(NoBackup) = Rebuilt
<1>1. ~HasEvidence(NoBackup)
  BY NoBackupFields DEF HasEvidence
<1>2. ASSUME RecordFiles \cup files = {} PROVE Rebuilt = NoBackup
  <2>1. RecordFiles = {} /\ files = {}
    BY <1>2
  <2> QED BY <2>1 DEF Rebuilt, NoBackup
<1> QED BY <1>1, <1>2 DEF Recovered

\* A power loss after which every run is sound again.
LEMMA PowerLossSound ==
  ASSUME CentralSound, NEW b, PowerLoss(b),
         b.recorded \subseteq Runs, b.journals \in [Runs -> Journal \cup {NoJournal}],
         b.stones \subseteq Runs \cup Sessions, b.retained \subseteq Runs \cap b.stones, b.closing \subseteq Sessions,
         b.stones \cap b.closing = {}, files \subseteq b.closing, RecordFiles \subseteq b.recorded,
         \A k \in Runs : RunSound(b.recorded, b.journals, b.stones, k),
         backup' \in {backup, NoBackup},
         \A k \in Runs : b.journals[k].phase = "committed" => Trails(backup', k),
         \A k \in Runs : k \in b.stones => k \notin backup'.recorded
  PROVE  CentralSound' /\ ThreadsSound'
<1>1. /\ recorded' = b.recorded /\ journals' = b.journals /\ stones' = b.stones
      /\ retained' = b.retained /\ closing' = b.closing /\ UNCHANGED <<place, files>>
      /\ thread' = [t \in Threads |-> Idle]
  BY DEF PowerLoss, disk
<1>2. faults' \in 0..MaxFaults
  BY PruneAssumption DEF PowerLoss, CentralSound, CentralTyped
<1>3. backup' \in State
  BY NoBackupFields DEF CentralSound, CentralTyped
<1>4. CentralTyped'
  BY <1>1, <1>2, <1>3 DEF CentralSound, CentralTyped
<1>5. ASSUME NEW k \in Runs PROVE CentralRun(k)'
  <2>1. RunSound(recorded, journals, stones, k)'
    BY <1>1 DEF RunSound
  <2>2. place'[k] = "source" => k \in recorded'
    BY <1>1 DEF RecordFiles
  <2> QED BY <1>1, <2>1, <2>2 DEF CentralRun
<1>6. BackupSound'
  <2>1. CASE backup' = backup
    BY <1>1, <2>1 DEF CentralSound, BackupSound, RunSound
  <2>2. CASE backup' = NoBackup
    BY <1>1, <2>2, NoBackupFields DEF BackupSound, RunSound, NoJournal
  <2> QED BY <2>1, <2>2
<1>7. SessionsSound'
  BY <1>1 DEF SessionsSound
<1> QED BY <1>1, <1>4, <1>5, <1>6, <1>7, AllIdle DEF CentralSound

LEMMA RebuiltSound ==
  ASSUME CentralSound, PowerLoss(Rebuilt), backup' \in {backup, NoBackup}
  PROVE  CentralSound' /\ ThreadsSound'
<1>1. /\ RecordFiles \subseteq Runs /\ [k \in Runs |-> NoJournal] \in [Runs -> Journal \cup {NoJournal}]
      /\ files \subseteq Sessions
  BY DEF RecordFiles, CentralSound, CentralTyped
<1>2. ASSUME NEW k \in Runs PROVE RunSound(Rebuilt.recorded, Rebuilt.journals, Rebuilt.stones, k)
  BY RebuiltFields DEF RunSound, NoJournal, RecordFiles
<1>3. \A k \in Runs : Rebuilt.journals[k].phase # "committed"
  BY RebuiltFields DEF NoJournal
<1> QED BY <1>1, <1>2, <1>3, RebuiltFields, PowerLossSound

LEMMA RebuildSound ==
  ASSUME CentralSound, ThreadsSound, Rebuild
  PROVE  CentralSound' /\ ThreadsSound'
BY NoBackupRecovers, RebuiltSound DEF Rebuild

LEMMA MergeSound ==
  ASSUME CentralSound, ThreadsSound, Merge
  PROVE  CentralSound' /\ ThreadsSound'
<1>1. PowerLoss(Recovered(backup)) /\ backup' = backup
  BY DEF Merge
<1>2. /\ backup.recorded \subseteq Runs /\ backup.journals \in [Runs -> Journal \cup {NoJournal}]
      /\ backup.stones \subseteq Runs \cup Sessions /\ backup.retained \subseteq Runs \cap backup.stones
      /\ backup.closing \subseteq Sessions /\ backup.stones \cap files = {}
      /\ \A k \in Runs : RunSound(backup.recorded, backup.journals, backup.stones, k)
  BY DEF CentralSound, CentralTyped, State, BackupSound
<1>3. CASE Recovered(backup) = Rebuilt
  BY <1>1, <1>3, RebuiltSound
<1>4. CASE Recovered(backup) = Merged(backup)
  <2> DEFINE b == Merged(backup)
  <2>1. /\ b.recorded = RecordFiles \cup {k \in Runs : backup.journals[k].phase \in {"intent", "quarantined"}}
        /\ b.journals = backup.journals /\ b.stones = backup.stones
        /\ b.retained = backup.retained /\ b.closing = files
    BY MergedFields
  <2> HIDE DEF b
  <2>2. ASSUME NEW k \in Runs PROVE RunSound(b.recorded, b.journals, b.stones, k)
    <3>1. RunSound(backup.recorded, backup.journals, backup.stones, k)
      BY <1>2
    <3>2. k \in b.recorded <=> place[k] = "source" \/ backup.journals[k].phase \in {"intent", "quarantined"}
      BY <2>1 DEF RecordFiles
    <3> QED BY <2>1, <3>1, <3>2 DEF RunSound
  <2>3. b.recorded \subseteq Runs /\ RecordFiles \subseteq b.recorded /\ files \subseteq Sessions
    BY <2>1 DEF RecordFiles, CentralSound, CentralTyped
  <2>4. \A k \in Runs : b.journals[k].phase = "committed" => Trails(backup', k)
    BY <1>1, <1>2, <2>1 DEF RunSound, Trails
  <2>5. \A k \in Runs : k \in b.stones => k \notin backup'.recorded
    BY <1>1, <1>2, <2>1 DEF RunSound
  <2>6. PowerLoss(b)
    BY <1>1, <1>4 DEF b
  <2> QED BY <1>1, <1>2, <2>1, <2>2, <2>3, <2>4, <2>5, <2>6, PowerLossSound
<1>5. CASE Recovered(backup) = backup /\ ~HasEvidence(backup) /\ RecordFiles \cup files = {}
  <2>1. backup.stones = {} /\ \A k \in Runs : backup.journals[k] = NoJournal
    BY <1>5 DEF HasEvidence
  <2>2. \A k \in Runs : backup.journals[k].phase # "committed"
    BY <2>1 DEF NoJournal
  <2>3. /\ backup.stones \cap backup.closing = {} /\ files \subseteq backup.closing
        /\ RecordFiles \subseteq backup.recorded
    BY <1>5, <2>1
  <2> QED BY <1>1, <1>2, <1>5, <2>1, <2>2, <2>3, PowerLossSound
<1> QED BY <1>3, <1>4, <1>5 DEF Recovered

LEMMA Initially == Init => IInv
<1> SUFFICES ASSUME Init PROVE CentralSound /\ ThreadsSound
  BY InvParts
<1>1. /\ backup \in State /\ backup.recorded = recorded /\ backup.stones = {} /\ backup.retained = {}
      /\ backup.journals = [k \in Runs |-> NoJournal]
  BY DEF Init, Central, State
<1>2. CentralTyped
  BY <1>1, PruneAssumption DEF Init, CentralTyped, Places
<1>3. \A k \in Runs : CentralRun(k)
  BY DEF Init, CentralRun, RunSound, NoJournal
<1>4. BackupSound /\ SessionsSound
  BY <1>1 DEF Init, BackupSound, SessionsSound, RunSound, NoJournal
<1>5. ThreadsSound
  BY IdleTyped DEF Init, ThreadsSound, ThreadSound, Idle
<1> QED BY <1>2, <1>3, <1>4, <1>5 DEF CentralSound

LEMMA Stays == IInv /\ [Next]_vars => IInv'
<1>0. IInv' <=> CentralSound' /\ ThreadsSound'
  BY DEF IInv, TypeOK, CentralTyped, CentralSound, ThreadsSound
<1> SUFFICES ASSUME CentralSound, ThreadsSound, [Next]_vars PROVE CentralSound' /\ ThreadsSound'
  BY <1>0, InvParts
<1>1. ASSUME NEW t \in Threads, Begin(t) PROVE CentralSound' /\ ThreadsSound'
  BY <1>1, BeginSound
<1>2. ASSUME NEW t \in Threads, NEW i \in Sessions, CloseSession(t, i) PROVE CentralSound' /\ ThreadsSound'
  BY <1>2, CloseSessionSound
<1>3. ASSUME NEW t \in Threads, Step(t) PROVE CentralSound' /\ ThreadsSound'
  BY <1>3, ResumeJournalSound, PlanSound, SaveIntentSound, FinishSound, CheckMoveSound, RenameSound,
     MarkSound, VerifySound, CommitSound, ProveCommitSound, RemoveFilesSound, PopSound DEF Step
<1>4. ASSUME NEW t \in Threads, RemoveFails(t) PROVE CentralSound' /\ ThreadsSound'
  BY <1>4, RemoveFailsSound
<1>5. CASE Crash
  BY <1>5, CrashSound
<1>6. CASE Rebuild
  BY <1>6, RebuildSound
<1>7. CASE Merge
  BY <1>7, MergeSound
<1>8. CASE UNCHANGED vars
  <2>1. CentralSound'
    BY <1>8, CentralKept DEF vars, CentralSound, CentralTyped
  <2>2. ThreadsSound'
    BY <1>8 DEF vars, disk, repository, ThreadsSound, ThreadSound, Trails
  <2> QED BY <2>1, <2>2
<1> QED BY <1>1, <1>2, <1>3, <1>4, <1>5, <1>6, <1>7, <1>8 DEF Next

LEMMA Invariant == Spec => []IInv
BY Initially, Stays, PTL DEF Spec

-------------------------------------------------------------------------------
(* What it is good for *)

\* Steps other than a power loss, and what they do to the index and the files.
LEMMA Onward ==
  ASSUME IInv, Next, ~Merge, ~Rebuild
  PROVE  /\ recorded' \subseteq recorded
         /\ \A k \in Runs : place'[k] = "gone" => place[k] = "gone" \/ k \notin recorded
<1>1. ASSUME NEW t \in Threads, RemoveFiles(t)
      PROVE  \A k \in Runs : place'[k] = "gone" => place[k] = "gone" \/ k \notin recorded
  BY <1>1, ThreadFields, InvParts DEF RemoveFiles, IInv, TypeOK, ThreadSound
<1>2. ASSUME NEW t \in Threads, Rename(t)
      PROVE  \A k \in Runs : place'[k] = "gone" => place[k] = "gone"
  BY <1>2 DEF Rename, MovedTo, Target, IInv, TypeOK
<1>3. ASSUME NEW t \in Threads, Commit(t) PROVE recorded' \subseteq recorded
  BY <1>3 DEF Commit, repository
<1>4. ASSUME NEW t \in Threads, RemoveFiles(t) \/ Rename(t) PROVE UNCHANGED recorded
  BY <1>4 DEF RemoveFiles, Rename, repository
<1>5. ASSUME NEW t \in Threads, Commit(t) PROVE UNCHANGED place
  BY <1>5 DEF Commit, disk
<1>6. CASE UNCHANGED <<recorded, place>>
  BY <1>6
<1> QED BY <1>1, <1>2, <1>3, <1>4, <1>5, <1>6 DEF Next, Step, Begin, CloseSession, RemoveFails, Crash,
     ResumeJournal, Plan, SaveIntent, Finish, CheckMove, MarkQuarantined, VerifyQuarantine, ProveCommit,
     PopJournal, repository, disk

\* What a power loss leaves of the index: the run directories, and what the backup adds.
LEMMA Afterwards ==
  ASSUME IInv, Merge \/ Rebuild, NEW k \in recorded', k \notin RecordFiles
  PROVE  /\ k \in Runs /\ place' = place /\ Merge /\ k \in backup.recorded /\ journals' = backup.journals
         /\ HasEvidence(backup) => backup.journals[k].phase \in {"intent", "quarantined"}
<1>1. CentralSound /\ UNCHANGED place /\ RecordFiles \subseteq Runs
  BY InvParts DEF Merge, Rebuild, PowerLoss, disk, RecordFiles
<1>2. CASE Rebuild
  BY <1>2, NoBackupRecovers, RebuiltFields DEF Rebuild, PowerLoss
<1>3. CASE Merge
  <2>1. /\ \A r \in Runs : backup.journals[r].phase \in {"intent", "quarantined"} => r \in backup.recorded
        /\ backup.recorded \subseteq Runs
    BY <1>1 DEF CentralSound, CentralTyped, State, BackupSound, RunSound
  <2>2. recorded' = Recovered(backup).recorded /\ journals' = Recovered(backup).journals
    BY <1>3 DEF Merge, PowerLoss
  <2>3. CASE Recovered(backup) = Merged(backup)
    BY <1>1, <1>3, <2>1, <2>2, <2>3, MergedFields
  <2>4. CASE Recovered(backup) = Rebuilt
    BY <2>2, <2>4, RebuiltFields
  <2>5. CASE Recovered(backup) = backup /\ ~HasEvidence(backup)
    BY <1>1, <1>3, <2>1, <2>2, <2>5
  <2> QED BY <2>3, <2>4, <2>5 DEF Recovered
<1> QED BY <1>2, <1>3

\* Files are deleted last: whatever any number of coordinators and crashes do between
\* them, the directory of an indexed run is there (resources.py _resume, _cleanup), unless
\* load took the run, with its quarantined prune, from a backup older than the commit.
THEOREM FilesGoLast == Spec => IndexedRunsHaveFiles
<1>1. ASSUME IInv, [Next]_vars, NEW k \in Runs, k \in recorded', place'[k] = "gone"
      PROVE  \/ k \in recorded /\ place[k] = "gone"
             \/ Merge /\ backup.journals[k].phase = "quarantined" /\ Stranded(k)'
  <2>1. CASE UNCHANGED vars
    BY <1>1, <2>1 DEF vars, repository, disk
  <2>2. CASE Next /\ ~Merge /\ ~Rebuild
    BY <1>1, <2>2, Onward
  <2>3. CASE Merge \/ Rebuild
    <3>1. k \notin RecordFiles /\ UNCHANGED place
      BY <1>1, <2>3 DEF RecordFiles, Merge, Rebuild, PowerLoss, disk
    <3>2. Merge /\ k \in backup.recorded /\ journals' = backup.journals
      BY <1>1, <2>3, <3>1, Afterwards
    <3>3. backup.journals[k].phase = "quarantined"
      BY <1>1, <3>1, <3>2 DEF IInv, BackupSound, RunSound
    <3>4. Stranded(k)'
      BY <1>1, <3>2, <3>3 DEF Stranded, Target
    <3> QED BY <3>2, <3>3, <3>4
  <2> QED BY <1>1, <2>1, <2>2, <2>3
<1>2. IInv /\ [Next]_vars =>
        [\A k \in Runs : k \in recorded' /\ place'[k] = "gone" =>
           \/ k \in recorded /\ place[k] = "gone"
           \/ Merge /\ backup.journals[k].phase = "quarantined" /\ Stranded(k)']_vars
  BY <1>1
<1> QED BY <1>2, Invariant, PTL DEF Spec, IndexedRunsHaveFiles

\* A committed prune keeps its tombstone until its files are dealt with, however full
\* the table gets and whatever a recovery takes from the backup (resources.py
\* _trim_tombstones, _resume).
THEOREM EvidenceStays == Spec => []CommittedHasEvidence
<1>1. IInv => CommittedHasEvidence
  BY DEF IInv, CentralRun, RunSound, Proven, CommittedHasEvidence
<1> QED BY <1>1, Invariant, PTL

\* No coordinator adds a record, and a recovery none of a run whose prune is finished:
\* from the run directories none at all, from a backup with journals only together with
\* the journal that ends the run again (resources.py StateRebuilder, protocol.py
\* merge_rebuilt_resource_evidence).
THEOREM PrunedStaysPruned == Spec => NeverResurrected
<1>1. ASSUME IInv, Next, NEW k \in recorded' \ recorded
      PROVE  ~(k \in stones /\ journals[k] = NoJournal) /\ (HasEvidence(backup) => journals'[k] # NoJournal)
  <2>1. Merge \/ Rebuild
    BY <1>1, Onward
  <2>2. k \notin RecordFiles
    BY <1>1 DEF IInv, CentralRun, RecordFiles
  <2>3. /\ k \in Runs /\ k \in backup.recorded /\ journals' = backup.journals
        /\ HasEvidence(backup) => backup.journals[k].phase \in {"intent", "quarantined"}
    BY <1>1, <2>1, <2>2, Afterwards
  <2> QED BY <1>1, <2>3 DEF IInv, CentralRun, NoJournal
<1>2. IInv /\ [Next]_vars =>
        [\A k \in recorded' \ recorded :
           /\ ~(k \in stones /\ journals[k] = NoJournal)
           /\ HasEvidence(backup) => journals'[k] # NoJournal]_vars
  BY <1>1
<1> QED BY <1>2, Invariant, PTL DEF Spec, NeverResurrected
-------------------------------------------------------------------------------
(* The repository behind the journals *)

\* A journal as the repository sees it: intent and quarantined are both pending.
Pending(j) == IF j = NoJournal \/ j.phase = "committed" THEN j ELSE [j EXCEPT !.phase = "pending"]

LEMMA RepoCardinality == ASSUME NEW S PROVE Repo!Cardinality(S) = Cardinality(S)
BY DEF Repo!Cardinality, Cardinality

LEMMA RepoVars ==
  UNCHANGED Repo!repoVars <=>
    /\ UNCHANGED <<[k \in Runs |->
        IF k \in recorded THEN [status |-> "terminal", claim |-> [id |-> None], owner |-> None,
                                manager |-> "manager", evidence |-> "full"]
        ELSE [status |-> "absent"]],
      [i \in Sessions |->
        IF i \in closing THEN [state |-> "terminating", runKeys |-> {}, manager |-> "manager"]
        ELSE [state |-> "absent", runKeys |-> {}]],
      [k \in Runs |-> Pending(journals[k])]>>
    /\ UNCHANGED <<stones, retained, Cardinality(Sessions \ closing)>>
BY DEF Repo!repoVars, Repo!history, Pending

LEMMA RepoStutters ==
  ASSUME UNCHANGED <<recorded, stones, retained, closing>>,
         \A k \in Runs : Pending(journals[k]') = Pending(journals[k])
  PROVE  UNCHANGED Repo!repoVars
BY RepoVars

LEMMA RepoSaveIntent ==
  ASSUME CentralTyped, NEW k \in Runs, NEW keepRun \in BOOLEAN,
         k \in recorded, Cardinality(Journaled) < MaxPendingPrunes, journals[k] = NoJournal,
         journals' = [journals EXCEPT ![k] = [phase |-> "intent", keepRun |-> keepRun]],
         UNCHANGED <<recorded, stones, retained, closing>>
  PROVE  Repo!SaveIntent(k, keepRun)
<1> DEFINE mapped == [r \in Runs |-> Pending(journals[r])]
<1>1. Repo!Eligible(k)
  BY DEF Repo!Eligible, Repo!NoClaim
<1>2. mapped[k] = Repo!NoJournal /\ mapped[k] = NoJournal
  BY DEF Pending, NoJournal, Repo!NoJournal
<1>3. {r \in Runs : mapped[r] # Repo!NoJournal} = Journaled
  <2>1. ASSUME NEW r \in Runs PROVE mapped[r] = Repo!NoJournal <=> journals[r] = NoJournal
    BY JournalFields DEF Pending, NoJournal, Repo!NoJournal, Journal
  <2> QED BY <2>1 DEF Journaled
<1>4. mapped' = [mapped EXCEPT ![k] = [phase |-> "pending", keepRun |-> keepRun]]
  <2>1. \A r \in Runs : journals'[r] = IF r = k THEN [phase |-> "intent", keepRun |-> keepRun] ELSE journals[r]
    BY DEF CentralTyped
  <2>2. Pending([phase |-> "intent", keepRun |-> keepRun]) = [phase |-> "pending", keepRun |-> keepRun]
    BY DEF Pending, NoJournal
  <2>3. \A r \in Runs : mapped'[r] = IF r = k THEN [phase |-> "pending", keepRun |-> keepRun] ELSE mapped[r]
    BY <2>1, <2>2
  <2> QED BY <2>3
<1> QED BY <1>1, <1>2, <1>3, <1>4, RepoCardinality DEF Repo!SaveIntent, Pending

LEMMA RepoFinishPrune ==
  ASSUME CentralTyped, NEW k \in Runs, journals[k].phase = "committed",
         journals' = [journals EXCEPT ![k] = NoJournal],
         UNCHANGED <<recorded, stones, retained, closing>>
  PROVE  Repo!FinishPrune(k)
<1> DEFINE mapped == [r \in Runs |-> Pending(journals[r])]
<1>1. mapped[k].phase = "committed"
  BY DEF Pending
<1>2. mapped' = [mapped EXCEPT ![k] = Repo!NoJournal]
  <2>1. \A r \in Runs : journals'[r] = IF r = k THEN NoJournal ELSE journals[r]
    BY DEF CentralTyped
  <2>2. Pending(NoJournal) = Repo!NoJournal
    BY DEF Pending, NoJournal, Repo!NoJournal
  <2>3. \A r \in Runs : mapped'[r] = IF r = k THEN Repo!NoJournal ELSE mapped[r]
    BY <2>1, <2>2
  <2> QED BY <2>3
<1> QED BY <1>1, <1>2 DEF Repo!FinishPrune, Pending

\* What goes when a tombstone comes is what the repository lets go.
LEMMA RepoAddTombstone ==
  ASSUME CentralTyped, NEW id \in Runs \cup Sessions, id \notin stones, stones' \in WithTombstone(id)
  PROVE  Repo!AddTombstones({id})
<1> DEFINE mapped == [r \in Runs |-> Pending(journals[r])]
<1>1. PICK gone \in SUBSET Trimmable :
        /\ Cardinality(gone) = IF Cardinality(stones) + 1 - MaxTombstones > 0
                               THEN Cardinality(stones) + 1 - MaxTombstones ELSE 0
        /\ stones' = (stones \ gone) \cup {id}
  BY DEF WithTombstone
<1>2. Cardinality(stones \cup {id}) = Cardinality(stones) + 1 /\ Cardinality(stones) \in Nat
  <2>1. IsFiniteSet(Runs \cup Sessions)
    BY PruneAssumption, FS_Union
  <2>2. IsFiniteSet(stones)
    BY <2>1, FS_Subset DEF CentralTyped
  <2> QED BY <2>2, FS_AddElement, FS_CardinalityType
<1>3. {k \in Runs : mapped[k] # Repo!NoJournal} = Journaled
  <2>1. ASSUME NEW r \in Runs PROVE mapped[r] = Repo!NoJournal <=> journals[r] = NoJournal
    BY JournalFields DEF Pending, NoJournal, Repo!NoJournal, Journal
  <2> QED BY <2>1 DEF Journaled
<1>4. gone \in SUBSET (((stones \cup {id}) \ retained) \ Journaled)
  BY DEF Trimmable, Pinned
<1>5. id \notin gone
  BY DEF Trimmable
<1>6. {id} \ gone # {} /\ stones' = (stones \cup {id}) \ gone
  BY <1>1, <1>5
<1>7. gone \in SUBSET Repo!Forgettable({id})
  BY <1>3, <1>4 DEF Repo!Forgettable, Pending
<1>8. Repo!Cardinality(gone) = IF Repo!Cardinality(stones \cup {id}) - MaxTombstones > 0
                               THEN Repo!Cardinality(stones \cup {id}) - MaxTombstones ELSE 0
  <2>1. Repo!Cardinality(gone) = Cardinality(gone)
    BY RepoCardinality
  <2>2. Repo!Cardinality(stones \cup {id}) = Cardinality(stones) + 1
    BY <1>2, RepoCardinality
  <2> QED BY <1>1, <1>2, <2>1, <2>2, PruneAssumption
<1> QED BY <1>6, <1>7, <1>8 DEF Repo!AddTombstones

LEMMA RepoCommitPrune ==
  ASSUME CentralSound, NEW k \in Runs, journals[k].phase = "quarantined", k \in recorded,
         recorded' = recorded \ {k}, journals' = [journals EXCEPT ![k].phase = "committed"],
         stones' \in WithTombstone(k),
         retained' = IF journals[k].keepRun THEN retained \cup {k} ELSE retained,
         UNCHANGED closing
  PROVE  Repo!CommitPrune(k)
<1> DEFINE mapped == [r \in Runs |-> Pending(journals[r])]
           records == [r \in Runs |->
             IF r \in recorded THEN [status |-> "terminal", claim |-> [id |-> None], owner |-> None,
                                     manager |-> "manager", evidence |-> "full"]
             ELSE [status |-> "absent"]]
<1>1. Repo!AddTombstones({k})
  BY RepoAddTombstone DEF CentralSound, SessionsSound, CentralRun, RunSound
<1>2. journals[k] \in Journal /\ journals[k] # NoJournal
  BY JournalFields DEF CentralSound, NoJournal
<1>3. Pending(journals[k]) = [phase |-> "pending", keepRun |-> journals[k].keepRun]
  BY <1>2 DEF Pending, Journal
<1>4. /\ Repo!Eligible(k) /\ mapped[k].phase = "pending"
      /\ mapped[k].keepRun = journals[k].keepRun
  BY <1>3 DEF Repo!Eligible, Repo!NoClaim
<1>5. mapped' = [mapped EXCEPT ![k].phase = "committed"]
  <2>1. /\ journals'[k] = [phase |-> "committed", keepRun |-> journals[k].keepRun]
        /\ \A r \in Runs : r # k => journals'[r] = journals[r]
    BY <1>2 DEF CentralSound, CentralTyped, Journal
  <2>2. Pending(journals'[k]) = [phase |-> "committed", keepRun |-> journals[k].keepRun]
    BY <2>1 DEF Pending
  <2>3. \A r \in Runs : mapped'[r] = IF r = k THEN [phase |-> "committed", keepRun |-> journals[k].keepRun]
                                     ELSE mapped[r]
    BY <2>1, <2>2
  <2>4. [mapped EXCEPT ![k].phase = "committed"] =
          [mapped EXCEPT ![k] = [phase |-> "committed", keepRun |-> journals[k].keepRun]]
    <3>1. mapped[k] = [phase |-> "pending", keepRun |-> journals[k].keepRun]
      BY <1>3
    <3> HIDE DEF mapped
    <3>2. [mapped EXCEPT ![k].phase = "committed"] =
            [mapped EXCEPT ![k] = [mapped[k] EXCEPT !.phase = "committed"]]
      OBVIOUS
    <3>3. [mapped[k] EXCEPT !.phase = "committed"] = [phase |-> "committed", keepRun |-> journals[k].keepRun]
      BY <3>1
    <3> QED BY <3>2, <3>3
  <2> QED BY <2>3, <2>4
<1>6. records' = [records EXCEPT ![k] = Repo!NoRecord]
  BY DEF Repo!NoRecord, CentralSound, CentralTyped
<1> QED BY <1>1, <1>4, <1>5, <1>6 DEF Repo!CommitPrune, Pending

LEMMA RepoFinishSession ==
  ASSUME CentralSound, NEW i \in Sessions, i \in closing, closing' = closing \ {i},
         stones' \in WithTombstone(i), UNCHANGED <<recorded, journals, retained>>
  PROVE  Repo!FinishSession(i)
<1> DEFINE mapped == [j \in Sessions |->
             IF j \in closing THEN [state |-> "terminating", runKeys |-> {}, manager |-> "manager"]
             ELSE [state |-> "absent", runKeys |-> {}]]
<1>1. Repo!AddTombstones({i})
  BY RepoAddTombstone DEF CentralSound, SessionsSound, CentralRun, RunSound
<1>2. mapped' = [j \in Sessions |-> IF j \in {i} THEN Repo!NoSession ELSE mapped[j]]
  BY DEF Repo!NoSession
<1>3. Cardinality(Sessions \ closing') = Cardinality(Sessions \ closing) + Cardinality({i})
  <2>1. Sessions \ closing' = (Sessions \ closing) \cup {i}
    OBVIOUS
  <2>2. IsFiniteSet(Sessions \ closing)
    BY PruneAssumption, FS_Subset
  <2> QED BY <2>1, <2>2, FS_AddElement, FS_Singleton
<1>4. Repo!Compact({i})
  BY <1>1, <1>2, <1>3, RepoCardinality DEF Repo!Compact
<1>5. Repo!SessionEmpty(i) /\ mapped[i].state \in Repo!SessionActiveStates \ {"open"}
  BY DEF Repo!SessionEmpty, Repo!SessionActiveStates
<1> QED BY <1>4, <1>5 DEF Repo!FinishSession

LEMMA RepoStep ==
  ASSUME CentralSound, ThreadsSound, [Next]_vars
  PROVE  Repo!Next \/ Rebuild \/ Merge \/ UNCHANGED Repo!repoVars
<1>1. CASE UNCHANGED repository
  BY <1>1, RepoStutters DEF repository
<1>2. ASSUME NEW t \in Threads, NEW i \in Sessions, CloseSession(t, i) PROVE Repo!Next
  <2>1. Repo!FinishSession(i)
    BY <1>2, RepoFinishSession DEF CloseSession
  <2> QED BY <2>1 DEF Repo!Next, Repo!SessionStep
<1>3. ASSUME NEW t \in Threads, SaveIntent(t), ~UNCHANGED repository PROVE Repo!Next
  <2>1. PICK k \in thread[t].todo, keepRun \in BOOLEAN :
          /\ k \in recorded /\ Cardinality(Journaled) < MaxPendingPrunes /\ journals[k] = NoJournal
          /\ journals' = [journals EXCEPT ![k] = [phase |-> "intent", keepRun |-> keepRun]]
    BY <1>3 DEF SaveIntent, repository
  <2>2. k \in Runs
    BY ThreadFields
  <2>3. Repo!SaveIntent(k, keepRun)
    BY <1>3, <2>1, <2>2, RepoSaveIntent DEF SaveIntent, CentralSound
  <2> QED BY <2>2, <2>3 DEF Repo!Next, Repo!RunStep
<1>4. ASSUME NEW t \in Threads, MarkQuarantined(t), ~UNCHANGED repository PROVE UNCHANGED Repo!repoVars
  <2> DEFINE k == thread[t].run
  <2>1. k \in Runs /\ MarkAllowed(k) /\ journals' = [journals EXCEPT ![k].phase = "quarantined"]
    BY <1>4, ThreadFields DEF MarkQuarantined, repository
  <2>2. journals[k] \in Journal
    BY <2>1, JournalFields DEF MarkAllowed, CentralSound
  <2>3. /\ journals'[k] = [phase |-> "quarantined", keepRun |-> journals[k].keepRun]
        /\ \A r \in Runs : r # k => journals'[r] = journals[r]
    BY <2>1, <2>2 DEF CentralSound, CentralTyped, Journal
  <2>4. Pending(journals'[k]) = [phase |-> "pending", keepRun |-> journals[k].keepRun]
    BY <2>3 DEF Pending, NoJournal
  <2>5. Pending(journals[k]) = [phase |-> "pending", keepRun |-> journals[k].keepRun]
    BY <2>1, <2>2 DEF Pending, MarkAllowed, Journal
  <2>6. \A r \in Runs : Pending(journals'[r]) = Pending(journals[r])
    BY <2>3, <2>4, <2>5
  <2> QED BY <1>4, <2>6, RepoStutters DEF MarkQuarantined
<1>5. ASSUME NEW t \in Threads, Commit(t), ~UNCHANGED repository PROVE Repo!Next
  <2>1. PICK k \in Runs : k = thread[t].run
    BY <1>5, ThreadFields DEF Commit
  <2>2. Repo!CommitPrune(k)
    BY <1>5, <2>1, RepoCommitPrune DEF Commit
  <2> QED BY <2>2 DEF Repo!Next, Repo!RunStep
<1>6. ASSUME NEW t \in Threads, PopJournal(t), ~UNCHANGED repository PROVE Repo!Next
  <2>1. PICK k \in Runs : k = thread[t].run
    BY <1>6, ThreadFields DEF PopJournal
  <2>2. journals[k].phase = "committed" /\ journals' = [journals EXCEPT ![k] = NoJournal]
    BY <1>6, <2>1 DEF PopJournal, repository
  <2>3. Repo!FinishPrune(k)
    BY <1>6, <2>1, <2>2, RepoFinishPrune DEF PopJournal, CentralSound
  <2> QED BY <2>3 DEF Repo!Next, Repo!RunStep
<1>7. ASSUME NEW t \in Threads, RemoveFails(t) PROVE UNCHANGED Repo!repoVars
  BY <1>7, RepoStutters DEF RemoveFails
<1> QED BY <1>1, <1>2, <1>3, <1>4, <1>5, <1>6, <1>7 DEF Next, vars, Step, Begin, Crash, ResumeJournal,
     Plan, Finish, CheckMove, Rename, VerifyQuarantine, ProveCommit, RemoveFiles

\* Whatever the interleaving, what coordinators do to the central state is a sequence of
\* the repository's own prune and session transactions; phases intent and quarantined
\* are one to it (resources.py PruneCoordinator, models.py validate_resources).
THEOREM PrunesAreTransactions == Spec => RepositorySteps
<1>1. IInv /\ [Next]_vars => [Repo!Next \/ Rebuild \/ Merge]_(Repo!repoVars)
  BY InvParts, RepoStep
<1> QED BY <1>1, Invariant, PTL DEF Spec, RepositorySteps
\* resources.py _commit, _resume, StateRebuilder: what is in the run directories is in the
\* index. A prune moves the files before it drops the record, also when a coordinator goes on
\* with the journal of another that died, or that is still at it.
THEOREM RunDirsAreIndexed == Spec => [](\A k \in Runs : place[k] = "source" => k \in recorded)
<1>1. IInv => \A k \in Runs : place[k] = "source" => k \in recorded
  BY DEF IInv, CentralRun
<1> QED BY <1>1, Invariant, PTL

\* resources.py _add_tombstone, _commit, compact_session: a tombstone is of something gone,
\* never of a run or session that the index has.
THEOREM TombstonesAreOfTheGone == Spec => [](stones \cap (recorded \cup closing) = {})
<1>1. IInv => stones \cap (recorded \cup closing) = {}
  BY DEF IInv, SessionsSound, CentralRun, RunSound, TypeOK
<1> QED BY <1>1, Invariant, PTL
===============================================================================
