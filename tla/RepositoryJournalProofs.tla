------------------------ MODULE RepositoryJournalProofs ------------------------
(* Proofs about RepositoryJournal, for any runs, sessions, processes and number *)
(* of revisions: the six files are one value, and readers never go back.        *)
EXTENDS RepositoryJournal, TLAPS

--------------------------------------------------------------------------------
(* The invariant *)

\* Who uses the repository: several processes if it has a processes.json which nothing
\* spoils, else one (RepositoryJournalInit shows what two do to a repository without).
Sheltered ==
  \A s \in Settings : \/ s.initialised /\ ~s.fragile
                      \/ \A p, q \in s.users : p = q

Alone == \A p, q \in users : p = q
SettingSound == (~fragile /\ Readable(main)) \/ Alone

Writing == {"recover", "open", "pending", "run", "session", "backup", "main", "delete", "unlink"}

LockSound ==
  \A p \in Processes :
    /\ pc[p] # "idle" => p \in users
    /\ pc[p] \in Writing => lock = p
    /\ lock = p => pc[p] \in Writing \cup {"repair"}

\* A save is on its way, which has no pending file.
Saving(p) ==
  /\ pending = NoTx /\ Readable(main) /\ main.rev < MaxRevision
  /\ tx[p] = Tx(WithFence(main), None, None, None)

\* What the holder of the lock has in hand and has written at each step.
WriterSound(p) ==
  /\ pc[p] \in {"open", "pending"} => pending = NoTx
  /\ pc[p] = "pending" =>
       /\ Readable(main) /\ main.rev < MaxRevision
       /\ tx[p] \in Transactions(main) /\ tx[p].state \in Central
  /\ pc[p] \in {"run", "session"} => pending # NoTx /\ pending = tx[p]
  /\ pc[p] \in {"backup", "main"} => Saving(p) \/ (pending # NoTx /\ pending = tx[p])
  /\ pc[p] \in {"delete", "unlink"} =>
       /\ main = tx[p].state /\ Readable(main)
       /\ pending = tx[p] \/ (pending = NoTx /\ tx[p].delete = None)
  /\ pc[p] \in {"session", "backup", "main", "delete", "unlink"} /\ pending # NoTx /\ pending.run # None =>
       runFile[pending.run] = pending.state.run[pending.run]
  /\ pc[p] \in {"backup", "main", "delete", "unlink"} /\ pending # NoTx /\ pending.session # None =>
       sessionFile[pending.session] = pending.state.session[pending.session]
  /\ pc[p] = "unlink" /\ pending # NoTx /\ pending.delete # None => sessionFile[pending.delete] = 0
  /\ pc[p] = "repair" => /\ pending = NoTx /\ ~Readable(main)
                         /\ tx[p] = Tx(Recovered, None, None, None)
  /\ pc[p] = "read" /\ Alone => pending = NoTx

\* A pending transaction writes what it names, and is not behind processes.json.
PendingSound ==
  pending # NoTx =>
    /\ pending.run # None => pending.state.run[pending.run] > 0
    /\ pending.session # None => pending.state.session[pending.session] > 0
    /\ pending.delete # None => pending.state.session[pending.delete] = 0
    /\ Readable(main) => main.rev <= pending.state.rev

\* The file of a session is there, unless the session was closed and is back.
SessionFilesSound ==
  \A i \in Sessions \ {pending.session, pending.delete} :
    /\ sessionFile[i] \in {0, Durable.session[i]}
    /\ ~fragile => sessionFile[i] = Durable.session[i]

\* No state knows of a run that has no file.
Behind(file) == Readable(file) => \A k \in Keys : runFile[k] = 0 => file.run[k] = 0

\* Only the environment damages processes.json.
DamageSound == main = Damaged => fragile /\ backup.rev < MaxRevision

\* A reader has seen nothing that is not durable.
SeenSound ==
  ~fragile => \A p \in Processes :
    /\ seen[p] <= Durable.rev
    /\ pc[p] = "read" /\ Readable(main) => seen[p] <= main.rev

IInv ==
  /\ TypeOK /\ SettingSound /\ LockSound
  /\ \A p \in Processes : WriterSound(p)
  /\ PendingSound /\ RunFilesAgree /\ SessionFilesSound
  /\ Behind(main) /\ Behind(backup) /\ DamageSound /\ SeenSound

--------------------------------------------------------------------------------
(* Values *)

LEMMA CentralFields ==
  ASSUME NEW s \in Central
  PROVE  /\ s = [rev |-> s.rev, run |-> s.run, session |-> s.session,
                 tombstones |-> s.tombstones, fence |-> s.fence]
         /\ s.rev \in 0..MaxRevision /\ s.run \in [Keys -> 0..MaxRevision]
         /\ s.session \in [Sessions -> 0..MaxRevision]
         /\ s.tombstones \in SUBSET Sessions /\ s.fence \in BOOLEAN
         /\ Readable(s) /\ s # Missing /\ s # Damaged
<1>1. s.rev >= 0
  BY RevisionAssumption DEF Central
<1>2. s # Missing /\ s # Damaged
  BY <1>1 DEF Missing, Damaged
<1> QED BY <1>1, <1>2 DEF Central, Readable

LEMMA Files ==
  ASSUME NEW file \in File
  PROVE  /\ Readable(file) <=> file \in Central
         /\ ~Readable(file) => file = Missing \/ file = Damaged
BY CentralFields DEF File, Missing, Damaged, Readable

LEMMA EmptyCentral == Empty \in Central
BY RevisionAssumption DEF Empty, Central

LEMMA TxParts ==
  ASSUME NEW t \in TxRecord \cup {NoTx}
  PROVE  /\ t.run \in Keys \cup {None} /\ t.session \in Sessions \cup {None}
         /\ t.delete \in Sessions \cup {None}
         /\ t # NoTx => t.state \in Central /\ t \in TxRecord
         /\ t = NoTx => t.run = None /\ t.session = None /\ t.delete = None
BY DEF TxRecord, NoTx

LEMMA TxNotEmpty ==
  ASSUME NEW t \in TxRecord
  PROVE  t # NoTx
BY CentralFields DEF TxRecord, NoTx

\* The fields of what a transaction makes of a state.
LEMMA RunWritten ==
  ASSUME NEW s \in Central, NEW k \in Keys, NEW i \in Sessions \cup {None}
  PROVE  LET t == WithRun(s, k, i)
         IN  /\ t.rev = s.rev + 1
             /\ t.run = [s.run EXCEPT ![k] = s.run[k] + 1]
             /\ t.session = IF i = None THEN s.session ELSE [s.session EXCEPT ![i] = s.session[i] + 1]
<1>1. s \in [rev : Int, run : [Keys -> Int], session : [Sessions -> Int],
             tombstones : SUBSET Sessions, fence : BOOLEAN]
  BY RevisionAssumption DEF Central
<1> QED BY <1>1 DEF WithRun, Bump

LEMMA SessionWritten ==
  ASSUME NEW s \in Central, NEW i \in Sessions
  PROVE  LET t == WithSession(s, i)
         IN  /\ t.rev = s.rev + 1
             /\ t.run = s.run /\ t.session = [s.session EXCEPT ![i] = s.session[i] + 1]
<1>1. s \in [rev : Int, run : [Keys -> Int], session : [Sessions -> Int],
             tombstones : SUBSET Sessions, fence : BOOLEAN]
  BY RevisionAssumption DEF Central
<1> QED BY <1>1 DEF WithSession, Bump

LEMMA SessionClosed ==
  ASSUME NEW s \in Central, NEW i \in Sessions
  PROVE  LET t == WithoutSession(s, i)
         IN  /\ t.rev = s.rev + 1
             /\ t.run = s.run /\ t.session = [s.session EXCEPT ![i] = 0]
<1>1. s \in [rev : Int, run : [Keys -> Int], session : [Sessions -> Int],
             tombstones : SUBSET Sessions, fence : BOOLEAN]
  BY RevisionAssumption DEF Central
<1> QED BY <1>1 DEF WithoutSession

LEMMA FenceSwitched ==
  ASSUME NEW s \in Central
  PROVE  LET t == WithFence(s)
         IN  /\ t.rev = s.rev + 1 /\ t.run = s.run /\ t.session = s.session
             /\ s.rev < MaxRevision => t \in Central
<1>1. s \in [rev : Int, run : [Keys -> Int], session : [Sessions -> Int],
             tombstones : SUBSET Sessions, fence : BOOLEAN]
  BY RevisionAssumption DEF Central
<1>2. /\ WithFence(s).rev = s.rev + 1 /\ WithFence(s).run = s.run
      /\ WithFence(s).session = s.session
  BY <1>1 DEF WithFence
<1>3. ASSUME s.rev < MaxRevision PROVE WithFence(s) \in Central
  <2>1. s.rev + 1 \in 0..MaxRevision
    BY <1>3, CentralFields, RevisionAssumption
  <2> QED BY <2>1 DEF WithFence, Central
<1> QED BY <1>2, <1>3

\* What a transaction names is what it changes.
Names(t, s) ==
  /\ t \in TxRecord /\ t # NoTx
  /\ t.state.rev = s.rev + 1
  /\ \A k \in Keys : k # t.run => t.state.run[k] = s.run[k]
  /\ t.run # None => t.state.run[t.run] > 0
  /\ \A i \in Sessions : i # t.session /\ i # t.delete => t.state.session[i] = s.session[i]
  /\ t.session # None => t.state.session[t.session] = s.session[t.session] + 1
  /\ t.delete # None => t.delete \in Open(s) /\ t.state.session[t.delete] = 0
  /\ t.session = None \/ t.delete = None

LEMMA TransactionNames ==
  ASSUME NEW s \in Central, NEW t \in Transactions(s), t.state \in Central
  PROVE  Names(t, s)
<1>1. s.run \in [Keys -> 0..MaxRevision] /\ s.session \in [Sessions -> 0..MaxRevision] /\ s.rev \in Int
  BY CentralFields
<1>2. ASSUME NEW k \in Keys, NEW i \in Open(s) \cup {None}, t = Tx(WithRun(s, k, i), k, i, None)
      PROVE  Names(t, s)
  <2>1. i \in Sessions \cup {None}
    BY DEF Open
  <2>2. t.run = k /\ t.session = i /\ t.delete = None /\ t.state = WithRun(s, k, i) /\ t \in TxRecord
    BY <1>2, <2>1 DEF Tx, TxRecord
  <2> DEFINE u == WithRun(s, k, i)
  <2>3. /\ u.rev = s.rev + 1 /\ u.run = [s.run EXCEPT ![k] = s.run[k] + 1]
        /\ u.session = IF i = None THEN s.session ELSE [s.session EXCEPT ![i] = s.session[i] + 1]
    BY <2>1, RunWritten
  <2> HIDE DEF u
  <2>4. u.run[k] > 0 /\ \A x \in Keys : x # k => u.run[x] = s.run[x]
    BY <1>1, <2>3
  <2>5. /\ \A x \in Sessions : x # i => u.session[x] = s.session[x]
        /\ i # None => u.session[i] = s.session[i] + 1
    BY <1>1, <2>1, <2>3
  <2> QED BY <2>2, <2>3, <2>4, <2>5, TxNotEmpty DEF Names, u
<1>3. ASSUME NEW i \in Sessions, t = Tx(WithSession(s, i), None, i, None)
      PROVE  Names(t, s)
  <2>2. t.run = None /\ t.session = i /\ t.delete = None /\ t.state = WithSession(s, i) /\ t \in TxRecord
    BY <1>3 DEF Tx, TxRecord
  <2> DEFINE u == WithSession(s, i)
  <2>3. /\ u.rev = s.rev + 1 /\ u.run = s.run
        /\ u.session = [s.session EXCEPT ![i] = s.session[i] + 1]
    BY SessionWritten
  <2> HIDE DEF u
  <2>5. /\ \A x \in Sessions : x # i => u.session[x] = s.session[x]
        /\ u.session[i] = s.session[i] + 1
    BY <1>1, <2>3
  <2> QED BY <2>2, <2>3, <2>5, TxNotEmpty DEF Names, u
<1>4. ASSUME NEW i \in Open(s), t = Tx(WithoutSession(s, i), None, None, i)
      PROVE  Names(t, s)
  <2>1. i \in Sessions
    BY DEF Open
  <2>2. t.run = None /\ t.session = None /\ t.delete = i /\ t.state = WithoutSession(s, i) /\ t \in TxRecord
    BY <1>4, <2>1 DEF Tx, TxRecord
  <2> DEFINE u == WithoutSession(s, i)
  <2>3. /\ u.rev = s.rev + 1 /\ u.run = s.run
        /\ u.session = [s.session EXCEPT ![i] = 0]
    BY <2>1, SessionClosed
  <2> HIDE DEF u
  <2>5. /\ \A x \in Sessions : x # i => u.session[x] = s.session[x]
        /\ u.session[i] = 0
    BY <1>1, <2>1, <2>3
  <2> QED BY <2>2, <2>3, <2>5, TxNotEmpty DEF Names, u
<1> QED BY <1>2, <1>3, <1>4 DEF Transactions

LEMMA TransactionSucceeds ==
  ASSUME NEW s, NEW t \in Transactions(s)
  PROVE  t.state \in Atomic!Successors(s)
<1>1. /\ \A k \in Keys, i \in Sessions \cup {None} : Atomic!WithRun(s, k, i) = WithRun(s, k, i)
      /\ \A i \in Sessions : Atomic!WithSession(s, i) = WithSession(s, i)
      /\ \A i \in Sessions : Atomic!WithoutSession(s, i) = WithoutSession(s, i)
      /\ Atomic!Open(s) = Open(s) /\ Open(s) \subseteq Sessions
  BY DEF WithRun, WithSession, WithoutSession, Bump, Open, Atomic!WithRun, Atomic!WithSession,
         Atomic!WithoutSession, Atomic!Bump, Atomic!Open
<1>2. ASSUME NEW k \in Keys, NEW i \in Open(s) \cup {None}, t = Tx(WithRun(s, k, i), k, i, None)
      PROVE  t.state \in Atomic!Successors(s)
  <2>1. t.state = Atomic!WithRun(s, k, i)
    BY <1>1, <1>2 DEF Tx
  <2> QED BY <1>1, <2>1 DEF Atomic!Successors
<1>3. ASSUME NEW i \in Sessions \ s.tombstones, t = Tx(WithSession(s, i), None, i, None)
      PROVE  t.state \in Atomic!Successors(s)
  <2>1. t.state = Atomic!WithSession(s, i)
    BY <1>1, <1>3 DEF Tx
  <2> QED BY <1>1, <2>1 DEF Atomic!Successors
<1>4. ASSUME NEW i \in Open(s), t = Tx(WithoutSession(s, i), None, None, i)
      PROVE  t.state \in Atomic!Successors(s)
  <2>1. t.state = Atomic!WithoutSession(s, i)
    BY <1>1, <1>4 DEF Tx
  <2> QED BY <1>1, <2>1 DEF Atomic!Successors
<1> QED BY <1>2, <1>3, <1>4 DEF Transactions

--------------------------------------------------------------------------------
(* The files, and who works on them *)

DiskTyped ==
  /\ pending \in TxRecord \cup {NoTx}
  /\ main \in File /\ backup \in File \ {Damaged}
  /\ runFile \in [Keys -> 0..MaxRevision]
  /\ sessionFile \in [Sessions -> 0..MaxRevision]
  /\ users \subseteq Processes /\ fragile \in BOOLEAN

DiskSound ==
  /\ DiskTyped /\ SettingSound /\ PendingSound /\ RunFilesAgree /\ SessionFilesSound
  /\ Behind(main) /\ Behind(backup) /\ DamageSound

ActorsTyped ==
  /\ lock \in Processes \cup {None}
  /\ pc \in [Processes -> Pcs]
  /\ tx \in [Processes -> TxRecord \cup {NoTx}]
  /\ seen \in [Processes -> 0..MaxRevision]

ActorsSound ==
  /\ ActorsTyped /\ LockSound /\ SeenSound
  /\ \A p \in Processes : WriterSound(p)

LEMMA InvParts == IInv <=> DiskSound /\ ActorsSound
BY DEF IInv, TypeOK, DiskSound, DiskTyped, ActorsSound, ActorsTyped

LEMMA InvPartsNext == IInv' <=> DiskSound' /\ ActorsSound'
BY DEF IInv, TypeOK, DiskSound, DiskTyped, ActorsSound, ActorsTyped

LEMMA DurableIs ==
  /\ pending # NoTx => Durable = pending.state
  /\ pending = NoTx /\ Readable(main) => Durable = main
  /\ pending = NoTx /\ ~Readable(main) => Durable = Recovered
BY DEF Durable

LEMMA DurableIsNext ==
  /\ pending' # NoTx => Durable' = pending'.state
  /\ pending' = NoTx /\ Readable(main') => Durable' = main'
  /\ pending' = NoTx /\ ~Readable(main') => Durable' = Recovered'
BY DEF Durable, Readable

\* What can be rebuilt is a state, and as new as what the backup allows.
LEMMA RecoveredTyped ==
  ASSUME DiskTyped, backup.rev < MaxRevision \/ main = Missing
  PROVE  Recovered \in Central
<1>1. Rebuilt \in Central /\ Rebuilt.rev = 0
  <2>1. Empty \in Central /\ Empty.rev = 0
    BY EmptyCentral DEF Empty
  <2>2. Rebuilt \in Central
    BY <2>1 DEF Rebuilt, Central, DiskTyped
  <2>3. Rebuilt.rev = 0
    BY <2>1 DEF Rebuilt, Central
  <2> QED BY <2>2, <2>3
<1>2. Readable(backup) => backup \in Central
  BY Files DEF DiskTyped
<1>3. CASE main # Missing /\ Readable(backup) /\ backup.tombstones # {}
  <2>1. backup.rev \in 0..MaxRevision /\ backup.rev < MaxRevision
    BY <1>2, <1>3, CentralFields
  <2>2. Larger(backup.rev, Rebuilt.rev) + 1 \in 0..MaxRevision
    BY <1>1, <2>1, RevisionAssumption DEF Larger
  <2>3. backup.tombstones \in SUBSET Sessions /\ backup.fence \in BOOLEAN
    BY <1>2, <1>3, CentralFields
  <2>4. Recovered = [Rebuilt EXCEPT !.tombstones = backup.tombstones, !.fence = backup.fence,
                       !.rev = Larger(backup.rev, @) + 1]
    BY <1>3 DEF Recovered
  <2> QED BY <1>1, <2>2, <2>3, <2>4 DEF Central
<1> QED BY <1>1, <1>2, <1>3 DEF Recovered

\* What load() recovers once processes.json is spoilt: the record files, or the backup
\* if there are none.
LEMMA RecoveredAfterDamage ==
  ASSUME DiskTyped, backup.rev < MaxRevision, main' = Damaged,
         UNCHANGED <<backup, runFile, sessionFile>>
  PROVE  /\ Recovered' \in Central
         /\ \/ Recovered'.run = runFile /\ Recovered'.session = sessionFile
            \/ /\ Recovered' = backup /\ Readable(backup)
               /\ \A k \in Keys : runFile[k] = 0
               /\ \A i \in Sessions : sessionFile[i] = 0
<1>1. Rebuilt \in Central /\ Rebuilt.run = runFile /\ Rebuilt.session = sessionFile /\ Rebuilt.rev = 0
  <2>1. Empty \in Central /\ Empty.rev = 0
    BY EmptyCentral DEF Empty
  <2> QED BY <2>1 DEF Rebuilt, Central, DiskTyped
<1>2. Rebuilt' = Rebuilt /\ main' # Missing /\ Readable(backup') = Readable(backup)
  BY DEF Rebuilt, Damaged, Missing, Readable
<1>3. Readable(backup) => backup \in Central
  BY Files DEF DiskTyped
<1>4. CASE ~Readable(backup)
  BY <1>1, <1>2, <1>4 DEF Recovered
<1>5. CASE Readable(backup) /\ backup.tombstones # {}
  <2> DEFINE lent == [Rebuilt EXCEPT !.tombstones = backup.tombstones, !.fence = backup.fence,
                                    !.rev = Larger(backup.rev, @) + 1]
  <2>1. Recovered' = lent
    BY <1>2, <1>5 DEF Recovered
  <2>2. backup.rev \in 0..MaxRevision /\ backup.tombstones \in SUBSET Sessions /\ backup.fence \in BOOLEAN
    BY <1>3, <1>5, CentralFields
  <2>3. Larger(backup.rev, Rebuilt.rev) + 1 \in 0..MaxRevision
    BY <1>1, <2>2, RevisionAssumption DEF Larger
  <2>4. lent \in Central /\ lent.run = runFile /\ lent.session = sessionFile
    BY <1>1, <2>2, <2>3 DEF Central
  <2> QED BY <2>1, <2>4
<1>6. CASE Readable(backup) /\ backup.tombstones = {}
  <2>1. \/ Recovered' = Rebuilt
        \/ /\ Recovered' = backup
           /\ \A k \in Keys : ~(runFile[k] > 0)
           /\ \A i \in Sessions : ~(sessionFile[i] > 0)
    BY <1>2, <1>6 DEF Recovered
  <2>2. (\A k \in Keys : runFile[k] \in Nat) /\ \A i \in Sessions : sessionFile[i] \in Nat
    BY DEF DiskTyped
  <2> QED BY <1>1, <1>3, <1>6, <2>1, <2>2
<1> QED BY <1>4, <1>5, <1>6

LEMMA DiskKept ==
  ASSUME DiskSound, UNCHANGED <<files, setting>>
  PROVE  DiskSound' /\ Durable' = Durable /\ Revived' = Revived /\ Recovered' = Recovered
<1>1. /\ pending' = pending /\ main' = main /\ backup' = backup /\ runFile' = runFile
      /\ sessionFile' = sessionFile /\ users' = users /\ fragile' = fragile
  BY DEF files, setting
<1>2. Recovered' = Recovered
  BY <1>1 DEF Recovered, Rebuilt
<1>3. Durable' = Durable
  BY <1>1, <1>2 DEF Durable
<1>4. Revived' = Revived
  BY <1>1, <1>3 DEF Revived
<1>5. DiskSound'
  BY <1>1, <1>3 DEF DiskSound, DiskTyped, SettingSound, Alone, PendingSound, RunFilesAgree,
     SessionFilesSound, Behind, DamageSound
<1> QED BY <1>2, <1>3, <1>4, <1>5

\* While one process writes, no other does, and none repairs the file.
LEMMA OthersSound ==
  ASSUME ActorsSound, SettingSound, NEW p \in Processes, NEW q \in Processes, q # p,
         pc[p] \in Writing \/ (pc[p] # "idle" /\ ~Readable(main)),
         pc'[q] = pc[q], users' = users
  PROVE  WriterSound(q)'
<1>1. p \in users /\ (pc[q] # "idle" => q \in users)
  BY DEF ActorsSound, LockSound, Writing
<1>2. pc[q] # "idle" => ~Alone
  BY <1>1 DEF Alone
<1>3. pc[q] \notin Writing
  <2>1. pc[q] # "idle" => Readable(main)
    BY <1>2 DEF SettingSound
  <2>2. pc[q] \in Writing => pc[q] # "idle"
    BY DEF Writing
  <2> QED BY <2>1, <2>2 DEF ActorsSound, LockSound
<1>4. pc[q] # "repair"
  <2>1. pc[q] = "repair" => ~Readable(main)
    BY DEF ActorsSound, WriterSound
  <2> QED BY <2>1, <1>2 DEF SettingSound
<1>5. pc'[q] = "read" => ~Alone'
  BY <1>2 DEF Alone
<1> QED BY <1>3, <1>4, <1>5 DEF WriterSound, Writing

--------------------------------------------------------------------------------
(* Steps that write no file *)

\* A process of its own moves on; the files stay.
LEMMA LocalStep ==
  ASSUME DiskSound, ActorsSound, UNCHANGED <<files, setting>>,
         NEW p \in users, NEW to \in Pcs, pc' = [pc EXCEPT ![p] = to],
         tx' \in [Processes -> TxRecord \cup {NoTx}], \A q \in Processes : q # p => tx'[q] = tx[q],
         seen' \in [Processes -> 0..MaxRevision],
         LockSound', lock' \in Processes \cup {None}, SeenSound', WriterSound(p)'
  PROVE  DiskSound' /\ ActorsSound' /\ Durable' = Durable /\ Revived' = Revived
<1>1. p \in Processes
  BY DEF DiskSound, DiskTyped
<1>2. pc' \in [Processes -> Pcs]
  BY DEF ActorsSound, ActorsTyped
<1>3. ASSUME NEW q \in Processes, q # p PROVE WriterSound(q)'
  <2>1. pc'[q] = pc[q] /\ tx'[q] = tx[q]
    BY <1>3 DEF ActorsSound, ActorsTyped
  <2>2. Recovered' = Recovered /\ Durable' = Durable
    BY DiskKept
  <2>3. WriterSound(q)
    BY DEF ActorsSound
  <2> QED BY <2>1, <2>2, <2>3 DEF WriterSound, Saving, Alone, files, setting, Readable
<1>4. ActorsSound'
  BY <1>1, <1>2, <1>3 DEF ActorsSound, ActorsTyped
<1> QED BY <1>4, DiskKept

\* Nothing was read, and nothing new is read.
LEMMA SeenKept ==
  ASSUME DiskSound, ActorsSound, UNCHANGED <<files, setting, seen>>,
         NEW p \in Processes, NEW to, pc' = [pc EXCEPT ![p] = to], to # "read"
  PROVE  SeenSound'
<1>1. \A q \in Processes : pc'[q] = "read" => pc[q] = "read"
  BY DEF ActorsSound, ActorsTyped
<1> QED BY <1>1, DiskKept DEF ActorsSound, SeenSound, files, setting, Readable

LEMMA ProcessOf ==
  ASSUME DiskSound, NEW p \in users
  PROVE  p \in Processes /\ p # None
BY AbsenceAssumption DEF DiskSound, DiskTyped

LEMMA LockStep ==
  ASSUME DiskSound, ActorsSound, NEW p \in users, Lock(p), UNCHANGED setting
  PROVE  DiskSound' /\ ActorsSound' /\ Durable' = Durable /\ Revived' = Revived
<1>1. p \in Processes /\ p # None
  BY ProcessOf
<1>2. LockSound' /\ lock' \in Processes \cup {None}
  <2>1. /\ pc[p] = "idle" /\ lock = None /\ lock' = p /\ users' = users
        /\ pc' = [pc EXCEPT ![p] = "recover"] /\ pc \in [Processes -> Pcs]
    BY DEF Lock, Goto, setting, ActorsSound, ActorsTyped
  <2>2. ASSUME NEW q \in Processes, q # p
        PROVE  pc'[q] = pc[q] /\ (pc[q] # "idle" => q \in users) /\ pc[q] \notin Writing
    <3>1. LockSound /\ q # None
      BY AbsenceAssumption DEF ActorsSound
    <3> QED BY <2>1, <2>2, <3>1 DEF LockSound
  <2>3. pc'[p] = "recover" /\ "recover" \in Writing
    BY <1>1, <2>1 DEF Writing
  <2> QED BY <1>1, <2>1, <2>2, <2>3 DEF LockSound
<1>3. SeenSound'
  BY <1>1, SeenKept DEF Lock, Goto
<1>4. WriterSound(p)'
  BY <1>1 DEF Lock, Goto, WriterSound, ActorsSound, ActorsTyped
<1> QED BY <1>2, <1>3, <1>4, LocalStep DEF Lock, Goto, Pcs, ActorsSound, ActorsTyped

LEMMA RecoverStep ==
  ASSUME DiskSound, ActorsSound, NEW p \in users, Recover(p), UNCHANGED setting
  PROVE  DiskSound' /\ ActorsSound' /\ Durable' = Durable /\ Revived' = Revived
<1>1. p \in Processes /\ p # None
  BY ProcessOf
<1>2. PICK to \in {"open", "run"} :
        /\ pc[p] = "recover" /\ pc' = [pc EXCEPT ![p] = to] /\ UNCHANGED <<lock, seen, files>>
        /\ to = "open" => pending = NoTx /\ tx' = tx
        /\ to = "run" => pending # NoTx /\ tx' = [tx EXCEPT ![p] = pending]
  BY DEF Recover, At, Goto
<1>3. LockSound' /\ lock' \in Processes \cup {None}
  BY <1>1, <1>2 DEF ActorsSound, ActorsTyped, LockSound, Writing, setting
<1>4. SeenSound'
  BY <1>1, <1>2, SeenKept
<1>5. pc'[p] = to /\ pending' = pending /\ (to = "run" => tx'[p] = pending)
  BY <1>1, <1>2 DEF ActorsSound, ActorsTyped, files
<1>6. WriterSound(p)'
  BY <1>2, <1>5 DEF WriterSound
<1>7. tx' \in [Processes -> TxRecord \cup {NoTx}] /\ \A q \in Processes : q # p => tx'[q] = tx[q]
  BY <1>1, <1>2 DEF ActorsSound, ActorsTyped, DiskSound, DiskTyped
<1> QED BY <1>2, <1>3, <1>4, <1>6, <1>7, LocalStep DEF Pcs, ActorsSound, ActorsTyped

LEMMA RebuildStep ==
  ASSUME DiskSound, ActorsSound, NEW p \in users, NEW from \in {"open", "read"}, Rebuild(p, from),
         UNCHANGED setting
  PROVE  DiskSound' /\ ActorsSound' /\ Durable' = Durable /\ Revived' = Revived
<1>1. p \in Processes /\ p # None
  BY ProcessOf
<1>2. /\ pc[p] = from /\ ~Readable(main) /\ pc' = [pc EXCEPT ![p] = "repair"]
      /\ tx' = [tx EXCEPT ![p] = Tx(Recovered, None, None, None)] /\ UNCHANGED <<files, lock, seen>>
  BY DEF Rebuild, Goto
<1>3. LockSound' /\ lock' \in Processes \cup {None}
  BY <1>1, <1>2 DEF ActorsSound, ActorsTyped, LockSound, Writing, setting
<1>4. SeenSound'
  BY <1>1, <1>2, SeenKept
<1>5. backup.rev < MaxRevision \/ main = Missing
  BY <1>2, Files DEF DiskSound, DiskTyped, DamageSound
<1>6. Tx(Recovered, None, None, None) \in TxRecord
  BY <1>5, RecoveredTyped DEF DiskSound, Tx, TxRecord
<1>7. tx' \in [Processes -> TxRecord \cup {NoTx}] /\ \A q \in Processes : q # p => tx'[q] = tx[q]
  BY <1>1, <1>2, <1>6 DEF ActorsSound, ActorsTyped
<1>8. pending = NoTx
  <2>1. WriterSound(p)
    BY <1>1 DEF ActorsSound
  <2>2. Alone
    BY <1>2 DEF DiskSound, SettingSound
  <2> QED BY <1>2, <2>1, <2>2 DEF WriterSound
<1>9. WriterSound(p)'
  <2>1. pc'[p] = "repair" /\ tx'[p] = Tx(Recovered, None, None, None)
    BY <1>1, <1>2 DEF ActorsSound, ActorsTyped
  <2>2. pending' = NoTx /\ ~Readable(main') /\ Recovered' = Recovered
    BY <1>2, <1>8, DiskKept DEF files
  <2> QED BY <2>1, <2>2 DEF WriterSound, Readable
<1> QED BY <1>2, <1>3, <1>4, <1>7, <1>9, LocalStep DEF Pcs, ActorsSound, ActorsTyped

LEMMA CommitStep ==
  ASSUME DiskSound, ActorsSound, NEW p \in users, Commit(p), UNCHANGED setting
  PROVE  DiskSound' /\ ActorsSound' /\ Durable' = Durable /\ Revived' = Revived
<1>1. p \in Processes /\ p # None
  BY ProcessOf
<1>2. PICK t \in Transactions(main) :
        /\ pc[p] = "open" /\ pc' = [pc EXCEPT ![p] = "pending"] /\ UNCHANGED <<lock, seen, files>>
        /\ Readable(main) /\ main.rev < MaxRevision
        /\ t.state \in Central /\ tx' = [tx EXCEPT ![p] = t]
  BY DEF Commit, At, Goto
<1>3. LockSound' /\ lock' \in Processes \cup {None}
  BY <1>1, <1>2 DEF ActorsSound, ActorsTyped, LockSound, Writing, setting
<1>4. SeenSound'
  BY <1>1, <1>2, SeenKept
<1>5. t \in TxRecord
  BY <1>2, Files, TransactionNames DEF DiskSound, DiskTyped, Names
<1>6. tx' \in [Processes -> TxRecord \cup {NoTx}] /\ \A q \in Processes : q # p => tx'[q] = tx[q]
  BY <1>1, <1>2, <1>5 DEF ActorsSound, ActorsTyped
<1>7. WriterSound(p)'
  <2>1. pc'[p] = "pending" /\ tx'[p] = t /\ main' = main /\ pending' = pending
    BY <1>1, <1>2 DEF ActorsSound, ActorsTyped, files
  <2>2. pending = NoTx
    BY <1>1, <1>2 DEF ActorsSound, WriterSound
  <2> QED BY <1>2, <2>1, <2>2 DEF WriterSound, Readable
<1> QED BY <1>2, <1>3, <1>4, <1>6, <1>7, LocalStep DEF Pcs, ActorsSound, ActorsTyped

LEMMA SaveStep ==
  ASSUME DiskSound, ActorsSound, NEW p \in users, Save(p), UNCHANGED setting
  PROVE  DiskSound' /\ ActorsSound' /\ Durable' = Durable /\ Revived' = Revived
<1>1. p \in Processes /\ p # None
  BY ProcessOf
<1> DEFINE t == Tx(WithFence(main), None, None, None)
<1>2. /\ pc[p] = "open" /\ pc' = [pc EXCEPT ![p] = "backup"] /\ UNCHANGED <<lock, seen, files>>
      /\ Readable(main) /\ main.rev < MaxRevision /\ tx' = [tx EXCEPT ![p] = t]
  BY DEF Save, At, Goto
<1>3. LockSound' /\ lock' \in Processes \cup {None}
  BY <1>1, <1>2 DEF ActorsSound, ActorsTyped, LockSound, Writing, setting
<1>4. SeenSound'
  BY <1>1, <1>2, SeenKept
<1>5. t \in TxRecord
  BY <1>2, Files, FenceSwitched DEF DiskSound, DiskTyped, Tx, TxRecord
<1>6. tx' \in [Processes -> TxRecord \cup {NoTx}] /\ \A q \in Processes : q # p => tx'[q] = tx[q]
  BY <1>1, <1>2, <1>5 DEF ActorsSound, ActorsTyped
<1>7. WriterSound(p)'
  <2>1. pc'[p] = "backup" /\ tx'[p] = t /\ main' = main /\ pending' = pending
    BY <1>1, <1>2 DEF ActorsSound, ActorsTyped, files
  <2>2. pending = NoTx
    BY <1>1, <1>2 DEF ActorsSound, WriterSound
  <2> QED BY <1>2, <2>1, <2>2 DEF WriterSound, Saving, Readable
<1> QED BY <1>2, <1>3, <1>4, <1>6, <1>7, LocalStep DEF Pcs, ActorsSound, ActorsTyped

\* Whoever goes back to idle leaves the lock.
LEMMA LockLeft ==
  ASSUME ActorsSound, NEW p \in users, p \in Processes, pc' = [pc EXCEPT ![p] = "idle"],
         lock' = IF lock = p THEN None ELSE lock, users' = users
  PROVE  LockSound' /\ lock' \in Processes \cup {None}
<1>1. pc'[p] = "idle" /\ "idle" \notin Writing /\ p # None
  BY AbsenceAssumption DEF Writing, ActorsSound, ActorsTyped
<1>2. ASSUME NEW q \in Processes, q # p
      PROVE  /\ pc'[q] # "idle" => q \in users'
             /\ pc'[q] \in Writing => lock' = q
             /\ lock' = q => pc'[q] \in Writing \cup {"repair"}
  <2>1. pc'[q] = pc[q] /\ q # None
    BY <1>2, AbsenceAssumption DEF ActorsSound, ActorsTyped
  <2>2. LockSound
    BY DEF ActorsSound
  <2> QED BY <1>2, <2>1, <2>2 DEF LockSound
<1>3. lock' # p
  BY <1>1
<1>4. lock' \in Processes \cup {None}
  BY DEF ActorsSound, ActorsTyped
<1> QED BY <1>1, <1>2, <1>3, <1>4 DEF LockSound

\* What a reader has seen when its read ends.
LEMMA SeenRead ==
  ASSUME DiskSound, ActorsSound, UNCHANGED <<files, setting>>,
         NEW p \in Processes, NEW n \in 0..MaxRevision, ~fragile => n <= Durable.rev,
         pc' = [pc EXCEPT ![p] = "idle"], seen' = [seen EXCEPT ![p] = n]
  PROVE  SeenSound' /\ seen' \in [Processes -> 0..MaxRevision]
<1>1. Durable' = Durable /\ main' = main /\ fragile' = fragile
  BY DiskKept DEF files, setting
<1>2. ASSUME NEW q \in Processes
      PROVE  /\ q = p => pc'[q] = "idle" /\ seen'[q] = n
             /\ q # p => pc'[q] = pc[q] /\ seen'[q] = seen[q]
  BY DEF ActorsSound, ActorsTyped
<1>3. SeenSound'
  BY <1>1, <1>2 DEF ActorsSound, SeenSound, Readable
<1>4. seen' \in [Processes -> 0..MaxRevision]
  BY DEF ActorsSound, ActorsTyped
<1> QED BY <1>3, <1>4

LEMMA ReleaseStep ==
  ASSUME DiskSound, ActorsSound, NEW p \in users, Release(p), UNCHANGED setting
  PROVE  DiskSound' /\ ActorsSound' /\ Durable' = Durable /\ Revived' = Revived
<1>1. p \in Processes /\ p # None
  BY ProcessOf
<1>2. pc[p] = "open" /\ pc' = [pc EXCEPT ![p] = "idle"] /\ lock' = None /\ UNCHANGED <<files, tx, seen>>
  BY DEF Release, Goto
<1>3. lock = p
  BY <1>1, <1>2 DEF ActorsSound, LockSound, Writing
<1>4. LockSound' /\ lock' \in Processes \cup {None}
  BY <1>1, <1>2, <1>3, LockLeft DEF setting
<1>5. SeenSound'
  BY <1>1, <1>2, SeenKept
<1>6. WriterSound(p)'
  BY <1>1, <1>2 DEF WriterSound, ActorsSound, ActorsTyped
<1> QED BY <1>2, <1>4, <1>5, <1>6, LocalStep DEF Pcs, ActorsSound, ActorsTyped

LEMMA InterruptStep ==
  ASSUME DiskSound, ActorsSound, NEW p \in users, Interrupt(p), UNCHANGED setting
  PROVE  DiskSound' /\ ActorsSound' /\ Durable' = Durable /\ Revived' = Revived
<1>1. p \in Processes /\ p # None
  BY ProcessOf
<1>2. /\ pc' = [pc EXCEPT ![p] = "idle"] /\ lock' = IF lock = p THEN None ELSE lock
      /\ UNCHANGED <<files, tx, seen>>
  BY DEF Interrupt, Goto
<1>4. LockSound' /\ lock' \in Processes \cup {None}
  BY <1>1, <1>2, LockLeft DEF setting
<1>5. SeenSound'
  BY <1>1, <1>2, SeenKept
<1>6. WriterSound(p)'
  BY <1>1, <1>2 DEF WriterSound, ActorsSound, ActorsTyped
<1> QED BY <1>2, <1>4, <1>5, <1>6, LocalStep DEF Pcs, ActorsSound, ActorsTyped

LEMMA PeekStep ==
  ASSUME DiskSound, ActorsSound, NEW p \in users, Peek(p), UNCHANGED setting
  PROVE  DiskSound' /\ ActorsSound' /\ Durable' = Durable /\ Revived' = Revived
<1>1. p \in Processes /\ p # None
  BY ProcessOf
<1>2. PICK to \in {"read", "peeked"} :
        /\ pc[p] = "idle" /\ pc' = [pc EXCEPT ![p] = to] /\ UNCHANGED <<files, lock, tx, seen>>
        /\ to = "read" => pending = NoTx
  BY DEF Peek, Goto
<1>3. ASSUME NEW q \in Processes
      PROVE  /\ q = p => pc'[q] = to
             /\ q # p => pc'[q] = pc[q]
  BY <1>2 DEF ActorsSound, ActorsTyped
<1>4. LockSound' /\ lock' \in Processes \cup {None}
  BY <1>1, <1>2, <1>3 DEF ActorsSound, ActorsTyped, LockSound, Writing, setting
<1>5. SeenSound'
  <2>1. Durable' = Durable /\ main' = main /\ fragile' = fragile /\ seen' = seen
    BY <1>2, DiskKept DEF files, setting
  <2>2. to = "read" /\ Readable(main) => Durable = main
    BY <1>2, DurableIs
  <2> QED BY <1>1, <1>3, <2>1, <2>2 DEF ActorsSound, SeenSound, Readable
<1>6. WriterSound(p)'
  BY <1>1, <1>2, <1>3 DEF WriterSound, files
<1> QED BY <1>2, <1>4, <1>5, <1>6, LocalStep DEF Pcs, ActorsSound, ActorsTyped

LEMMA ReadPendingStep ==
  ASSUME DiskSound, ActorsSound, NEW p \in users, ReadPending(p), UNCHANGED setting
  PROVE  DiskSound' /\ ActorsSound' /\ Durable' = Durable /\ Revived' = Revived
<1>1. p \in Processes /\ p # None
  BY ProcessOf
<1>2. /\ pc[p] = "peeked" /\ pc' = [pc EXCEPT ![p] = "idle"] /\ UNCHANGED <<files, lock, tx>>
      /\ seen' = seen \/ (pending # NoTx /\ seen' = [seen EXCEPT ![p] = pending.state.rev])
  BY DEF ReadPending, Read, Goto
<1>3. lock # p
  BY <1>1, <1>2 DEF ActorsSound, LockSound, Writing
<1>4. LockSound' /\ lock' \in Processes \cup {None}
  BY <1>1, <1>2, <1>3, LockLeft DEF setting
<1>5. SeenSound' /\ seen' \in [Processes -> 0..MaxRevision]
  <2>1. CASE seen' = seen
    BY <1>1, <1>2, <2>1, SeenKept DEF ActorsSound, ActorsTyped
  <2>2. CASE pending # NoTx /\ seen' = [seen EXCEPT ![p] = pending.state.rev]
    <3>1. Durable = pending.state /\ pending.state.rev \in 0..MaxRevision
      BY <2>2, DurableIs, TxParts, CentralFields DEF DiskSound, DiskTyped
    <3>2. PICK n \in 0..MaxRevision : n = pending.state.rev /\ n <= Durable.rev
      BY <3>1, RevisionAssumption
    <3> QED BY <1>1, <1>2, <2>2, <3>2, SeenRead
  <2> QED BY <1>2, <2>1, <2>2
<1>6. WriterSound(p)'
  BY <1>1, <1>2 DEF WriterSound, ActorsSound, ActorsTyped
<1> QED BY <1>2, <1>4, <1>5, <1>6, LocalStep DEF Pcs, ActorsSound, ActorsTyped

LEMMA ReadMainStep ==
  ASSUME DiskSound, ActorsSound, NEW p \in users, ReadMain(p), UNCHANGED setting
  PROVE  DiskSound' /\ ActorsSound' /\ Durable' = Durable /\ Revived' = Revived
<1>1. p \in Processes /\ p # None
  BY ProcessOf
<1>2. /\ pc[p] = "read" /\ pc' = [pc EXCEPT ![p] = "idle"] /\ UNCHANGED <<files, lock, tx>>
      /\ Readable(main) /\ seen' = [seen EXCEPT ![p] = main.rev]
  BY DEF ReadMain, Read, Goto
<1>3. lock # p
  BY <1>1, <1>2 DEF ActorsSound, LockSound, Writing
<1>4. LockSound' /\ lock' \in Processes \cup {None}
  BY <1>1, <1>2, <1>3, LockLeft DEF setting
<1>5. SeenSound' /\ seen' \in [Processes -> 0..MaxRevision]
  <2>1. main.rev \in 0..MaxRevision
    BY <1>2, Files, CentralFields DEF DiskSound, DiskTyped
  <2>2. main.rev <= Durable.rev
    <3>1. CASE pending = NoTx
      BY <1>2, <2>1, <3>1, DurableIs
    <3>2. CASE pending # NoTx
      BY <1>2, <3>2, DurableIs DEF DiskSound, PendingSound
    <3> QED BY <3>1, <3>2
  <2> QED BY <1>1, <1>2, <2>1, <2>2, SeenRead
<1>6. WriterSound(p)'
  BY <1>1, <1>2 DEF WriterSound, ActorsSound, ActorsTyped
<1> QED BY <1>2, <1>4, <1>5, <1>6, LocalStep DEF Pcs, ActorsSound, ActorsTyped
--------------------------------------------------------------------------------
(* Steps that write a file *)

LEMMA FileRevision ==
  ASSUME NEW file \in File
  PROVE  file.rev \in Int
BY CentralFields, RevisionAssumption DEF File, Missing, Damaged

\* A process that writes moves on.
LEMMA WriteFrame ==
  ASSUME DiskSound, ActorsSound, UNCHANGED <<setting, lock, tx>>,
         NEW p \in users, NEW to \in Pcs, pc' = [pc EXCEPT ![p] = to],
         pc[p] \in Writing \/ (pc[p] # "idle" /\ ~Readable(main)), lock = p <=> to \in Writing,
         seen' \in [Processes -> 0..MaxRevision], SeenSound', WriterSound(p)'
  PROVE  ActorsSound'
<1>1. p \in Processes /\ p # None
  BY ProcessOf
<1>2. ASSUME NEW q \in Processes
      PROVE  /\ q = p => pc'[q] = to
             /\ q # p => pc'[q] = pc[q]
  BY DEF ActorsSound, ActorsTyped
<1>3. LockSound'
  BY <1>1, <1>2 DEF ActorsSound, LockSound, setting
<1>4. \A q \in Processes : WriterSound(q)'
  BY <1>1, <1>2, OthersSound DEF DiskSound, setting
<1> QED BY <1>3, <1>4 DEF ActorsSound, ActorsTyped

\* The writer at work holds the lock, and its transaction is the pending one.
LEMMA WriterHolds ==
  ASSUME DiskSound, ActorsSound, NEW p \in users, pc[p] \in Writing
  PROVE  /\ p \in Processes /\ p # None /\ lock = p /\ WriterSound(p)
         /\ pending \in TxRecord \cup {NoTx} /\ main \in File /\ main.rev \in Int
         /\ tx[p] \in TxRecord \cup {NoTx}
         /\ pending # NoTx => pending.state \in Central
<1>1. p \in Processes /\ p # None
  BY ProcessOf
<1>2. lock = p /\ WriterSound(p) /\ tx[p] \in TxRecord \cup {NoTx}
  BY <1>1 DEF ActorsSound, ActorsTyped, LockSound
<1>3. pending \in TxRecord \cup {NoTx} /\ main \in File /\ main.rev \in Int
  BY FileRevision DEF DiskSound, DiskTyped
<1> QED BY <1>1, <1>2, <1>3, TxParts

\* The reader sees no less while processes.json and what is durable stay as they are.
LEMMA SeenStays ==
  ASSUME ActorsSound, NEW p \in Processes, NEW to, to # "read",
         pc' = [pc EXCEPT ![p] = to], fragile' = fragile, main' = main, Durable' = Durable, seen' = seen
  PROVE  SeenSound'
<1>1. \A q \in Processes : pc'[q] = "read" => pc[q] = "read"
  BY DEF ActorsSound, ActorsTyped
<1> QED BY <1>1 DEF ActorsSound, SeenSound, Readable

LEMMA WriteRunStep ==
  ASSUME DiskSound, ActorsSound, NEW p \in users, WriteRun(p), UNCHANGED setting
  PROVE  DiskSound' /\ ActorsSound' /\ Durable' = Durable /\ Revived' = Revived
<1> DEFINE k == pending.run
<1>1. /\ pc[p] = "run" /\ pc' = [pc EXCEPT ![p] = "session"]
      /\ UNCHANGED <<lock, seen, pending, main, backup, sessionFile, tx>>
      /\ runFile' = IF tx[p].run = None THEN runFile
                    ELSE [runFile EXCEPT ![tx[p].run] = tx[p].state.run[tx[p].run]]
  BY DEF WriteRun, At, Goto
<1>2. pc[p] \in Writing /\ "session" \in Writing /\ "session" \in Pcs
  BY <1>1 DEF Writing, Pcs
<1>3. /\ p \in Processes /\ lock = p /\ pending # NoTx /\ pending = tx[p] /\ pending.state \in Central
      /\ pending \in TxRecord
  BY <1>1, <1>2, WriterHolds DEF WriterSound
<1>4. Durable' = pending.state /\ Durable = pending.state /\ Durable' = Durable
  BY <1>1, <1>3 DEF Durable
<1>5. Revived' = Revived
  BY <1>1, <1>4 DEF Revived
<1>6. /\ runFile' \in [Keys -> 0..MaxRevision]
      /\ \A x \in Keys : x # k => runFile'[x] = runFile[x]
      /\ k # None => runFile'[k] = pending.state.run[k] /\ runFile'[k] > 0
  <2>1. k \in Keys \cup {None} /\ pending.state.run \in [Keys -> 0..MaxRevision]
    BY <1>3, CentralFields DEF TxRecord
  <2>2. k # None => pending.state.run[k] > 0
    BY <1>3 DEF DiskSound, PendingSound
  <2> QED BY <1>1, <1>3, <2>1, <2>2 DEF DiskSound, DiskTyped
<1>7. \A x \in Keys : x = k => k # None
  BY AbsenceAssumption
<1>8. DiskSound'
  <2>1. DiskTyped' /\ SettingSound' /\ DamageSound' /\ PendingSound'
    BY <1>1, <1>6 DEF DiskSound, DiskTyped, SettingSound, Alone, DamageSound, PendingSound, setting, Readable
  <2>2. RunFilesAgree'
    BY <1>1, <1>4, <1>6 DEF DiskSound, RunFilesAgree
  <2>3. SessionFilesSound'
    BY <1>1, <1>4 DEF DiskSound, SessionFilesSound, setting
  <2>4. Behind(main)' /\ Behind(backup)'
    <3>1. \A x \in Keys : runFile'[x] = 0 => runFile[x] = 0
      BY <1>6, <1>7
    <3> QED BY <1>1, <3>1 DEF DiskSound, Behind, Readable
  <2> QED BY <2>1, <2>2, <2>3, <2>4 DEF DiskSound
<1>9. SeenSound'
  BY <1>1, <1>3, <1>4, SeenStays DEF setting
<1>10. WriterSound(p)'
  <2>1. pc'[p] = "session"
    BY <1>1, <1>3 DEF ActorsSound, ActorsTyped
  <2> QED BY <1>1, <1>3, <1>6, <2>1 DEF WriterSound
<1>11. ActorsSound'
  BY <1>1, <1>2, <1>3, <1>9, <1>10, WriteFrame DEF ActorsSound, ActorsTyped
<1> QED BY <1>4, <1>5, <1>8, <1>11

LEMMA WriteSessionStep ==
  ASSUME DiskSound, ActorsSound, NEW p \in users, WriteSession(p), UNCHANGED setting
  PROVE  DiskSound' /\ ActorsSound' /\ Durable' = Durable /\ Revived' = Revived
<1> DEFINE i == pending.session
<1>1. /\ pc[p] = "session" /\ pc' = [pc EXCEPT ![p] = "backup"]
      /\ UNCHANGED <<lock, seen, pending, main, backup, runFile, tx>>
      /\ sessionFile' = IF tx[p].session = None THEN sessionFile
                        ELSE [sessionFile EXCEPT ![tx[p].session] = tx[p].state.session[tx[p].session]]
  BY DEF WriteSession, At, Goto
<1>2. pc[p] \in Writing /\ "backup" \in Writing /\ "backup" \in Pcs
  BY <1>1 DEF Writing, Pcs
<1>3. /\ p \in Processes /\ lock = p /\ pending # NoTx /\ pending = tx[p] /\ pending.state \in Central
      /\ pending \in TxRecord /\ WriterSound(p)
  BY <1>1, <1>2, WriterHolds DEF WriterSound
<1>4. Durable' = pending.state /\ Durable = pending.state /\ Durable' = Durable
  BY <1>1, <1>3 DEF Durable
<1>6. /\ sessionFile' \in [Sessions -> 0..MaxRevision]
      /\ \A x \in Sessions : x # i => sessionFile'[x] = sessionFile[x]
      /\ i # None => sessionFile'[i] = pending.state.session[i]
  <2>1. i \in Sessions \cup {None} /\ pending.state.session \in [Sessions -> 0..MaxRevision]
    BY <1>3, CentralFields DEF TxRecord
  <2> QED BY <1>1, <1>3, <2>1 DEF DiskSound, DiskTyped
<1>5. Revived' = Revived
  <2>1. \A x \in Open(Durable) \ {i} : sessionFile'[x] = sessionFile[x]
    BY <1>6 DEF Open
  <2> QED BY <1>1, <1>4, <2>1 DEF Revived
<1>8. DiskSound'
  <2>1. DiskTyped' /\ SettingSound' /\ DamageSound' /\ PendingSound'
    BY <1>1, <1>6 DEF DiskSound, DiskTyped, SettingSound, Alone, DamageSound, PendingSound, setting, Readable
  <2>2. RunFilesAgree'
    BY <1>1, <1>4 DEF DiskSound, RunFilesAgree
  <2>3. SessionFilesSound'
    BY <1>1, <1>4, <1>6 DEF DiskSound, SessionFilesSound, setting
  <2>4. Behind(main)' /\ Behind(backup)'
    BY <1>1 DEF DiskSound, Behind, Readable
  <2> QED BY <2>1, <2>2, <2>3, <2>4 DEF DiskSound
<1>9. SeenSound'
  BY <1>1, <1>3, <1>4, SeenStays DEF setting
<1>10. WriterSound(p)'
  <2>1. pc'[p] = "backup"
    BY <1>1, <1>3 DEF ActorsSound, ActorsTyped
  <2> QED BY <1>1, <1>3, <1>6, <2>1 DEF WriterSound
<1>11. ActorsSound'
  BY <1>1, <1>2, <1>3, <1>9, <1>10, WriteFrame DEF ActorsSound, ActorsTyped
<1> QED BY <1>4, <1>5, <1>8, <1>11

LEMMA WriteBackupStep ==
  ASSUME DiskSound, ActorsSound, NEW p \in users, WriteBackup(p), UNCHANGED setting
  PROVE  DiskSound' /\ ActorsSound' /\ Durable' = Durable /\ Revived' = Revived
<1>1. /\ pc[p] = "backup" /\ pc' = [pc EXCEPT ![p] = "main"]
      /\ UNCHANGED <<lock, seen, pending, main, sessionFile, runFile, tx>>
      /\ backup' = IF Readable(main) THEN main ELSE backup
  BY DEF WriteBackup, At, Goto
<1>2. pc[p] \in Writing /\ "main" \in Writing /\ "main" \in Pcs
  BY <1>1 DEF Writing, Pcs
<1>3. /\ p \in Processes /\ lock = p /\ WriterSound(p)
      /\ Saving(p) \/ (pending # NoTx /\ pending = tx[p])
  BY <1>1, <1>2, WriterHolds DEF WriterSound
<1>4. Durable' = Durable
  <2>1. CASE Saving(p)
    BY <1>1, <2>1 DEF Durable, Saving, Readable
  <2>2. CASE pending # NoTx
    BY <1>1, <2>2 DEF Durable
  <2> QED BY <1>3, <2>1, <2>2
<1>5. Revived' = Revived
  BY <1>1, <1>4 DEF Revived
<1>8. DiskSound'
  <2>1. backup' \in File \ {Damaged} /\ (main = Damaged => backup' = backup)
    BY <1>1, Files, CentralFields DEF DiskSound, DiskTyped, Readable, Damaged
  <2>2. DiskTyped' /\ SettingSound' /\ DamageSound' /\ PendingSound'
    BY <1>1, <2>1 DEF DiskSound, DiskTyped, SettingSound, Alone, DamageSound, PendingSound, setting, Readable
  <2>3. RunFilesAgree' /\ SessionFilesSound'
    BY <1>1, <1>4 DEF DiskSound, RunFilesAgree, SessionFilesSound, setting
  <2>4. Behind(main)' /\ Behind(backup)'
    BY <1>1 DEF DiskSound, Behind, Readable
  <2> QED BY <2>2, <2>3, <2>4 DEF DiskSound
<1>9. SeenSound'
  BY <1>1, <1>3, <1>4, SeenStays DEF setting
<1>10. WriterSound(p)'
  <2>1. pc'[p] = "main"
    BY <1>1, <1>3 DEF ActorsSound, ActorsTyped
  <2> QED BY <1>1, <1>3, <2>1 DEF WriterSound, Saving, Readable
<1>11. ActorsSound'
  BY <1>1, <1>2, <1>3, <1>9, <1>10, WriteFrame DEF ActorsSound, ActorsTyped
<1> QED BY <1>4, <1>5, <1>8, <1>11

LEMMA DeleteSessionStep ==
  ASSUME DiskSound, ActorsSound, NEW p \in users, DeleteSession(p), UNCHANGED setting
  PROVE  DiskSound' /\ ActorsSound' /\ Durable' = Durable /\ Revived' = Revived
<1> DEFINE i == tx[p].delete
<1>1. /\ pc[p] = "delete" /\ pc' = [pc EXCEPT ![p] = "unlink"]
      /\ UNCHANGED <<lock, seen, pending, main, backup, runFile, tx>>
      /\ sessionFile' = IF i = None THEN sessionFile ELSE [sessionFile EXCEPT ![i] = 0]
  BY DEF DeleteSession, At, Goto
<1>2. pc[p] \in Writing /\ "unlink" \in Writing /\ "unlink" \in Pcs
  BY <1>1 DEF Writing, Pcs
<1>3. /\ p \in Processes /\ lock = p /\ WriterSound(p) /\ tx[p] \in TxRecord \cup {NoTx}
      /\ main = tx[p].state /\ Readable(main)
      /\ pending = tx[p] \/ (pending = NoTx /\ i = None)
      /\ pending \in TxRecord \cup {NoTx}
  BY <1>1, <1>2, WriterHolds DEF WriterSound
<1>4. Durable' = Durable
  BY <1>1, <1>3 DEF Durable, Readable
<1>5. /\ pending.delete = i /\ i \in Sessions \cup {None}
      /\ i # None => /\ pending # NoTx /\ Durable = pending.state /\ Durable.session[i] = 0
                     /\ i # pending.session
  <2>1. pending.delete = i /\ i \in Sessions \cup {None}
    BY <1>3, TxParts
  <2>2. i # None => pending # NoTx /\ Durable = pending.state /\ Durable.session[i] = 0
    BY <2>1, <1>3, TxParts, DurableIs DEF DiskSound, PendingSound
  <2>3. i # None => i # pending.session
    BY <2>1, <2>2 DEF DiskSound, PendingSound
  <2> QED BY <2>1, <2>2, <2>3
<1>6. /\ sessionFile' \in [Sessions -> 0..MaxRevision]
      /\ \A x \in Sessions : x # i => sessionFile'[x] = sessionFile[x]
      /\ i # None => sessionFile'[i] = 0
  BY <1>1, <1>5, RevisionAssumption DEF DiskSound, DiskTyped
<1>7. Revived' = Revived
  <2>1. \A x \in Open(Durable) : x # i
    BY <1>5, AbsenceAssumption DEF Open
  <2>2. \A x \in Open(Durable) : sessionFile'[x] = sessionFile[x]
    BY <1>6, <2>1 DEF Open
  <2> QED BY <1>1, <1>4, <2>2 DEF Revived
<1>8. DiskSound'
  <2>1. DiskTyped' /\ SettingSound' /\ DamageSound' /\ PendingSound'
    BY <1>1, <1>6 DEF DiskSound, DiskTyped, SettingSound, Alone, DamageSound, PendingSound, setting, Readable
  <2>2. RunFilesAgree'
    BY <1>1, <1>4 DEF DiskSound, RunFilesAgree
  <2>3. SessionFilesSound'
    BY <1>1, <1>4, <1>5, <1>6 DEF DiskSound, SessionFilesSound, setting
  <2>4. Behind(main)' /\ Behind(backup)'
    BY <1>1 DEF DiskSound, Behind, Readable
  <2> QED BY <2>1, <2>2, <2>3, <2>4 DEF DiskSound
<1>9. SeenSound'
  BY <1>1, <1>3, <1>4, SeenStays DEF setting
<1>10. WriterSound(p)'
  <2>1. pc'[p] = "unlink"
    BY <1>1, <1>3 DEF ActorsSound, ActorsTyped
  <2>2. pending.session # None => sessionFile'[pending.session] = sessionFile[pending.session]
    BY <1>1, <1>5, <1>6, <1>3, TxParts
  <2> QED BY <1>1, <1>3, <1>5, <1>6, <2>1, <2>2 DEF WriterSound, Readable
<1>11. ActorsSound'
  BY <1>1, <1>2, <1>3, <1>9, <1>10, WriteFrame DEF ActorsSound, ActorsTyped
<1> QED BY <1>4, <1>7, <1>8, <1>11

LEMMA UnlinkStep ==
  ASSUME DiskSound, ActorsSound, NEW p \in users, Unlink(p), UNCHANGED setting
  PROVE  DiskSound' /\ ActorsSound' /\ Durable' = Durable /\ Revived' = Revived
<1>1. /\ pc[p] = "unlink" /\ pc' = [pc EXCEPT ![p] = "open"] /\ pending' = NoTx
      /\ seen' = [seen EXCEPT ![p] = tx[p].state.rev]
      /\ UNCHANGED <<lock, main, backup, runFile, sessionFile, tx>>
  BY DEF Unlink, Goto
<1>2. pc[p] \in Writing /\ "open" \in Writing /\ "open" \in Pcs
  BY <1>1 DEF Writing, Pcs
<1>3. /\ p \in Processes /\ lock = p /\ WriterSound(p)
      /\ main = tx[p].state /\ Readable(main) /\ main \in Central /\ main.rev \in 0..MaxRevision
      /\ pending = tx[p] \/ pending = NoTx
      /\ pending \in TxRecord \cup {NoTx}
  <2>1. /\ p \in Processes /\ lock = p /\ WriterSound(p)
        /\ main = tx[p].state /\ Readable(main)
        /\ pending = tx[p] \/ pending = NoTx
        /\ pending \in TxRecord \cup {NoTx} /\ main \in File
    BY <1>1, <1>2, WriterHolds DEF WriterSound
  <2> QED BY <2>1, Files, CentralFields
<1>4. Durable = main /\ Durable' = main
  BY <1>1, <1>3 DEF Durable, Readable
<1>5. /\ pending.run # None => runFile[pending.run] = main.run[pending.run]
      /\ pending.session # None =>
           sessionFile[pending.session] = main.session[pending.session] /\ main.session[pending.session] > 0
      /\ pending.delete # None => sessionFile[pending.delete] = 0 /\ main.session[pending.delete] = 0
  BY <1>1, <1>3, TxParts DEF DiskSound, PendingSound, WriterSound
<1>6. pending'.run = None /\ pending'.session = None /\ pending'.delete = None
  BY <1>1 DEF NoTx
<1>7. Revived' = Revived
  <2>1. /\ Revived = {x \in Open(main) \ {pending.session} : sessionFile[x] = 0}
        /\ Revived' = {x \in Open(main) \ {None} : sessionFile[x] = 0}
    BY <1>1, <1>4, <1>6 DEF Revived
  <2>2. \A x \in Open(main) : sessionFile[x] = 0 => x # None /\ x # pending.session
    BY <1>5, AbsenceAssumption DEF Open
  <2> QED BY <2>1, <2>2
<1>8. DiskSound'
  <2>1. DiskTyped' /\ SettingSound' /\ DamageSound' /\ PendingSound'
    BY <1>1 DEF DiskSound, DiskTyped, SettingSound, Alone, DamageSound, PendingSound, setting, Readable
  <2>2. RunFilesAgree'
    <3>1. \A k \in Keys : runFile[k] = main.run[k]
      BY <1>4, <1>5, AbsenceAssumption DEF DiskSound, RunFilesAgree
    <3> QED BY <1>1, <1>4, <3>1 DEF RunFilesAgree
  <2>3. SessionFilesSound'
    <3>1. ASSUME NEW i \in Sessions
          PROVE  sessionFile[i] \in {0, main.session[i]} /\ (~fragile => sessionFile[i] = main.session[i])
      <4>1. CASE i = pending.session
        BY <4>1, <1>5, AbsenceAssumption
      <4>2. CASE i = pending.delete
        BY <4>2, <1>5, AbsenceAssumption
      <4>3. CASE i # pending.session /\ i # pending.delete
        BY <4>3, <1>4 DEF DiskSound, SessionFilesSound
      <4> QED BY <4>1, <4>2, <4>3
    <3> QED BY <1>1, <1>4, <3>1 DEF SessionFilesSound, setting
  <2>4. Behind(main)' /\ Behind(backup)'
    BY <1>1 DEF DiskSound, Behind, Readable
  <2> QED BY <2>1, <2>2, <2>3, <2>4 DEF DiskSound
<1>9. SeenSound' /\ seen' \in [Processes -> 0..MaxRevision]
  <2>1. \A q \in Processes : /\ q = p => pc'[q] = "open" /\ seen'[q] = Durable'.rev
                             /\ q # p => pc'[q] = pc[q] /\ seen'[q] = seen[q]
    BY <1>1, <1>3, <1>4 DEF ActorsSound, ActorsTyped
  <2>2. SeenSound'
    BY <1>1, <1>3, <1>4, <2>1 DEF ActorsSound, SeenSound, Readable, setting
  <2> QED BY <1>1, <1>3, <2>2 DEF ActorsSound, ActorsTyped
<1>10. WriterSound(p)'
  <2>1. pc'[p] = "open"
    BY <1>1, <1>3 DEF ActorsSound, ActorsTyped
  <2> QED BY <1>1, <2>1 DEF WriterSound
<1>11. ActorsSound'
  BY <1>1, <1>2, <1>3, <1>9, <1>10, WriteFrame
<1> QED BY <1>4, <1>7, <1>8, <1>11

\* The pending file makes the transaction durable.
LEMMA WritePendingStep ==
  ASSUME DiskSound, ActorsSound, NEW p \in users, WritePending(p), UNCHANGED setting
  PROVE  DiskSound' /\ ActorsSound' /\ Atomic!Commit
<1> DEFINE t == tx[p]
<1>1. /\ pc[p] = "pending" /\ pc' = [pc EXCEPT ![p] = "run"] /\ pending' = t
      /\ UNCHANGED <<lock, seen, main, backup, runFile, sessionFile, tx>>
  BY DEF WritePending, At, Goto
<1>2. pc[p] \in Writing /\ "run" \in Writing /\ "run" \in Pcs
  BY <1>1 DEF Writing, Pcs
<1>3. /\ p \in Processes /\ lock = p /\ main \in Central /\ main.rev < MaxRevision /\ Readable(main)
      /\ t \in Transactions(main) /\ t.state \in Central /\ pending = NoTx
  BY <1>1, <1>2, WriterHolds, Files DEF WriterSound
<1>4. /\ Names(t, main) /\ main.rev \in 0..MaxRevision
      /\ main.session \in [Sessions -> 0..MaxRevision] /\ t.state.session \in [Sessions -> 0..MaxRevision]
      /\ t.state.rev \in 0..MaxRevision
  BY <1>3, TransactionNames, CentralFields
<1>5. Durable = main /\ Durable' = t.state
  <2>1. pending' # NoTx
    BY <1>1, <1>4 DEF Names
  <2> QED BY <1>1, <1>3, <2>1, DurableIs, DurableIsNext
<1>6. pending.run = None /\ pending.session = None /\ pending.delete = None
  BY <1>3 DEF NoTx
<1>7. DiskSound'
  <2>1. DiskTyped' /\ SettingSound' /\ DamageSound'
    BY <1>1, <1>4 DEF DiskSound, DiskTyped, SettingSound, Alone, DamageSound, setting, Readable, Names
  <2>2. PendingSound'
    <3>1. t.session # None => t.state.session[t.session] > 0
      BY <1>4 DEF Names, TxRecord
    <3> QED BY <1>1, <1>4, <3>1 DEF PendingSound, Names, Readable
  <2>3. RunFilesAgree'
    <3>1. \A k \in Keys : runFile[k] = main.run[k]
      BY <1>5, <1>6, AbsenceAssumption DEF DiskSound, RunFilesAgree
    <3> QED BY <1>1, <1>4, <1>5, <3>1 DEF RunFilesAgree, Names
  <2>4. SessionFilesSound'
    <3>1. \A i \in Sessions : sessionFile[i] \in {0, main.session[i]} /\ (~fragile => sessionFile[i] = main.session[i])
      BY <1>5, <1>6, AbsenceAssumption DEF DiskSound, SessionFilesSound
    <3> QED BY <1>1, <1>4, <1>5, <3>1 DEF SessionFilesSound, Names, setting
  <2>5. Behind(main)' /\ Behind(backup)'
    BY <1>1 DEF DiskSound, Behind, Readable
  <2> QED BY <2>1, <2>2, <2>3, <2>4, <2>5 DEF DiskSound
<1>8. Revived' = {i \in Revived : Durable'.session[i] = Durable.session[i]}
  <2>1. /\ Revived = {i \in Open(main) \ {None} : sessionFile[i] = 0}
        /\ Revived' = {i \in Open(t.state) \ {t.session} : sessionFile[i] = 0}
    BY <1>1, <1>5, <1>6 DEF Revived
  <2>2. ASSUME NEW i \in Sessions
        PROVE  i \in Open(t.state) \ {t.session}
               <=> i \in Open(main) /\ t.state.session[i] = main.session[i]
    <3>1. CASE i = t.session
      <4>1. t.state.session[i] = main.session[i] + 1 /\ main.session[i] \in Int
        BY <1>4, <3>1, AbsenceAssumption DEF Names
      <4> QED BY <3>1, <4>1
    <3>2. CASE i = t.delete
      <4>1. t.state.session[i] = 0 /\ main.session[i] > 0
        BY <1>4, <3>2, AbsenceAssumption DEF Names, Open
      <4> QED BY <4>1 DEF Open
    <3>3. CASE i # t.session /\ i # t.delete
      <4>1. t.state.session[i] = main.session[i]
        BY <1>4, <3>3 DEF Names
      <4> QED BY <3>3, <4>1 DEF Open
    <3> QED BY <3>1, <3>2, <3>3
  <2>3. \A i \in Open(main) : i \in Sessions /\ i # None
    BY AbsenceAssumption DEF Open
  <2>4. Open(t.state) \subseteq Sessions
    BY DEF Open
  <2> QED BY <1>5, <2>1, <2>2, <2>3, <2>4
<1>9. Atomic!Commit
  <2>1. t.state \in Atomic!Successors(main)
    BY <1>3, TransactionSucceeds
  <2> QED BY <1>3, <1>5, <1>8, <2>1 DEF Atomic!Commit, setting
<1>10. SeenSound'
  <2>1. \A q \in Processes : pc'[q] = "read" => pc[q] = "read"
    BY <1>1 DEF ActorsSound, ActorsTyped
  <2>2. Durable'.rev >= Durable.rev /\ Durable.rev \in Int /\ Durable'.rev \in Int
    BY <1>4, <1>5 DEF Names
  <2>3. \A q \in Processes : seen[q] \in Int
    BY DEF ActorsSound, ActorsTyped
  <2>4. \A q \in Processes : seen[q] <= Durable.rev => seen[q] <= Durable'.rev
    BY <2>2, <2>3
  <2> QED BY <1>1, <2>1, <2>4 DEF ActorsSound, SeenSound, Readable, setting
<1>11. WriterSound(p)'
  <2>1. pc'[p] = "run"
    BY <1>1, <1>3 DEF ActorsSound, ActorsTyped
  <2> QED BY <1>1, <1>4, <2>1 DEF WriterSound, Names
<1>12. ActorsSound'
  BY <1>1, <1>2, <1>3, <1>10, <1>11, WriteFrame DEF ActorsSound, ActorsTyped
<1> QED BY <1>7, <1>9, <1>12

\* A save reaches the disk with processes.json; what follows a pending file does not
\* change what is durable.
LEMMA WriteMainStep ==
  ASSUME DiskSound, ActorsSound, NEW p \in users, WriteMain(p), UNCHANGED setting
  PROVE  /\ DiskSound' /\ ActorsSound'
         /\ Atomic!Commit \/ (Durable' = Durable /\ Revived' = Revived)
<1> DEFINE t == tx[p]
<1>1. /\ pc[p] = "main" /\ pc' = [pc EXCEPT ![p] = "delete"] /\ main' = t.state
      /\ UNCHANGED <<lock, seen, pending, backup, runFile, sessionFile, tx>>
  BY DEF WriteMain, At, Goto
<1>2. pc[p] \in Writing /\ "delete" \in Writing /\ "delete" \in Pcs
  BY <1>1 DEF Writing, Pcs
<1>3. /\ p \in Processes /\ lock = p /\ WriterSound(p) /\ main \in File /\ main.rev \in Int
      /\ Saving(p) \/ (pending # NoTx /\ pending = t)
      /\ pending # NoTx => pending.state \in Central
  BY <1>1, <1>2, WriterHolds DEF WriterSound
<1>4. /\ t.state \in Central /\ t.state.rev \in 0..MaxRevision
      /\ Readable(main) => main.rev <= t.state.rev
      /\ \A k \in Keys : k # pending.run => runFile[k] = t.state.run[k]
      /\ \A k \in Keys : runFile[k] = 0 => t.state.run[k] = 0
      /\ \A i \in Sessions : t.state.session[i] = Durable.session[i]
      /\ t.delete = None \/ pending = t
  <2>1. CASE Saving(p)
    <3>1. /\ pending = NoTx /\ Readable(main) /\ main.rev < MaxRevision /\ main \in Central
          /\ t.state = WithFence(main) /\ t.delete = None /\ Durable = main
          /\ pending.run = None
      BY <2>1, <1>3, Files, DurableIs DEF Saving, Tx, NoTx
    <3>2. t.state.rev = main.rev + 1 /\ t.state.run = main.run /\ t.state.session = main.session /\ t.state \in Central
      BY <3>1, FenceSwitched
    <3>3. main.rev \in 0..MaxRevision /\ t.state.rev \in 0..MaxRevision
      BY <3>1, <3>2, CentralFields
    <3>4. \A k \in Keys : runFile[k] = main.run[k]
      BY <3>1, AbsenceAssumption DEF DiskSound, RunFilesAgree
    <3> QED BY <3>1, <3>2, <3>3, <3>4
  <2>2. CASE pending # NoTx /\ pending = t
    <3>1. Durable = t.state /\ t.state \in Central /\ t.state.rev \in 0..MaxRevision
      BY <2>2, <1>3, DurableIs, CentralFields
    <3>2. Readable(main) => main.rev <= t.state.rev
      BY <2>2 DEF DiskSound, PendingSound
    <3>3. \A k \in Keys : k # pending.run => runFile[k] = t.state.run[k]
      BY <3>1 DEF DiskSound, RunFilesAgree
    <3>4. pending.run # None => runFile[pending.run] > 0
      BY <1>1, <1>3, <2>2 DEF WriterSound, DiskSound, PendingSound
    <3>5. \A k \in Keys : runFile[k] = 0 => t.state.run[k] = 0
      BY <3>3, <3>4, AbsenceAssumption
    <3> QED BY <2>2, <3>1, <3>2, <3>3, <3>5
  <2> QED BY <1>3, <2>1, <2>2
<1>5. Readable(main') /\ main' \in File /\ main' # Damaged
  BY <1>1, <1>4, CentralFields DEF File
<1>6. Durable' = t.state
  BY <1>1, <1>3, <1>5, DurableIs, DurableIsNext DEF Saving
<1>7. DiskSound'
  <2>1. DiskTyped' /\ DamageSound'
    BY <1>1, <1>5 DEF DiskSound, DiskTyped, DamageSound, setting
  <2>2. SettingSound'
    BY <1>5 DEF DiskSound, SettingSound, Alone, setting, Readable
  <2>3. PendingSound'
    <3>1. pending # NoTx => pending = t
      BY <1>3 DEF Saving
    <3>2. main'.rev <= t.state.rev
      BY <1>1, <1>4
    <3> QED BY <1>1, <3>1, <3>2 DEF DiskSound, PendingSound
  <2>4. RunFilesAgree'
    BY <1>1, <1>4, <1>6 DEF RunFilesAgree
  <2>5. SessionFilesSound'
    BY <1>1, <1>4, <1>6 DEF DiskSound, SessionFilesSound, setting
  <2>6. Behind(main)' /\ Behind(backup)'
    BY <1>1, <1>4 DEF DiskSound, Behind, Readable
  <2> QED BY <2>1, <2>2, <2>3, <2>4, <2>5, <2>6 DEF DiskSound
<1>8. Revived' = Revived /\ Revived = {i \in Revived : Durable'.session[i] = Durable.session[i]}
  <2>1. Open(Durable') = Open(Durable) /\ Open(Durable) \subseteq Sessions
    BY <1>4, <1>6 DEF Open
  <2> QED BY <1>1, <1>4, <1>6, <2>1 DEF Revived
<1>9. Atomic!Commit \/ (Durable' = Durable /\ Revived' = Revived)
  <2>1. CASE Saving(p)
    <3>1. Durable = main /\ t.state = WithFence(main) /\ main.rev < MaxRevision
      BY <2>1, DurableIs DEF Saving, Tx
    <3>2. t.state \in Atomic!Successors(main)
      <4>1. Atomic!WithFence(main) = WithFence(main)
        BY DEF Atomic!WithFence, WithFence
      <4> QED BY <3>1, <4>1 DEF Atomic!Successors
    <3> QED BY <1>6, <1>8, <3>1, <3>2 DEF Atomic!Commit, setting
  <2>2. CASE pending # NoTx /\ pending = t
    BY <2>2, <1>6, <1>8, DurableIs
  <2> QED BY <1>3, <2>1, <2>2
<1>10. SeenSound'
  <2>1. \A q \in Processes : pc'[q] = "read" => pc[q] = "read" /\ q # p
    BY <1>1, <1>3 DEF ActorsSound, ActorsTyped
  <2>2. /\ \A q \in Processes : seen[q] \in Int /\ Durable'.rev = main'.rev /\ main'.rev \in Int
    BY <1>1, <1>4, <1>6 DEF ActorsSound, ActorsTyped
  <2>3. Durable.rev <= Durable'.rev /\ Durable.rev \in Int
    <3>1. CASE Saving(p)
      BY <3>1, <1>3, <1>4, <1>6, DurableIs DEF Saving
    <3>2. CASE pending # NoTx /\ pending = t
      BY <3>2, <1>4, <1>6, DurableIs
    <3> QED BY <1>3, <3>1, <3>2
  <2>4. \A q \in Processes : seen[q] <= Durable.rev => seen[q] <= Durable'.rev
    BY <2>2, <2>3
  <2> QED BY <1>1, <2>1, <2>2, <2>4 DEF ActorsSound, SeenSound, setting
<1>11. WriterSound(p)'
  <2>1. pc'[p] = "delete"
    BY <1>1, <1>3 DEF ActorsSound, ActorsTyped
  <2>2. pending = t \/ (pending = NoTx /\ t.delete = None)
    BY <1>3, <1>4 DEF Saving
  <2> QED BY <1>1, <1>3, <1>5, <2>1, <2>2 DEF WriterSound
<1>12. ActorsSound'
  BY <1>1, <1>2, <1>3, <1>10, <1>11, WriteFrame DEF ActorsSound, ActorsTyped
<1> QED BY <1>7, <1>9, <1>12

\* What was rebuilt is written: nothing is durable that was not before.
LEMMA RepairStep ==
  ASSUME DiskSound, ActorsSound, NEW p \in users, Repair(p), UNCHANGED setting
  PROVE  DiskSound' /\ ActorsSound' /\ Durable' = Durable /\ Revived' = Revived
<1>1. p \in Processes /\ p # None
  BY ProcessOf
<1>2. /\ pc[p] = "repair" /\ main' = tx[p].state /\ seen' = [seen EXCEPT ![p] = tx[p].state.rev]
      /\ pc' = [pc EXCEPT ![p] = IF lock = p THEN "open" ELSE "idle"]
      /\ UNCHANGED <<pending, backup, runFile, sessionFile, lock, tx>>
  BY DEF Repair, Goto
<1>3. /\ pending = NoTx /\ ~Readable(main) /\ tx[p].state = Recovered
  BY <1>1, <1>2 DEF ActorsSound, WriterSound, Tx
<1>4. main' \in Central /\ main' = Recovered
  <2>1. backup.rev < MaxRevision \/ main = Missing
    BY <1>3, Files DEF DiskSound, DiskTyped, DamageSound
  <2> QED BY <1>2, <1>3, <2>1, RecoveredTyped DEF DiskSound
<1>5. Readable(main') /\ main' \in File /\ main' # Damaged /\ main'.rev \in 0..MaxRevision
  BY <1>4, CentralFields DEF File
<1>6. Durable = main' /\ Durable' = main'
  BY <1>2, <1>3, <1>4, <1>5, DurableIs, DurableIsNext
<1>7. Revived' = Revived
  BY <1>2, <1>6 DEF Revived
<1>8. DiskSound'
  <2>1. DiskTyped' /\ DamageSound'
    BY <1>2, <1>5 DEF DiskSound, DiskTyped, DamageSound, setting
  <2>2. SettingSound' /\ PendingSound'
    BY <1>2, <1>3 DEF DiskSound, SettingSound, Alone, setting, PendingSound
  <2>3. RunFilesAgree' /\ SessionFilesSound'
    BY <1>2, <1>6 DEF DiskSound, RunFilesAgree, SessionFilesSound, setting
  <2>4. Behind(main)' /\ Behind(backup)'
    <3>1. \A k \in Keys : runFile[k] = main'.run[k]
      BY <1>3, <1>6, AbsenceAssumption DEF DiskSound, RunFilesAgree, NoTx
    <3> QED BY <1>2, <3>1 DEF DiskSound, Behind, Readable
  <2> QED BY <2>1, <2>2, <2>3, <2>4 DEF DiskSound
<1>9. PICK to \in {"open", "idle"} : pc' = [pc EXCEPT ![p] = to] /\ (lock = p <=> to = "open")
  BY <1>2
<1>10. \A q \in Processes : /\ q = p => pc'[q] = to /\ seen'[q] = main'.rev
                            /\ q # p => pc'[q] = pc[q] /\ seen'[q] = seen[q]
  BY <1>1, <1>2, <1>9 DEF ActorsSound, ActorsTyped
<1>11. SeenSound' /\ seen' \in [Processes -> 0..MaxRevision]
  <2>1. SeenSound'
    BY <1>5, <1>6, <1>10 DEF ActorsSound, SeenSound, setting
  <2> QED BY <1>2, <1>5, <2>1 DEF ActorsSound, ActorsTyped
<1>12. WriterSound(p)'
  BY <1>1, <1>2, <1>3, <1>10 DEF WriterSound
<1>13. ActorsSound'
  BY <1>2, <1>3, <1>9, <1>11, <1>12, WriteFrame DEF Writing, Pcs
<1> QED BY <1>6, <1>7, <1>8, <1>13

\* A spoilt processes.json.  Nothing happens to a pending transaction; else the record
\* files, or the backup where there are none, take the place of the central file.
LEMMA DamageStep ==
  ASSUME DiskSound, ActorsSound, Damage, UNCHANGED setting
  PROVE  /\ DiskSound' /\ ActorsSound'
         /\ Atomic!Degrade \/ (Durable' = Durable /\ Revived' = Revived)
<1>1. /\ fragile /\ Readable(main) /\ lock = None /\ backup.rev < MaxRevision /\ main' = Damaged
      /\ UNCHANGED <<pending, backup, runFile, sessionFile, lock, pc, tx, seen>>
      /\ users' = users /\ fragile' = fragile
  BY DEF Damage, setting
<1>2. /\ ~Readable(main') /\ main' \in File /\ main' # Missing
      /\ pending \in TxRecord \cup {NoTx} /\ backup \in File \ {Damaged}
  BY <1>1 DEF Damaged, Missing, Readable, File, DiskSound, DiskTyped
<1>4. ActorsSound'
  <2>1. ASSUME NEW q \in Processes PROVE WriterSound(q)'
    <3>1. pc[q] \notin Writing /\ WriterSound(q)
      BY <1>1, AbsenceAssumption DEF ActorsSound, LockSound
    <3>2. pc[q] # "repair"
      BY <1>1, <3>1 DEF WriterSound
    <3> QED BY <1>1, <3>1, <3>2 DEF WriterSound, Writing, Alone
  <2>2. SeenSound'
    BY <1>1 DEF SeenSound
  <2> QED BY <1>1, <2>1, <2>2 DEF ActorsSound, ActorsTyped, LockSound
<1>5. CASE pending # NoTx
  <2>1. Durable' = Durable
    BY <1>1, <1>5 DEF Durable
  <2>2. Revived' = Revived
    BY <1>1, <2>1 DEF Revived
  <2>3. RunFilesAgree' /\ SessionFilesSound'
    BY <1>1, <2>1 DEF DiskSound, RunFilesAgree, SessionFilesSound
  <2>4. DiskTyped' /\ SettingSound' /\ DamageSound'
    BY <1>1, <1>2 DEF DiskSound, DiskTyped, SettingSound, Alone, DamageSound
  <2>5. PendingSound' /\ Behind(main)' /\ Behind(backup)'
    BY <1>1, <1>2 DEF DiskSound, PendingSound, Behind, Readable
  <2> QED BY <1>4, <2>1, <2>2, <2>3, <2>4, <2>5 DEF DiskSound
<1>6. CASE pending = NoTx
  <2>1. pending.run = None /\ pending.session = None /\ pending.delete = None
    BY <1>6 DEF NoTx
  <2>2. Durable = main /\ main \in Central /\ Durable' = Recovered'
    BY <1>1, <1>2, <1>6, Files, DurableIs, DurableIsNext DEF DiskSound, DiskTyped
  <2>3. /\ \A k \in Keys : runFile[k] = main.run[k]
        /\ \A i \in Sessions : sessionFile[i] \in {0, main.session[i]}
        /\ \A k \in Keys : Readable(backup) /\ runFile[k] = 0 => backup.run[k] = 0
    BY <2>1, <2>2, AbsenceAssumption DEF DiskSound, RunFilesAgree, SessionFilesSound, Behind
  <2>4. /\ runFile \in [Keys -> 0..MaxRevision] /\ sessionFile \in [Sessions -> 0..MaxRevision]
        /\ main.run \in [Keys -> 0..MaxRevision] /\ main.session \in [Sessions -> 0..MaxRevision]
    BY <2>2, CentralFields DEF DiskSound, DiskTyped
  <2> DEFINE d == Recovered'
  <2>5. /\ d \in Central
        /\ \/ d.run = runFile /\ d.session = sessionFile
           \/ /\ d = backup /\ Readable(backup)
              /\ \A k \in Keys : runFile[k] = 0
              /\ \A i \in Sessions : sessionFile[i] = 0
    BY <1>1, <1>2, <2>4, RecoveredAfterDamage DEF DiskSound
  <2> HIDE DEF d
  <2>6. d.run \in [Keys -> 0..MaxRevision] /\ d.session \in [Sessions -> 0..MaxRevision]
    BY <2>5, CentralFields
  <2>7. \A k \in Keys : d.run[k] = runFile[k]
    BY <2>3, <2>5
  <2>8. d.run = main.run
    <3>1. \A k \in Keys : d.run[k] = main.run[k]
      BY <2>3, <2>7
    <3> QED BY <2>4, <2>6, <3>1
  <2>9. \A i \in Sessions : sessionFile[i] \in {0, d.session[i]}
    BY <2>5
  <2>10. DiskSound'
    <3>1. RunFilesAgree' /\ SessionFilesSound'
      BY <1>1, <2>2, <2>7, <2>9 DEF RunFilesAgree, SessionFilesSound, d
    <3>2. DiskTyped' /\ SettingSound' /\ DamageSound'
      BY <1>1, <1>2 DEF DiskSound, DiskTyped, SettingSound, Alone, DamageSound
    <3>3. PendingSound' /\ Behind(main)' /\ Behind(backup)'
      BY <1>1, <1>2, <1>6 DEF DiskSound, PendingSound, Behind, Readable
    <3> QED BY <3>1, <3>2, <3>3 DEF DiskSound
  <2>11. /\ Revived = {i \in Open(main) : sessionFile[i] = 0}
         /\ Revived' = {i \in Open(d) : sessionFile[i] = 0}
    <3>1. Open(main) \subseteq Sessions /\ Open(d) \subseteq Sessions
      BY DEF Open
    <3>2. /\ Revived = {i \in Open(main) \ {None} : sessionFile[i] = 0}
          /\ Revived' = {i \in Open(d) \ {None} : sessionFile[i] = 0}
      BY <1>1, <2>1, <2>2 DEF Revived, d
    <3> QED BY <3>1, <3>2, AbsenceAssumption
  <2>12. \A i \in Open(main) \ Revived : i \in Sessions /\ sessionFile[i] > 0 /\ d.session[i] = main.session[i]
    <3>1. ASSUME NEW i \in Open(main) \ Revived
          PROVE  i \in Sessions /\ sessionFile[i] = main.session[i] /\ sessionFile[i] > 0
      <4>1. i \in Sessions /\ sessionFile[i] # 0
        BY <2>11 DEF Open
      <4> QED BY <4>1, <2>3, <2>4
    <3> QED BY <2>5, <3>1
  <2>13. Revived' = Open(d) \ (Open(main) \ Revived)
    <3>1. ASSUME NEW i \in Open(d)
          PROVE  sessionFile[i] = 0 <=> i \notin Open(main) \ Revived
      <4>1. i \in Sessions /\ d.session[i] > 0
        BY DEF Open
      <4>2. sessionFile[i] # 0 => i \in Open(main)
        BY <4>1, <2>3, <2>4 DEF Open
      <4> QED BY <4>1, <4>2, <2>11, <2>12
    <3> QED BY <2>11, <3>1
  <2>14. Atomic!Open(main) = Open(main) /\ Atomic!Open(d) = Open(d) /\ Atomic!Central = Central
    BY DEF Atomic!Open, Open, Atomic!Central, Central
  <2>15. Durable' = d
    BY <2>2 DEF d
  <2>16. Atomic!Degrade
    BY <1>1, <2>2, <2>5, <2>8, <2>12, <2>13, <2>14, <2>15 DEF Atomic!Degrade
  <2> QED BY <1>4, <2>10, <2>16
<1> QED BY <1>5, <1>6
--------------------------------------------------------------------------------
(* The theorems *)

LEMMA Initially ==
  ASSUME Sheltered, Init
  PROVE  IInv
<1>1. PICK s \in Settings : /\ users = s.users /\ fragile = s.fragile
                           /\ main = IF s.initialised THEN Empty ELSE Missing
  BY DEF Init
<1>2. /\ pending = NoTx /\ backup = Missing /\ lock = None
      /\ runFile = [k \in Keys |-> 0] /\ sessionFile = [i \in Sessions |-> 0]
      /\ pc = [p \in Processes |-> "idle"] /\ tx = [p \in Processes |-> NoTx]
      /\ seen = [p \in Processes |-> 0]
  BY DEF Init
<1>3. users \subseteq Processes /\ fragile \in BOOLEAN
  BY <1>1, SettingsAssumption
<1>4. /\ Empty \in Central /\ Readable(Empty) /\ Empty.rev = 0
      /\ Empty.run = [k \in Keys |-> 0] /\ Empty.session = [i \in Sessions |-> 0]
  BY EmptyCentral, CentralFields DEF Empty
<1>5. Durable.rev = 0 /\ Durable.run = runFile /\ Durable.session = sessionFile
  <2>1. CASE main = Empty
    BY <1>2, <1>4, <2>1, DurableIs
  <2>2. CASE main = Missing
    <3>1. Durable = Rebuilt
      BY <1>2, <2>2, DurableIs DEF Recovered, Readable, Missing
    <3>2. Rebuilt.rev = 0 /\ Rebuilt.run = runFile /\ Rebuilt.session = sessionFile
      BY <1>4 DEF Rebuilt, Central
    <3> QED BY <3>1, <3>2
  <2> QED BY <1>1, <2>1, <2>2
<1>6. TypeOK
  <2>1. main \in File /\ backup \in File \ {Damaged}
    BY <1>1, <1>2, <1>4 DEF File, Missing, Damaged
  <2> QED BY <1>2, <1>3, <2>1, RevisionAssumption DEF TypeOK, Pcs
<1>7. SettingSound
  BY <1>1, <1>4 DEF Sheltered, SettingSound, Alone
<1>8. LockSound /\ \A p \in Processes : WriterSound(p)
  BY <1>2, AbsenceAssumption DEF LockSound, WriterSound, Writing
<1>9. PendingSound /\ RunFilesAgree /\ SessionFilesSound
  BY <1>2, <1>5 DEF PendingSound, RunFilesAgree, SessionFilesSound
<1>10. Behind(main) /\ Behind(backup)
  <2>1. ~Readable(Missing)
    BY DEF Readable, Missing
  <2> QED BY <1>1, <1>2, <1>4, <2>1 DEF Behind
<1>11. DamageSound
  BY <1>1, <1>4, CentralFields DEF DamageSound, Missing, Damaged
<1>12. SeenSound
  BY <1>2, <1>5 DEF SeenSound
<1> QED BY <1>6, <1>7, <1>8, <1>9, <1>10, <1>11, <1>12 DEF IInv

\* A step keeps the invariant and does what a transaction, damage or nothing does to the
\* value the files stand for.
LEMMA StepSound ==
  ASSUME IInv, [Next]_vars
  PROVE  /\ IInv'
         /\ Atomic!Next \/ UNCHANGED <<Durable, fragile, Revived>>
<1>1. DiskSound /\ ActorsSound
  BY InvParts
<1>2. CASE UNCHANGED vars
  <2>1. UNCHANGED <<files, setting>> /\ UNCHANGED <<lock, pc, tx, seen>> /\ fragile' = fragile
    BY <1>2 DEF vars, setting
  <2>2. DiskSound' /\ Durable' = Durable /\ Revived' = Revived /\ Recovered' = Recovered
    BY <1>1, <2>1, DiskKept
  <2>3. ActorsSound'
    BY <1>1, <2>1, <2>2 DEF ActorsSound, ActorsTyped, LockSound, SeenSound, WriterSound, Saving, Alone,
       files, setting, Readable
  <2> QED BY <2>1, <2>2, <2>3, InvPartsNext
<1>3. CASE Next
  <2>1. UNCHANGED setting /\ fragile' = fragile
    BY <1>3 DEF Next, setting
  <2> DEFINE Sound == /\ DiskSound' /\ ActorsSound'
                      /\ Atomic!Commit \/ Atomic!Degrade \/ (Durable' = Durable /\ Revived' = Revived)
  <2>2. ASSUME NEW p \in users, Lock(p) \/ Recover(p) \/ Rebuild(p, "open") \/ Repair(p)
        PROVE  Sound
    BY <1>1, <2>1, <2>2, LockStep, RecoverStep, RebuildStep, RepairStep
  <2>3. ASSUME NEW p \in users, Commit(p) \/ Save(p) \/ Release(p) \/ Interrupt(p)
        PROVE  Sound
    BY <1>1, <2>1, <2>3, CommitStep, SaveStep, ReleaseStep, InterruptStep
  <2>4. ASSUME NEW p \in users, WriteStep(p)
        PROVE  Sound
    BY <1>1, <2>1, <2>4, WritePendingStep, WriteRunStep, WriteSessionStep, WriteBackupStep, WriteMainStep,
       DeleteSessionStep, UnlinkStep DEF WriteStep
  <2>5. ASSUME NEW p \in users, Peek(p) \/ ReadPending(p) \/ ReadMain(p) \/ Rebuild(p, "read")
        PROVE  Sound
    BY <1>1, <2>1, <2>5, PeekStep, ReadPendingStep, ReadMainStep, RebuildStep
  <2>6. ASSUME Damage
        PROVE  Sound
    BY <1>1, <2>1, <2>6, DamageStep
  <2>7. Sound
    BY <1>3, <2>2, <2>3, <2>4, <2>5, <2>6 DEF Next
  <2> QED BY <2>1, <2>7, InvPartsNext DEF Atomic!Next
<1> QED BY <1>2, <1>3

\* state.py: whoever shares the repository, its files agree with what was done, as far as
\* they are ever read.
THEOREM InvariantHolds ==
  ASSUME Sheltered
  PROVE  Spec => []IInv
<1>1. Init => IInv
  BY Initially
<1>2. IInv /\ [Next]_vars => IInv'
  BY StepSound
<1> QED BY <1>1, <1>2, PTL DEF Spec

\* RepositoryCommitter, StateRebuilder: the record files are those of the durable state
\* but for the records of the pending transaction, so what processes.json says of runs
\* and sessions can always be rebuilt.
THEOREM FilesSuffice ==
  ASSUME Sheltered
  PROVE  Spec => []FilesAgree
<1>1. IInv => FilesAgree
  BY DEF IInv, SessionFilesSound, SessionFilesAgree, FilesAgree
<1> QED BY <1>1, InvariantHolds, PTL

LEMMA FirstDurable == Init => Durable = Empty
<1> SUFFICES ASSUME Init PROVE Durable = Empty
  OBVIOUS
<1>1. PICK s \in Settings : fragile = s.fragile /\ main = IF s.initialised THEN Empty ELSE Missing
  BY DEF Init
<1>2. /\ pending = NoTx /\ runFile = [k \in Keys |-> 0] /\ sessionFile = [i \in Sessions |-> 0]
  BY DEF Init
<1>3. /\ Empty.run = runFile /\ Empty.session = sessionFile /\ Empty \in Central /\ Readable(Empty)
  BY <1>2, EmptyCentral, CentralFields DEF Empty
<1>4. Rebuilt = Empty
  BY <1>3 DEF Rebuilt, Central
<1>5. Durable = Empty
  <2>1. CASE main = Empty
    BY <1>2, <1>3, <2>1, DurableIs
  <2>2. CASE main = Missing
    BY <1>2, <1>4, <2>2, DurableIs DEF Recovered, Readable, Missing
  <2> QED BY <1>1, <2>1, <2>2
<1> QED BY <1>5

\* RepositoryCommitter.commit, _recover_pending_transaction, load: a transaction happens as
\* a whole or not at all, whatever dies between two files, and is not lost once it
\* happened; RepositoryJournal implements AtomicRepository.
THEOREM TransactionsAreAtomic ==
  ASSUME Sheltered
  PROVE  Spec => ActsAtomically
<1>1. Init => Atomic!Init
  <2> SUFFICES ASSUME Init PROVE Atomic!Init
    OBVIOUS
  <2>1. PICK s \in Settings : fragile = s.fragile
    BY DEF Init
  <2>2. Durable = Empty
    BY FirstDurable
  <2>3. Open(Empty) = {}
    BY DEF Open, Empty
  <2>4. Revived = {}
    BY <2>2, <2>3 DEF Revived
  <2>5. Atomic!Empty = Empty
    BY DEF Atomic!Empty, Empty
  <2> QED BY <2>1, <2>2, <2>4, <2>5, SettingsAssumption DEF Atomic!Init
<1>2. IInv /\ [Next]_vars => Atomic!Next \/ UNCHANGED <<Durable, fragile, Revived>>
  BY StepSound
<1> QED BY <1>1, <1>2, InvariantHolds, PTL DEF Spec, ActsAtomically, Atomic!Spec

\* load, with or without the lock: a reader never answers with less than it did before,
\* while nothing spoils processes.json.
THEOREM ReadersMoveOn ==
  ASSUME Sheltered
  PROVE  Spec => ReadsAreMonotone
<1>1. IInv /\ [Next]_vars => [fragile \/ \A p \in Processes : seen'[p] >= seen[p]]_vars
  <2> SUFFICES ASSUME IInv, Next, ~fragile, NEW p \in Processes
               PROVE  seen'[p] >= seen[p]
    OBVIOUS
  <2>1. DiskSound /\ ActorsSound /\ seen \in [Processes -> 0..MaxRevision] /\ seen[p] \in Int
    BY InvParts, RevisionAssumption DEF ActorsSound, ActorsTyped
  <2>2. seen[p] <= Durable.rev /\ (pc[p] = "read" /\ Readable(main) => seen[p] <= main.rev)
    BY <2>1 DEF ActorsSound, SeenSound
  <2>3. CASE seen' = seen
    BY <2>1, <2>3
  <2>4. ASSUME NEW q \in users, Repair(q) \/ Unlink(q)
        PROVE  seen'[p] >= seen[p]
    <3>1. q \in Processes /\ WriterSound(q)
      BY <2>1, ProcessOf DEF ActorsSound
    <3>2. seen' = [seen EXCEPT ![q] = tx[q].state.rev] /\ tx[q].state = Durable
      <4>1. CASE Repair(q)
        BY <3>1, <4>1, DurableIs DEF Repair, WriterSound, Tx
      <4>2. CASE Unlink(q)
        <5>1. /\ main = tx[q].state /\ Readable(main) /\ (pending = tx[q] \/ pending = NoTx)
          BY <3>1, <4>2 DEF Unlink, WriterSound
        <5> QED BY <4>2, <5>1, DurableIs DEF Unlink
      <4> QED BY <2>4, <4>1, <4>2
    <3> QED BY <2>1, <2>2, <3>1, <3>2
  <2>5. ASSUME NEW q \in users, ReadPending(q)
        PROVE  seen'[p] >= seen[p]
    <3>1. q \in Processes
      BY <2>1, ProcessOf
    <3>2. seen' = seen \/ (pending # NoTx /\ seen' = [seen EXCEPT ![q] = pending.state.rev])
      BY <2>5 DEF ReadPending, Read
    <3> QED BY <2>1, <2>2, <3>1, <3>2, DurableIs
  <2>6. ASSUME NEW q \in users, ReadMain(q)
        PROVE  seen'[p] >= seen[p]
    <3>1. q \in Processes
      BY <2>1, ProcessOf
    <3>2. pc[q] = "read" /\ Readable(main) /\ seen' = [seen EXCEPT ![q] = main.rev]
      BY <2>6 DEF ReadMain, Read
    <3> QED BY <2>1, <2>2, <3>1, <3>2
  <2>7. ASSUME NEW q \in users, \/ Lock(q) \/ Recover(q) \/ Rebuild(q, "open") \/ Commit(q) \/ Save(q)
                                \/ Release(q) \/ Interrupt(q) \/ Peek(q) \/ Rebuild(q, "read")
        PROVE  seen' = seen
    BY <2>7 DEF Lock, Recover, Rebuild, Commit, Save, Release, Interrupt, Peek, At
  <2>8. ASSUME NEW q \in users, WriteStep(q), ~Unlink(q)
        PROVE  seen' = seen
    BY <2>8 DEF WriteStep, WritePending, WriteRun, WriteSession, WriteBackup, WriteMain, DeleteSession, At
  <2>9. CASE Damage
    BY <2>3, <2>9 DEF Damage
  <2> QED BY <2>3, <2>4, <2>5, <2>6, <2>7, <2>8, <2>9 DEF Next, WriteStep
<1> QED BY <1>1, InvariantHolds, PTL DEF Spec, ReadsAreMonotone
--------------------------------------------------------------------------------
(* What is committed stays *)

LEMMA DurableTyped == IInv => Durable \in Central
<1> SUFFICES ASSUME IInv PROVE Durable \in Central
  OBVIOUS
<1>1. DiskSound
  BY InvParts
<1>2. CASE pending # NoTx
  BY <1>1, <1>2, DurableIs, TxParts DEF DiskSound, DiskTyped
<1>3. CASE pending = NoTx /\ Readable(main)
  BY <1>1, <1>3, DurableIs, Files DEF DiskSound, DiskTyped
<1>4. CASE pending = NoTx /\ ~Readable(main)
  <2>1. backup.rev < MaxRevision \/ main = Missing
    BY <1>1, <1>4, Files DEF DiskSound, DiskTyped, DamageSound
  <2> QED BY <1>1, <1>4, <2>1, DurableIs, RecoveredTyped DEF DiskSound
<1> QED BY <1>2, <1>3, <1>4

\* What one transaction makes of a record and of a closed session.
LEMMA SuccessorKeeps ==
  ASSUME NEW s \in Central, NEW t \in Atomic!Successors(s)
  PROVE  /\ \A k \in Keys : t.run[k] >= s.run[k]
         /\ \A i \in s.tombstones : i \in t.tombstones /\ (s.session[i] = 0 => t.session[i] = 0)
         /\ \A i \in t.tombstones \ s.tombstones : t.session[i] = 0
<1> DEFINE Kept == /\ \A k \in Keys : t.run[k] >= s.run[k]
                   /\ \A i \in s.tombstones : i \in t.tombstones /\ (s.session[i] = 0 => t.session[i] = 0)
                   /\ \A i \in t.tombstones \ s.tombstones : t.session[i] = 0
<1>1. /\ s.run \in [Keys -> 0..MaxRevision] /\ s.session \in [Sessions -> 0..MaxRevision]
      /\ s.tombstones \subseteq Sessions
      /\ s = [rev |-> s.rev, run |-> s.run, session |-> s.session,
              tombstones |-> s.tombstones, fence |-> s.fence]
  BY CentralFields
<1>2. \A k \in Keys : s.run[k] \in Int /\ s.run[k] + 1 >= s.run[k]
  BY <1>1, RevisionAssumption
<1>3. ASSUME NEW k \in Keys, NEW i \in Atomic!Open(s) \cup {None}, t = Atomic!WithRun(s, k, i)
      PROVE  Kept
  <2>1. t.run = [s.run EXCEPT ![k] = @ + 1] /\ t.tombstones = s.tombstones
    BY <1>1, <1>3 DEF Atomic!WithRun, Atomic!Bump
  <2>2. t.session = s.session \/ (i \in Sessions /\ s.session[i] > 0 /\ t.session = [s.session EXCEPT ![i] = @ + 1])
    BY <1>1, <1>3 DEF Atomic!WithRun, Atomic!Bump, Atomic!Open
  <2>3. \A j \in Keys : t.run[j] >= s.run[j]
    BY <1>1, <1>2, <2>1
  <2>4. \A j \in s.tombstones : s.session[j] = 0 => t.session[j] = 0
    BY <1>1, <2>2
  <2> QED BY <2>1, <2>3, <2>4
<1>4. ASSUME NEW i \in Sessions \ s.tombstones, t = Atomic!WithSession(s, i)
      PROVE  Kept
  <2>1. t.run = s.run /\ t.tombstones = s.tombstones /\ t.session = [s.session EXCEPT ![i] = @ + 1]
    BY <1>1, <1>4 DEF Atomic!WithSession, Atomic!Bump
  <2> QED BY <1>1, <1>2, <2>1
<1>5. ASSUME NEW i \in Atomic!Open(s), t = Atomic!WithoutSession(s, i)
      PROVE  Kept
  <2>1. /\ t.run = s.run /\ t.tombstones = s.tombstones \cup {i} /\ i \in Sessions
        /\ t.session = [s.session EXCEPT ![i] = 0]
    BY <1>1, <1>5 DEF Atomic!WithoutSession, Atomic!Open
  <2> QED BY <1>1, <1>2, <2>1
<1>6. ASSUME t = Atomic!WithFence(s) PROVE Kept
  <2>1. t.run = s.run /\ t.tombstones = s.tombstones /\ t.session = s.session
    BY <1>1, <1>6 DEF Atomic!WithFence
  <2> QED BY <1>2, <2>1
<1> HIDE DEF Kept
<1>7. Kept
  BY <1>3, <1>4, <1>5, <1>6 DEF Atomic!Successors
<1> QED BY <1>7 DEF Kept

\* RepositoryCommitter, StateRebuilder: no record of a run is lost or set back, whatever is
\* interrupted and however often processes.json is spoilt, and while nothing spoils it no
\* closed session opens again.
THEOREM CommittedIsKept ==
  ASSUME Sheltered
  PROVE  Spec => CommittedStays
<1> DEFINE Closed == fragile \/ \A i \in Durable.tombstones : Durable.session[i] = 0
           Keeps == /\ \A k \in Keys : Durable'.run[k] >= Durable.run[k]
                    /\ fragile \/ \A i \in Durable.tombstones :
                                    i \in Durable'.tombstones /\ Durable'.session[i] = 0
<1>1. IInv /\ Closed /\ [Next]_vars => Keeps /\ Closed'
  <2> SUFFICES ASSUME IInv, Closed, [Next]_vars PROVE Keeps /\ Closed'
    OBVIOUS
  <2>1. fragile' = fragile
    BY DEF Next, vars, setting
  <2>2. Durable \in Central
    BY DurableTyped
  <2>3. Durable.run \in [Keys -> 0..MaxRevision] /\ \A k \in Keys : Durable.run[k] >= Durable.run[k]
    BY <2>2, CentralFields, RevisionAssumption
  <2>4. CASE Durable' = Durable
    BY <2>1, <2>3, <2>4
  <2>5. CASE Atomic!Commit
    <3>1. Durable' \in Atomic!Successors(Durable)
      BY <2>5 DEF Atomic!Commit
    <3> HIDE DEF Durable
    <3> QED BY <2>1, <2>2, <3>1, SuccessorKeeps
  <2>6. CASE Atomic!Degrade
    <3>1. fragile /\ Durable'.run = Durable.run
      BY <2>6 DEF Atomic!Degrade
    <3> QED BY <2>1, <2>3, <3>1
  <2> QED BY <2>4, <2>5, <2>6, StepSound DEF Atomic!Next
<1>2. Init => Closed
  <2> SUFFICES ASSUME Init PROVE Closed
    OBVIOUS
  <2> QED BY FirstDurable DEF Empty
<1>3. IInv /\ Closed /\ [Next]_vars => [Keeps]_vars
  BY <1>1
<1> HIDE DEF Closed, Keeps
<1>4. Spec => [](IInv /\ Closed)
  BY <1>1, <1>2, InvariantHolds, PTL DEF Spec
<1>5. Spec => [][Keeps]_vars
  BY <1>3, <1>4, PTL DEF Spec
<1> QED BY <1>5 DEF CommittedStays, Keeps
================================================================================
