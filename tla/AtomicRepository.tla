---------------------------- MODULE AtomicRepository ----------------------------
(***************************************************************************)
(* The repository as the rest of process-manager sees it: one value, and   *)
(* transactions that change it as a whole.  RepositoryJournal implements   *)
(* it with six files.                                                      *)
(***************************************************************************)
EXTENDS CentralState

VARIABLES value,
          fragile,       \* whether something may spoil processes.json
          revived        \* closed sessions that are back and not written since

\* What one transaction makes of s.
Successors(s) ==
  {WithRun(s, k, i) : k \in Keys, i \in Open(s) \cup {None}}
  \cup {WithSession(s, i) : i \in Sessions \ s.tombstones}
  \cup {WithoutSession(s, i) : i \in Open(s)}
  \cup {WithFence(s)}

Init == value = Empty /\ fragile \in BOOLEAN /\ revived = {}

Commit ==
  /\ value.rev < MaxRevision
  /\ value' \in Successors(value) /\ UNCHANGED fragile
  /\ revived' = {i \in revived : value'.session[i] = value.session[i]}

\* A spoilt central file may cost what only it knows, and bring back sessions that
\* were closed and lose these again; but no run and no other session is lost.
Degrade ==
  /\ fragile /\ UNCHANGED fragile
  /\ value' \in Central /\ value'.run = value.run
  /\ \A i \in Open(value) \ revived : value'.session[i] = value.session[i]
  /\ revived' = Open(value') \ (Open(value) \ revived)

Next == Commit \/ Degrade

Spec == Init /\ [][Next]_<<value, fragile, revived>>
================================================================================
