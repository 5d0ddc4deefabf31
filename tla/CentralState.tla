------------------------------ MODULE CentralState ------------------------------
(***************************************************************************)
(* The central state of process-manager as a value, and what one           *)
(* transaction makes of it.                                                *)
(*                                                                         *)
(* A record is its revision number, 0 when there is none.  Of the rest of  *)
(* the central state the tombstones of sessions and the intake fence stand *)
(* for what only the central file holds.                                   *)
(***************************************************************************)
EXTENDS Integers

CONSTANTS Keys, Sessions,
          None,
          MaxRevision    \* bound on stateRevision

Central == [rev : 0..MaxRevision,
            run : [Keys -> 0..MaxRevision],
            session : [Sessions -> 0..MaxRevision],
            tombstones : SUBSET Sessions,
            fence : BOOLEAN]

\* empty_state
Empty == [rev |-> 0, run |-> [k \in Keys |-> 0], session |-> [i \in Sessions |-> 0],
          tombstones |-> {}, fence |-> FALSE]

\* The record is written once more.
Bump(records, x) == [records EXCEPT ![x] = @ + 1]

\* A run record is written, and with it the session that it enters or leaves.
WithRun(s, k, i) ==
  [s EXCEPT !.rev = @ + 1, !.run = Bump(@, k),
            !.session = IF i = None THEN @ ELSE Bump(@, i)]
\* A session is opened, renewed or set to closing.
WithSession(s, i) == [s EXCEPT !.rev = @ + 1, !.session = Bump(@, i)]
\* A session is closed: a tombstone is left of it.
WithoutSession(s, i) ==
  [s EXCEPT !.rev = @ + 1, !.session = [@ EXCEPT ![i] = 0], !.tombstones = @ \cup {i}]
\* Something only the central file knows changes.
WithFence(s) == [s EXCEPT !.rev = @ + 1, !.fence = ~@]

Open(s) == {i \in Sessions : s.session[i] > 0}
================================================================================
