------------------------------- MODULE IntakeFence -------------------------------
(***************************************************************************)
(* What stop and restart of the manager rely on in the repository: while   *)
(* an operation holds the fence work drains and none is admitted, and the  *)
(* fence is lifted when none is left.  RunRepository implements it with    *)
(* its runs and sessions, ManagerOperation from the side of the client     *)
(* that holds the fence.                                                   *)
(***************************************************************************)
CONSTANTS Work,       \* what a manager may be at
          Operations, \* the stops and restarts
          None        \* no operation

VARIABLES fence,      \* the operation the intake is closed for
          work        \* live runs and open sessions

fenceVars == <<fence, work>>

Init == fence = None /\ work = {}

Admit(w) == fence = None /\ work' = work \cup {w} /\ UNCHANGED fence

Drain == work' \subseteq work /\ UNCHANGED fence

Install(op) == fence = None /\ fence' = op /\ UNCHANGED work

Lift == work = {} /\ fence' = None /\ UNCHANGED work

Next == (\E w \in Work : Admit(w)) \/ Drain \/ (\E op \in Operations : Install(op)) \/ Lift

Spec == Init /\ [][Next]_fenceVars
================================================================================
