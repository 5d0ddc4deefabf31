--------------------------- MODULE ServiceRunsProofs ---------------------------
(***************************************************************************)
(* What the promise of ServiceRuns is good for, whatever keeps it: two runs *)
(* of a service never have processes at the same time.                      *)
(***************************************************************************)
EXTENDS ServiceRuns, TLAPS

Inv == TypeOK /\ OnlyLiveRunsPopulated /\ OneLiveRun

LEMMA InitInv == Init => Inv
BY DEF Init, Inv, TypeOK, OnlyLiveRunsPopulated, OneLiveRun

LEMMA NextInv == Inv /\ [Next]_runVars => Inv'
<1> SUFFICES ASSUME Inv, [Next]_runVars PROVE Inv'
    OBVIOUS
<1> USE DEF Inv, TypeOK, OnlyLiveRunsPopulated, OneLiveRun
<1>1. ASSUME NEW k \in Keys, Start(k) PROVE Inv'
      BY <1>1 DEF Start
<1>2. ASSUME NEW k \in Keys, Populate(k) PROVE Inv'
      BY <1>2 DEF Populate
<1>3. ASSUME NEW k \in Keys, Empty(k) PROVE Inv'
      BY <1>3 DEF Empty
<1>4. ASSUME NEW k \in Keys, End(k) PROVE Inv'
      BY <1>4 DEF End
<1>5. CASE UNCHANGED runVars
      BY <1>5 DEF runVars
<1> QED BY <1>1, <1>2, <1>3, <1>4, <1>5 DEF Next

LEMMA InvSeparates == Inv => OneRunPopulated
BY DEF Inv, TypeOK, OnlyLiveRunsPopulated, OneLiveRun, OneRunPopulated

\* A replacement never meets the processes of the run it replaces: what restart
\* and start in manager.py rely on follows from the promise alone.
THEOREM RunsOfAServiceApart == Spec => []OneRunPopulated
BY InitInv, NextInv, InvSeparates, PTL DEF Spec
================================================================================
