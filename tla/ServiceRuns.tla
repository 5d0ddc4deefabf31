------------------------------ MODULE ServiceRuns ------------------------------
(***************************************************************************)
(* What process-manager promises about the runs of its services, without   *)
(* threads, hosts, sessions or files: a service has at most one live run,  *)
(* processes exist only while the repository calls their run live, and a   *)
(* run that has ended stays so.  ManagedRuns implements it.                *)
(***************************************************************************)
CONSTANTS Keys, ServiceOf

VARIABLES phase,    \* per run: "new", "live" or "ended"
          populated \* runs that have processes

runVars == <<phase, populated>>

TypeOK == phase \in [Keys -> {"new", "live", "ended"}] /\ populated \in SUBSET Keys

Init == phase = [k \in Keys |-> "new"] /\ populated = {}

Start(k) ==
  /\ phase[k] = "new"
  /\ \A j \in Keys : ServiceOf[j] = ServiceOf[k] => phase[j] # "live"
  /\ phase' = [phase EXCEPT ![k] = "live"] /\ UNCHANGED populated

Populate(k) ==
  /\ phase[k] = "live"
  /\ populated' = populated \cup {k} /\ UNCHANGED phase

Empty(k) == populated' = populated \ {k} /\ UNCHANGED phase

End(k) ==
  /\ phase[k] = "live" /\ k \notin populated
  /\ phase' = [phase EXCEPT ![k] = "ended"] /\ UNCHANGED populated

Next == \E k \in Keys : Start(k) \/ Populate(k) \/ Empty(k) \/ End(k)

Spec == Init /\ [][Next]_runVars

\* Only runs the repository calls live have processes.
OnlyLiveRunsPopulated == \A k \in populated : phase[k] = "live"
\* A service has one live run.
OneLiveRun ==
  \A j, k \in Keys : phase[j] = "live" /\ phase[k] = "live" /\ ServiceOf[j] = ServiceOf[k]
                     => j = k
\* A replacement never meets the processes of the run it replaces (manager.py restart).
OneRunPopulated ==
  \A j, k \in populated : ServiceOf[j] = ServiceOf[k] => j = k
================================================================================
