--------------------------- MODULE MCExecutionLedger ---------------------------
(* A chain of two stages, the second on the path of the first and one of its   *)
(* own and of high risk, with a commit at the end.  The contracts: the chain;  *)
(* one that leaves a criterion to a validation nobody requires; one whose      *)
(* stages wait for each other; and, for the amendment, one that leaves the     *)
(* first stage as it is, changes what the second is validated by and commits   *)
(* that stage by itself.                                                       *)
EXTENDS ExecutionLedger, TLC

CONSTANTS s1, s2, v1, v2, p1, p2, x1, x2

Chain ==
  [dependsOn |-> (s1 :> {} @@ s2 :> {s1}), validations |-> (s1 :> {v1} @@ s2 :> {v2}),
   required |-> {v1, v2}, covers |-> (v1 :> {x1} @@ v2 :> {x2}),
   risk |-> (s1 :> "medium" @@ s2 :> "high"),
   commit |-> (s1 :> "none" @@ s2 :> "final"), paths |-> (s1 :> {p1} @@ s2 :> {p1, p2})]

MCTerms ==
  [chain |-> Chain, loose |-> [Chain EXCEPT !.required = {v1}],
   cyclic |-> [Chain EXCEPT !.dependsOn[s1] = {s2}],
   changed |-> [Chain EXCEPT !.validations[s2] = {v1, v2},
                             !.commit[s2] = "stage"]]

MCContracts == << {"chain", "loose", "cyclic"}, {"changed"} >>
================================================================================
