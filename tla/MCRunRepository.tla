--------------------------- MODULE MCRunRepository ----------------------------
(* Small instance of RunRepository: two runs of one service, one session. *)
EXTENDS RunRepository, TLC

CONSTANT web
MCServiceOf == [k \in Keys |-> web]

KeySymmetry == Permutations(Keys)
IdSymmetry == Permutations(ClaimIds)
================================================================================
