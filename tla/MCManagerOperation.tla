-------------------------- MODULE MCManagerOperation --------------------------
(* Two manager processes, so that one replaces another or boots while another *)
(* is being stopped; two commands besides the receipts that faults add; two   *)
(* faults, so that a client may be killed and its resumer too.                *)
EXTENDS ManagerOperation
===============================================================================
