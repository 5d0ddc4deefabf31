----------------------------- MODULE MCPruneJournal -----------------------------
(* Two runs, a closing session, two coordinators and a fault. *)
EXTENDS PruneJournal
================================================================================
