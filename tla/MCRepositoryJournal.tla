-------------------------- MODULE MCRepositoryJournal --------------------------
(* Small instance of RepositoryJournal: the manager and a control client, one *)
(* run, one session.                                                          *)
EXTENDS RepositoryJournal, TLC

CONSTANTS manager, client

\* Both use a repository that nothing spoils.
Shared == [users |-> {manager, client}, fragile |-> FALSE, initialised |-> TRUE]
\* The manager alone meets a missing processes.json, and a spoilt one at any time.
Spoilt == [users |-> {manager}, fragile |-> TRUE, initialised |-> FALSE]
\* Both, before there is a processes.json.
Fresh == [users |-> {manager, client}, fragile |-> FALSE, initialised |-> FALSE]

SharedOrSpoilt == {Shared, Spoilt}
OnlyFresh == {Fresh}
================================================================================
