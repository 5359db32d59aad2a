--------------------------- MODULE MCTaskManager ---------------------------
(* Instances of TaskManager for TLC. *)
EXTENDS TaskProperties

AllEndpoints == {"pause", "resume", "cancel", "delete", "get", "list"}

\* Without deletion, a task is looked up in the database only after a restart.
KeepingEndpoints == AllEndpoints \ {"delete"}
=============================================================================
