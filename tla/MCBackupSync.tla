---------------------------- MODULE MCBackupSync ----------------------------
(* Model-checking instance of BackupSync: one write to the meta database   *)
(* and one to a project file; every copy is from before or after it.       *)
EXTENDS BackupSync, TLC

CONSTANTS proj, wm, wp, m1

MCDest == (wm :> Meta) @@ (wp :> proj)

(* Some database is still promised something; manual backups overlap with  *)
(* the loop as long as nothing has been deleted or started without.        *)
Focus ==
  /\ blind \cup deleted # Files
  /\ blind \cup deleted # {} => \A j \in Manual : stage[j] = "idle"

=============================================================================
