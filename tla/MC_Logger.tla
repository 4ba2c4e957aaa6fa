------------------------------ MODULE MC_Logger ------------------------------
(* Model-checking instance of Logger: NewFileLogger's writer (maxbackup 10 *)
(* scaled to 3 names, two backups) with a rotation size of two records.   *)
EXTENDS Logger

=============================================================================
