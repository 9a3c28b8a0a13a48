----------------------------- MODULE MCMigration -----------------------------
(* Small instances of PageMigration: two pages, the cores and frames. *)
EXTENDS PageMigration

CONSTANTS v1, v2, d1, d2, q1, q2, c1, c2
=============================================================================
