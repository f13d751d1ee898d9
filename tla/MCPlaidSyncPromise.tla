------------------------- MODULE MCPlaidSyncPromise -------------------------
(* PlaidSyncPromise over the instances of MCPlaidSync, whose feeds meet    *)
(* what the promise needs of the bank.                                     *)
EXTENDS PlaidSyncPromise, MCPlaidSync

ASSUME StatusAssumption == ImportPending \/ StatusKept
=============================================================================
