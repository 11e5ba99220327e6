---------------------------- MODULE MCBulkImport -----------------------------
(* Instances of BulkImport for TLC.  Addresses and workers are alike.         *)
EXTENDS BulkImport, TLC

ImportSymmetry == Permutations(Workers) \cup Permutations(Emails)
=============================================================================
