---------------------------- MODULE MCWatchScan ----------------------------
(***************************************************************************)
(* Small instances of WatchScan for TLC.                                   *)
(***************************************************************************)
EXTENDS WatchScan, TLC

(* Scanners are interchangeable: they differ only in the lease they hold.  *)
ScannerSymmetry == Permutations(Scanner)
=============================================================================
