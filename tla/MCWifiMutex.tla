---------------------------- MODULE MCWifiMutex ----------------------------
(* Small instances of WifiMutex: three interchangeable tasks. *)
EXTENDS WifiMutex, TLC

Symmetry == Permutations(Tasks)
=============================================================================
