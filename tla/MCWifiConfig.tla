---------------------------- MODULE MCWifiConfig ----------------------------
(* Small instances of WifiConfig: two tasks, two networks, two entries. *)
EXTENDS WifiConfig, TLC

Symmetry == Permutations(Tasks) \cup Permutations(Nets)
=============================================================================
