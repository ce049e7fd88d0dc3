---------------------------- MODULE MCWifiEvent ----------------------------
(* Small instances of WifiEvent: three observers, one without the callback. *)
EXTENDS WifiEvent, TLC

Symmetry == Permutations(Listening)
=============================================================================
