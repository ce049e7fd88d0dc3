----------------------------- MODULE MCWifiScan -----------------------------
(* Small instances of WifiScan. *)
EXTENDS WifiScan, TLC
=============================================================================
