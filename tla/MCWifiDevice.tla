---------------------------- MODULE MCWifiDevice ----------------------------
(* Small instances of WifiDevice: a lone client, an enabling task against  *)
(* a disabling one, and two tasks that make every call.                    *)
EXTENDS WifiDevice

CONSTANTS t1, t2

MCTasks == {t1, t2}

Lone == {[t \in MCTasks |-> IF t = t1 THEN "enables" ELSE "absent"]}

MCCasts == Lone \cup {[t \in MCTasks |-> IF t = t1 THEN "enables" ELSE r] :
                     r \in {"disables", "enables"}}
=============================================================================
