--------------------------- MODULE MCHalServices ---------------------------
(* Small instances of the services of hals/. *)
EXTENDS HalServices

CONSTANTS t1, t2, t3   \* tasks

MCTasks == {t1, t2}

\* Two tasks of one priority, and one that preempts the other.
MCPrios ==
  {[t \in MCTasks |-> 1], [t \in MCTasks |-> IF t = t1 THEN 1 ELSE 2]}

\* One task that makes two calls, or two that make one each.
MCBudgets ==
  {[t \in MCTasks |-> IF t = t1 THEN 2 ELSE 0], [t \in MCTasks |-> 1]}

\* The second task writes single bytes, at the end of a sector or not.
MCLongest == [t \in MCTasks |-> IF t = t1 THEN SectorSize * Sectors ELSE 1]

MCBleTasks == {t1, t2, t3}
=============================================================================
