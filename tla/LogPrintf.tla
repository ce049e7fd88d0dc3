----------------------------- MODULE LogPrintf -----------------------------
(***************************************************************************)
(* s_vprintf of hals/log/log.c, behind printf, hal_trace_printf and the    *)
(* HiLog output: tasks share the buffer buf[0], guarded by the byte        *)
(* bufLock, which is tested and set in two steps; an interrupt uses buf[1] *)
(* and no guard.  The text goes to the UART FIFO in pieces.                *)
(*                                                                         *)
(* The scheduler is external: one CPU, which runs a ready task of the      *)
(* highest priority; LOS_TaskDelay(0) yields to tasks of that priority     *)
(* only.  Time slices may preempt a task anywhere.                         *)
(***************************************************************************)
EXTENDS Naturals

CONSTANTS Tasks,     \* the tasks that print
          Isr,       \* the interrupt that prints
          MaxLen,    \* bound: how many pieces a text has
          Prios      \* the priorities tasks may have, higher runs first, as
                     \* functions from Tasks

Printers == Tasks \cup {Isr}

ConstantsOK ==
  /\ Isr \notin Tasks /\ "none" \notin Printers
  /\ MaxLen \in Nat
  /\ Prios \subseteq [Tasks -> Nat]

VARIABLES
  bufLock,   \* the guard of buf[0]
  buf,       \* whose text is in buf[0] and buf[1]; "none" before the first
  pc,        \* per printer: where it is in s_vprintf
  len,       \* per printer: pieces still to write
  sent,      \* history, per printer: whose pieces it has written, and how many
  blocked,   \* the tasks that sleep in their own code and are not ready
  prio,      \* the priority of each task; never changes
  atomic     \* no preemption comes between the test of bufLock and the store
             \* that follows it; never changes

vars == <<bufLock, buf, pc, len, sent, blocked, prio, atomic>>

Nobody == "none"
BufOf(p) == IF p = Isr THEN 1 ELSE 0

TypeOK ==
  /\ bufLock \in BOOLEAN
  /\ buf \in [{0, 1} -> Printers \cup {Nobody}]
  /\ pc \in [Printers -> {"idle", "test", "yield", "set", "format", "write",
                          "done"}]
  /\ len \in [Printers -> 0 .. MaxLen]
  /\ sent \in [Printers -> [own : 0 .. MaxLen, other : 0 .. MaxLen]]
  /\ blocked \in SUBSET Tasks
  /\ prio \in Prios
  /\ atomic \in BOOLEAN

Init ==
  /\ bufLock = FALSE
  /\ buf = [b \in {0, 1} |-> Nobody]
  /\ pc = [p \in Printers |-> "idle"]
  /\ len = [p \in Printers |-> 0]
  /\ sent = [p \in Printers |-> [own |-> 0, other |-> 0]]
  /\ blocked = {}
  /\ prio \in Prios
  /\ atomic \in BOOLEAN

-----------------------------------------------------------------------------
(* The scheduler *)

\* The interrupt runs to its end before any task continues; a task runs if no
\* ready task has a higher priority and, if atomic, nobody is about to store.
Runs(p) ==
  \/ p = Isr
  \/ /\ p \in Tasks \ blocked
     /\ pc[Isr] = "idle"
     /\ \A t \in Tasks \ blocked : prio[t] <= prio[p]
     /\ atomic => \A t \in Tasks \ {p} : pc[t] # "set"

GoTo(p, label) == pc' = [pc EXCEPT ![p] = label]

-----------------------------------------------------------------------------
(* s_vprintf *)

\* A task prints now and then; between prints it may sleep and be woken.
Enter(p) ==
  /\ Runs(p) /\ pc[p] = "idle"
  /\ sent' = [sent EXCEPT ![p] = [own |-> 0, other |-> 0]]
  /\ GoTo(p, IF p = Isr THEN "format" ELSE "test")
  /\ UNCHANGED <<bufLock, buf, len, blocked>>

Sleep(t) ==
  /\ Runs(t) /\ pc[t] = "idle"
  /\ blocked' = blocked \cup {t}
  /\ UNCHANGED <<bufLock, buf, pc, len, sent>>

Wake(t) ==
  /\ t \in blocked
  /\ blocked' = blocked \ {t}
  /\ UNCHANGED <<bufLock, buf, pc, len, sent>>

\* while (bufLock) LOS_TaskDelay(0): a task that has the CPU makes its test
\* whatever the outcome.
TestLock(p) ==
  /\ Runs(p) /\ pc[p] = "test"
  /\ GoTo(p, IF bufLock THEN "yield" ELSE "set")
  /\ UNCHANGED <<bufLock, buf, len, sent, blocked>>

\* The CPU comes back, to this task or to another of its priority.
Yield(p) ==
  /\ Runs(p) /\ pc[p] = "yield"
  /\ GoTo(p, "test")
  /\ UNCHANGED <<bufLock, buf, len, sent, blocked>>

\* Mutant of SetLock: the store is forgotten.
SetLockMissing(p) ==
  /\ Runs(p) /\ pc[p] = "set"
  /\ GoTo(p, "format")
  /\ UNCHANGED <<bufLock, buf, len, sent, blocked>>

SetLock(p) ==
  /\ Runs(p) /\ pc[p] = "set"
  /\ bufLock' = TRUE
  /\ GoTo(p, "format")
  /\ UNCHANGED <<buf, len, sent, blocked>>

\* vsnprintf_s into the printer's buffer; an empty or failed text has length 0.
Format(p) ==
  /\ Runs(p) /\ pc[p] = "format"
  /\ buf' = [buf EXCEPT ![BufOf(p)] = p]
  /\ \E l \in 0 .. MaxLen :
       /\ len' = [len EXCEPT ![p] = l]
       /\ GoTo(p, IF l > 0 THEN "write" ELSE "done")
  /\ UNCHANGED <<bufLock, sent, blocked>>

\* As much as the FIFO has room for is written (with no room the loop yields
\* and looks again); the rest follows when it all fits.
Write(p) ==
  /\ Runs(p) /\ pc[p] = "write"
  /\ \E room \in 1 .. MaxLen :
       LET piece == IF room < len[p] THEN room ELSE len[p] IN
       /\ len' = [len EXCEPT ![p] = @ - piece]
       /\ sent' = IF buf[BufOf(p)] = p
                    THEN [sent EXCEPT ![p].own = @ + piece]
                    ELSE [sent EXCEPT ![p].other = @ + piece]
       /\ GoTo(p, IF len[p] = piece THEN "done" ELSE "write")
  /\ UNCHANGED <<bufLock, buf, blocked>>

\* Mutant of Release: the guard is cleared in the branch of a written text.
ReleaseIfWritten(p) ==
  /\ Runs(p) /\ pc[p] = "done"
  /\ bufLock' = IF p = Isr \/ sent[p].own + sent[p].other = 0
                  THEN bufLock ELSE FALSE
  /\ GoTo(p, "idle")
  /\ UNCHANGED <<buf, len, sent, blocked>>

\* Only a task clears the guard.
Release(p) ==
  /\ Runs(p) /\ pc[p] = "done"
  /\ bufLock' = IF p = Isr THEN bufLock ELSE FALSE
  /\ GoTo(p, "idle")
  /\ UNCHANGED <<buf, len, sent, blocked>>

s_vprintf(p) ==
  TestLock(p) \/ Yield(p) \/ SetLock(p) \/ Format(p) \/ Write(p) \/ Release(p)

Next ==
  /\ \/ \E p \in Printers : Enter(p) \/ s_vprintf(p)
     \/ \E t \in Tasks : Sleep(t) \/ Wake(t)
  /\ UNCHANGED <<prio, atomic>>

Spec == Init /\ [][Next]_vars

\* A task that could have the CPU again and again gets it again and again, and
\* the interrupt returns.  A step of s_vprintf needs nothing but the CPU: what a
\* test of bufLock finds is left to chance.
Fairness ==
  /\ \A t \in Tasks : SF_vars(s_vprintf(t) /\ UNCHANGED <<prio, atomic>>)
  /\ WF_vars(s_vprintf(Isr) /\ UNCHANGED <<prio, atomic>>)

FairSpec == Spec /\ Fairness

-----------------------------------------------------------------------------
(* Properties *)

Holds(t) == pc[t] \in {"format", "write", "done"}

\* log.c 38-68.  A task that is preempted between its pieces still sends
\* nothing but its own text, if nothing comes between test and store; an
\* interrupt never writes a task's text nor a task an interrupt's in any case.
TextIntact ==
  /\ sent[Isr].other = 0 /\ buf[0] # Isr
  /\ atomic =>
       \A t \in Tasks :
         pc[t] \in {"write", "done"} => sent[t].other = 0

Waits(t) == pc[t] \in {"test", "yield"}

\* Task t has come into s_vprintf and is kept from the CPU by a ready task of
\* higher priority that is not printing: it is outside, or it waits in turn.
KeptOff(t) ==
  /\ pc[t] # "idle"
  /\ \E u \in Tasks \ blocked :
       prio[u] > prio[t] /\ (pc[u] = "idle" \/ Waits(u))

\* log.c 45-71.  Printing goes on unless a task of higher priority is in the
\* way: who has passed the test returns, and while a task waits, tasks pass
\* the test again and again, although the buffer is not handed over to any of
\* them: a given task may wait for ever if others print for ever.
PrintsGoOn ==
  \A t \in Tasks :
    /\ (pc[t] # "idle" /\ ~Waits(t)) ~> (pc[t] = "idle" \/ KeptOff(t))
    /\ Waits(t) ~> \E u \in Tasks : pc[u] = "set" \/ KeptOff(u)
=============================================================================
