---------------------------- MODULE GpioDebounce ----------------------------
(***************************************************************************)
(* gpio_interrupt_callback_func of hdf_drivers/gpio/gpio_esp32u4.c: every  *)
(* pin of the HDF driver has this handler, which drops an edge that comes  *)
(* at most SHAKE_COUNT ticks after the one before.  The tick of that edge  *)
(* is in lastTickCount, which all pins share; ticks are unsigned and wrap. *)
(*                                                                         *)
(* The ISR service is external: it runs the handlers one after the other.  *)
(* Edges of a pin at most SHAKE_COUNT ticks apart are one burst.           *)
(***************************************************************************)
EXTENDS Integers

CONSTANTS Pins,         \* the pins with a handler
          SHAKE_COUNT,  \* ticks in which an edge is taken for a bounce
          Word,         \* 2^w, w the width of unsigned int
          MaxTime       \* bound: how many ticks are followed

ConstantsOK ==
  SHAKE_COUNT \in Nat /\ Word \in Nat \ 0 .. SHAKE_COUNT /\ MaxTime \in Nat

VARIABLES
  now,            \* ticks since the start, which never wrap
  lastTickCount,
  \* history
  edge,           \* per pin: when its last edge came, 0 before the first
  reports,        \* per pin: how often its last burst was reported
  hidden          \* per pin: its last burst began right after an edge of
                  \* another pin, right after the start, or when no pin had
                  \* had an edge for a turn of the tick counter

history == <<edge, reports, hidden>>
vars == <<now, lastTickCount, history>>

TypeOK ==
  /\ now \in 0 .. MaxTime /\ lastTickCount \in 0 .. Word - 1
  /\ edge \in [Pins -> 0 .. MaxTime]
  /\ reports \in [Pins -> Nat] /\ hidden \in [Pins -> BOOLEAN]

Init ==
  /\ now = 0 /\ lastTickCount = 0
  /\ edge = [p \in Pins |-> 0]
  /\ reports = [p \in Pins |-> 0] /\ hidden = [p \in Pins |-> FALSE]

Tick ==
  /\ now < MaxTime /\ now' = now + 1
  /\ UNCHANGED <<lastTickCount, history>>

\* osKernelGetTickCount
tickCount == now % Word

Recent(p) == edge[p] > 0 /\ now - edge[p] <= SHAKE_COUNT

\* The edge of pin p, which is or is not reported to the client.
Note(p, reported) ==
  LET one == IF reported THEN 1 ELSE 0 IN
  /\ edge' = [edge EXCEPT ![p] = now]
  /\ reports' = [reports EXCEPT ![p] = IF Recent(p) THEN @ + one ELSE one]
  /\ hidden' = [hidden EXCEPT ![p] =
       IF Recent(p) THEN @
       ELSE \/ \E q \in Pins \ {p} : Recent(q)
            \/ now <= SHAKE_COUNT
            \/ \A q \in Pins : now - edge[q] >= Word]

\* Mutant of Handler: ticks are compared, not their difference.
HandlerCompares(p) ==
  /\ now > 0
  /\ lastTickCount' = tickCount
  /\ Note(p, tickCount > lastTickCount + SHAKE_COUNT)
  /\ UNCHANGED now

\* No edge comes before the first tick.
Handler(p) ==
  /\ now > 0
  /\ lastTickCount' = tickCount
  /\ Note(p, (tickCount - lastTickCount) % Word > SHAKE_COUNT)
  /\ UNCHANGED now

Next == Tick \/ \E p \in Pins : Handler(p)

Spec == Init /\ [][Next]_vars

-----------------------------------------------------------------------------
(* Properties *)

\* gpio_esp32u4.c 75, 110-120.  However long a pin bounces, and whatever the
\* other pins do meanwhile, the client hears of the burst once: never twice,
\* and not at all only if the shared lastTickCount hides it, as it began right
\* after an edge of another pin, right after the start, or a turn of the
\* counter after any edge.
BurstIsHeardOnce ==
  \A p \in Pins :
    /\ reports[p] <= 1
    /\ edge[p] > 0 => reports[p] = 1 \/ hidden[p]
=============================================================================
