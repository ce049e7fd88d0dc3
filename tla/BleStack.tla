----------------------------- MODULE BleStack -----------------------------
(***************************************************************************)
(* EnableBle and DisableBle of hals/drivers/bluetooth_lite/                *)
(* bluetooth_device.c: four calls bring up the controller and on it the    *)
(* host (Bluedroid), two take down the host and the controller.  Tasks     *)
(* call both without a lock, a failed call undoes nothing, and nothing     *)
(* deinitialises the controller or the host.                               *)
(*                                                                         *)
(* The Bluetooth stack is external: each of its calls is refused in the    *)
(* wrong state of its half, and may fail besides.                          *)
(***************************************************************************)
EXTENDS Naturals

CONSTANT Tasks   \* the tasks that call the service

VARIABLES
  controller,   \* state of the controller
  bluedroid,    \* state of the host
  pc,           \* per task: the call it makes next
  \* history
  brought,      \* the host was enabled so many times since the start
  refused       \* a disable of the host has failed, and nobody looked

history == <<brought, refused>>
vars == <<controller, bluedroid, pc, history>>

States == {"idle", "inited", "enabled"}

TypeOK ==
  /\ controller \in States /\ bluedroid \in States
  /\ pc \in [Tasks -> {"out", "controller enable", "bluedroid init",
                       "bluedroid enable", "bluedroid disable",
                       "controller disable"}]
  /\ brought \in Nat /\ refused \in BOOLEAN

Init ==
  /\ controller = "idle" /\ bluedroid = "idle"
  /\ pc = [t \in Tasks |-> "out"]
  /\ brought = 0 /\ refused = FALSE

GoTo(t, label) == pc' = [pc EXCEPT ![t] = label]

-----------------------------------------------------------------------------
(* EnableBle: a call that fails ends it. *)

ControllerInit(t) ==
  /\ pc[t] = "out"
  /\ controller = "idle" /\ controller' = "inited"
  /\ GoTo(t, "controller enable")
  /\ UNCHANGED <<bluedroid, history>>

ControllerEnable(t) ==
  /\ pc[t] = "controller enable"
  /\ controller = "inited" /\ controller' = "enabled"
  /\ GoTo(t, "bluedroid init")
  /\ UNCHANGED <<bluedroid, history>>

BluedroidInit(t) ==
  /\ pc[t] = "bluedroid init"
  /\ controller = "enabled"
  /\ bluedroid = "idle" /\ bluedroid' = "inited"
  /\ GoTo(t, "bluedroid enable")
  /\ UNCHANGED <<controller, history>>

BluedroidEnable(t) ==
  /\ pc[t] = "bluedroid enable"
  /\ bluedroid = "inited" /\ bluedroid' = "enabled"
  /\ brought' = brought + 1
  /\ GoTo(t, "out")
  /\ UNCHANGED <<controller, refused>>

EnableFails(t) ==
  /\ pc[t] \in {"controller enable", "bluedroid init", "bluedroid enable"}
  /\ GoTo(t, "out")
  /\ UNCHANGED <<controller, bluedroid, history>>

EnableBle(t) ==
  \/ ControllerInit(t) \/ ControllerEnable(t)
  \/ BluedroidInit(t) \/ BluedroidEnable(t) \/ EnableFails(t)

-----------------------------------------------------------------------------
(* DisableBle: its calls' answers are not looked at. *)

DisableTest(t) ==
  /\ pc[t] = "out" /\ bluedroid = "enabled"
  /\ GoTo(t, "bluedroid disable")
  /\ UNCHANGED <<controller, bluedroid, history>>

\* Mutant of BluedroidDisable: the controller goes first.
ControllerFirst(t) ==
  /\ pc[t] = "bluedroid disable"
  /\ controller' = IF controller = "enabled" THEN "inited" ELSE controller
  /\ GoTo(t, "controller disable")
  /\ UNCHANGED <<bluedroid, history>>

BluedroidDisable(t) ==
  /\ pc[t] = "bluedroid disable"
  /\ \/ bluedroid = "enabled" /\ bluedroid' = "inited" /\ UNCHANGED refused
     \/ refused' = (refused \/ bluedroid = "enabled") /\ UNCHANGED bluedroid
  /\ GoTo(t, "controller disable")
  /\ UNCHANGED <<controller, brought>>

ControllerDisable(t) ==
  /\ pc[t] = "controller disable"
  /\ \/ controller = "enabled" /\ controller' = "inited"
     \/ UNCHANGED controller
  /\ GoTo(t, "out")
  /\ UNCHANGED <<bluedroid, history>>

DisableBle(t) ==
  DisableTest(t) \/ BluedroidDisable(t) \/ ControllerDisable(t)

Next == \E t \in Tasks : EnableBle(t) \/ DisableBle(t)

Spec == Init /\ [][Next]_vars

-----------------------------------------------------------------------------
(* Properties *)

\* bluetooth_device.c 20-57.  Without a lock, whatever tasks enable and disable
\* at once and wherever an enable fails, the host is up only on an enabled
\* controller, unless the host has refused a disable, whose answer line 53
\* ignores before line 54 takes down the controller; and it is brought up once
\* at most, as nothing a later enable finds initialised is ever deinitialised.
HostOnController ==
  /\ bluedroid = "enabled" => controller = "enabled" \/ refused
  /\ brought <= 1
=============================================================================
