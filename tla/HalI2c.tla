------------------------------- MODULE HalI2c -------------------------------
(***************************************************************************)
(* The HAL I2C ports of hals/iot_hardware/wifiiot_lite/hal_iot_i2c.c: port *)
(* 0 is a slave, port 1 a master.  The state of a port is tested and       *)
(* stored without a lock, and stored before the driver is called: the      *)
(* driver's answer only goes to the caller.                                *)
(*                                                                         *)
(* The ESP-IDF driver is external: installing fails on an installed port   *)
(* or for want of memory, deleting and transferring fail on one that is    *)
(* not installed.  The slave's buffers hold what the bus and the other     *)
(* tasks leave in them; a call on them gives up after a second with the    *)
(* bytes it has.  IoTI2cSetBaudrate does nothing.                          *)
(***************************************************************************)
EXTENDS Naturals

CONSTANTS Tasks, MaxLen   \* the longest transfer

ConstantsOK == MaxLen \in Nat

Ports == {0, 1}
Master == 1

VARIABLES
  i2c_state,   \* per port: the HAL's view
  installed,   \* per port: ESP-IDF has a driver for it
  pc,          \* per task: its next step
  port,        \* per task: the port it works on
  left,        \* per task: dataLen less what the slave has moved already
  \* history
  overlap,     \* ports of which an init and a deinit have overlapped
  failed       \* ports whose last init failed

vars == <<i2c_state, installed, pc, port, left, overlap, failed>>

Initing == {"mark", "config", "install"}
Deiniting == {"unmark", "delete"}
Labels == {"out", "master", "slave"} \cup Initing \cup Deiniting

TypeOK ==
  /\ i2c_state \in [Ports -> {"UNINIT", "INIT"}]
  /\ installed \in [Ports -> BOOLEAN] /\ pc \in [Tasks -> Labels]
  /\ port \in [Tasks -> Ports] /\ left \in [Tasks -> 0..MaxLen]
  /\ overlap \subseteq Ports /\ failed \subseteq Ports

Init ==
  /\ i2c_state = [p \in Ports |-> "UNINIT"]
  /\ installed = [p \in Ports |-> FALSE]
  /\ pc = [t \in Tasks |-> "out"] /\ port = [t \in Tasks |-> 0]
  /\ left = [t \in Tasks |-> 0] /\ overlap = {} /\ failed = {}

Step(t, from, to) == pc[t] = from /\ pc' = [pc EXCEPT ![t] = to]
Within(p, labels) == \E t \in Tasks : port[t] = p /\ pc[t] \in labels

\* t calls a function for port p, perhaps in the company of others.
Enter(t, p, first) ==
  /\ Step(t, "out", first) /\ port' = [port EXCEPT ![t] = p]
  /\ overlap' = IF \/ first \in Initing /\ Within(p, Deiniting)
                   \/ first \in Deiniting /\ Within(p, Initing)
                THEN overlap \cup {p} ELSE overlap
  /\ UNCHANGED <<i2c_state, installed, failed>>

-----------------------------------------------------------------------------
(* IoTI2cInit.  A baud rate of 0 is refused for the master. *)

InitTest(t, p) ==
  /\ i2c_state[p] = "UNINIT" /\ Enter(t, p, "mark")
  /\ UNCHANGED left

Mark(t) ==
  /\ Step(t, "mark", "config")
  /\ i2c_state' = [i2c_state EXCEPT ![port[t]] = "INIT"]
  /\ failed' = failed \ {port[t]}
  /\ UNCHANGED <<installed, port, left, overlap>>

InitFails(t) ==
  /\ Step(t, "config", "out") \/ Step(t, "install", "out")
  /\ failed' = failed \cup {port[t]}
  /\ UNCHANGED <<i2c_state, installed, port, left, overlap>>

ParamConfig(t) ==
  /\ Step(t, "config", "install")
  /\ UNCHANGED <<i2c_state, installed, port, left, overlap, failed>>

DriverInstall(t) ==
  /\ Step(t, "install", "out")
  /\ ~installed[port[t]] /\ installed' = [installed EXCEPT ![port[t]] = TRUE]
  /\ UNCHANGED <<i2c_state, port, left, overlap, failed>>

IoTI2cInit(t) ==
  \/ \E p \in Ports : InitTest(t, p)
  \/ Mark(t) \/ ParamConfig(t) \/ DriverInstall(t) \/ InitFails(t)

-----------------------------------------------------------------------------
(* IoTI2cDeinit *)

DeinitTest(t, p) ==
  /\ i2c_state[p] = "INIT" /\ Enter(t, p, "unmark")
  /\ UNCHANGED left

Unmark(t) ==
  /\ Step(t, "unmark", "delete")
  /\ i2c_state' = [i2c_state EXCEPT ![port[t]] = "UNINIT"]
  /\ UNCHANGED <<installed, port, left, overlap, failed>>

\* Mutant of DriverDelete: the driver of the other port is deleted.
DeletesOther(t) ==
  /\ Step(t, "delete", "out")
  /\ installed' = [installed EXCEPT ![1 - port[t]] = FALSE]
  /\ UNCHANGED <<i2c_state, port, left, overlap, failed>>

DriverDelete(t) ==
  /\ Step(t, "delete", "out")
  /\ installed' = [installed EXCEPT ![port[t]] = FALSE]
  /\ UNCHANGED <<i2c_state, port, left, overlap, failed>>

IoTI2cDeinit(t) ==
  (\E p \in Ports : DeinitTest(t, p)) \/ Unmark(t) \/ DriverDelete(t)

-----------------------------------------------------------------------------
(* IoTI2cWrite and IoTI2cRead *)

\* A client transfers len bytes; the state was looked at before.
TransferTest(t, p, len) ==
  /\ i2c_state[p] = "INIT"
  /\ Enter(t, p, IF p = Master THEN "master" ELSE "slave")
  /\ left' = [left EXCEPT ![t] = len]

\* The master puts the whole transfer on a link, runs it and deletes it.
MasterTransfer(t) ==
  /\ Step(t, "master", "out")
  /\ left' = [left EXCEPT ![t] = 0]
  /\ UNCHANGED <<i2c_state, installed, port, overlap, failed>>

\* The slave asks its buffer for the rest again and again, until it has got
\* all, or nothing more in time, or a failure: when the driver is gone.
SlaveCall(t) ==
  /\ \/ \E n \in 1..left[t] : /\ installed[port[t]] /\ Step(t, "slave", "slave")
                              /\ left' = [left EXCEPT ![t] = @ - n]
     \/ Step(t, "slave", "out") /\ left' = [left EXCEPT ![t] = 0]
  /\ UNCHANGED <<i2c_state, installed, port, overlap, failed>>

Transfer(t) ==
  \/ \E p \in Ports, len \in 1..MaxLen : TransferTest(t, p, len)
  \/ MasterTransfer(t) \/ SlaveCall(t)

Next == \E t \in Tasks : IoTI2cInit(t) \/ IoTI2cDeinit(t) \/ Transfer(t)

Spec == Init /\ [][Next]_vars

-----------------------------------------------------------------------------
(* Properties *)

\* hal_iot_i2c.c 184-227.  The state is stored before the driver answers, but
\* as long as no init and deinit of a port overlap, and once nobody is in one,
\* a port that is not initialised has no driver, so the next init can install
\* one, and a port that is initialised has one, unless its init failed.
\* (Then only a deinit, which fails too, lets it be tried again.)
StateIsTrue ==
  \A p \in Ports \ overlap :
    ~Within(p, Initing \cup Deiniting) =>
      /\ i2c_state[p] = "UNINIT" => ~installed[p]
      /\ i2c_state[p] = "INIT" /\ p \notin failed => installed[p]
=============================================================================
