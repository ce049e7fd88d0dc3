------------------------------ MODULE I2cDriver ------------------------------
(***************************************************************************)
(* The driver entry of hdf_drivers/i2c/i2c_esp32u4.c: what becomes of the  *)
(* controllers it allocates, of the table of HDF's I2C core that names     *)
(* them, and of the buses it sets up.  I2cHost models the transfers.       *)
(*                                                                         *)
(* External: HDF calls the entry of one device after the other, and it may *)
(* release a device once after its Init, whether that succeeded or not;    *)
(* I2cCntlrAdd refuses a bus that is taken; I2cCntlrRemove is never        *)
(* called.  An allocation takes an object of its own, or fails.            *)
(***************************************************************************)
EXTENDS Naturals, FiniteSets

CONSTANTS Devices,
          Cntlrs,    \* the controllers that can be allocated
          Buses,
          NoBus,
          Node       \* per device: the bus that the hcs file gives, or NoBus

ConstantsOK ==
  /\ 0 \in Buses /\ NoBus \notin Buses
  /\ Node \in [Devices -> Buses \cup {NoBus}]

VARIABLES
  priv,      \* per device: device->priv, {} or the controller
  cntlr,     \* per controller: its state, its resource, its bus and device
  table,     \* HDF: per bus, {} or the controller
  setup,     \* ESP-IDF: per bus, {} or the device it was set up for
  \* history
  tried,     \* devices that were initialised
  released,  \* controllers that HDF released
  misused    \* controllers used after they were freed

vars == <<priv, cntlr, table, setup, tried, released, misused>>

Unused == [state |-> "unused"]

TypeOK ==
  /\ \A d \in Devices : priv[d] \subseteq Cntlrs /\ Cardinality(priv[d]) <= 1
  /\ \A c \in Cntlrs : cntlr[c] # Unused =>
       cntlr[c] \in [state : {"live", "freed"}, busId : Buses, device : Devices,
                     resource : {"none", "live", "freed"}]
  /\ \A b \in Buses : table[b] \subseteq Cntlrs /\ setup[b] \subseteq Devices
  /\ tried \subseteq Devices
  /\ released \subseteq Cntlrs /\ misused \subseteq Cntlrs

Init ==
  /\ priv = [d \in Devices |-> {}] /\ cntlr = [c \in Cntlrs |-> Unused]
  /\ table = [b \in Buses |-> {}] /\ setup = [b \in Buses |-> {}]
  /\ tried = {} /\ released = {} /\ misused = {}

Fresh(d) == [state |-> "live", resource |-> "none", busId |-> 0, device |-> d]

\* The bus of the resource: of a device without node, what memset_s left.
Port(d) == IF Node[d] = NoBus THEN 0 ELSE Node[d]

\* OsalMemFree of a controller and its resource.
Freed(controller) == [controller EXCEPT !.state = "freed", !.resource = "freed"]

-----------------------------------------------------------------------------
(* I2cDriverInit and I2cDriverRelease *)

\* No memory for the resource: the release finds no resource, and returns.
NoResource(d, c) ==
  /\ cntlr' = [cntlr EXCEPT ![c] = Fresh(d)]
  /\ UNCHANGED <<table, setup>>

\* Mutant of NoNode: the failure is not noticed.
NoNodeAdds(d, c) ==
  /\ Node[d] = NoBus
  /\ setup' = [setup EXCEPT ![0] = {d}]
  /\ cntlr' = [cntlr EXCEPT ![c] = [Fresh(d) EXCEPT !.resource = "freed"]]
  /\ table' = IF table[0] = {} THEN [table EXCEPT ![0] = {c}] ELSE table

\* No node: bus 0 is set up with pins 0 all the same, then the resource is
\* freed; the release returns again.
NoNode(d, c) ==
  /\ Node[d] = NoBus
  /\ setup' = [setup EXCEPT ![0] = {d}]
  /\ cntlr' = [cntlr EXCEPT ![c] = Fresh(d)]
  /\ UNCHANGED table

\* The bus is set up before it is known whether the table has room for it.
Attached(d, c) ==
  LET host == [Fresh(d) EXCEPT !.resource = "live", !.busId = Port(d)]
  IN  /\ Node[d] # NoBus
      /\ setup' = [setup EXCEPT ![Port(d)] = {d}]
      /\ IF table[Port(d)] = {}
         THEN /\ cntlr' = [cntlr EXCEPT ![c] = host]
              /\ table' = [table EXCEPT ![Port(d)] = {c}]
         ELSE /\ cntlr' = [cntlr EXCEPT ![c] = Freed(host)]
              /\ UNCHANGED table

\* Without memory for a controller, device->priv stays as it is.
I2cDriverInit(d) ==
  /\ d \notin tried /\ tried' = tried \cup {d}
  /\ \/ \E c \in Cntlrs :
          /\ cntlr[c] = Unused /\ priv' = [priv EXCEPT ![d] = {c}]
          /\ NoResource(d, c) \/ NoNode(d, c) \/ Attached(d, c)
     \/ UNCHANGED <<priv, cntlr, table, setup>>
  /\ UNCHANGED <<released, misused>>

\* Reads the controller, and frees it if it has a resource.  device->priv and
\* the table are left as they are, and then the device may be tried again.
I2cDriverRelease(d) ==
  /\ d \in tried /\ tried' = tried \ {d}
  /\ released' = released \cup priv[d]
  /\ misused' = misused \cup {c \in priv[d] : cntlr[c].state = "freed"}
  /\ cntlr' = [c \in Cntlrs |->
       IF c \in priv[d] /\ cntlr[c].resource # "none" THEN Freed(cntlr[c])
                                                    ELSE cntlr[c]]
  /\ UNCHANGED <<priv, table, setup>>

\* A client of the bus: I2cDataTransfer looks at the controller first.
I2cDataTransfer(b) ==
  /\ table[b] # {}
  /\ misused' = misused \cup {c \in table[b] :
                              "freed" \in {cntlr[c].state, cntlr[c].resource}}
  /\ UNCHANGED <<priv, cntlr, table, setup, tried, released>>

Next ==
  \/ \E d \in Devices : I2cDriverInit(d) \/ I2cDriverRelease(d)
  \/ \E b \in Buses : I2cDataTransfer(b)

Spec == Init /\ [][Next]_vars

-----------------------------------------------------------------------------
(* Properties *)

\* i2c_esp32u4.c 168-304.  However inits fail, memory that was freed is used
\* only of a controller that HDF released; what the table names is whole until
\* then; a controller that is whole is in the table; and a bus is set up for
\* the device the table has for it, unless another device with its number, or
\* one without node on bus 0, was initialised since: that set it up anew, and
\* only then was refused.
BusIsServed ==
  /\ misused \subseteq released
  /\ \A b \in Buses : \A c \in table[b] \ released :
       /\ cntlr[c].state = "live" /\ cntlr[c].resource = "live"
       /\ cntlr[c].busId = b
       /\ \/ setup[b] = {cntlr[c].device}
          \/ \E d \in setup[b] : table[b] # priv[d] /\ Port(d) = b
  /\ \A c \in Cntlrs :
       cntlr[c] # Unused /\ cntlr[c].resource = "live" =>
         c \in table[cntlr[c].busId]
=============================================================================
