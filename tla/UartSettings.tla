---------------------------- MODULE UartSettings ----------------------------
(***************************************************************************)
(* The driver entry and the line settings of hdf_drivers/uart/             *)
(* uart_esp32u4.c.  A host keeps the settings in its priv: from the hcs    *)
(* node that matches it, then from the clients, without a lock and one     *)
(* field after the other.  Only an open (UartHostDevInit) brings them to   *)
(* the line, and it ignores the answer of uart_param_config.               *)
(*                                                                         *)
(* External: ESP-IDF, whose calls are atomic and which refuses settings    *)
(* that are out of range, and HDF, which binds and initialises a driver    *)
(* at once, and releases it while no call is under way; then another bind  *)
(* makes a new host, for which the clients ask again.  A driver that finds *)
(* no memory is not served.  Flow control and pins come from the node and  *)
(* never change; they are left out.  UartHost models reading.              *)
(***************************************************************************)
EXTENDS Integers, Sequences

CONSTANTS Tasks, Hosts,
          Openers,    \* the tasks that open hosts
          Ports,      \* of ESP-IDF
          Node,       \* per host, the hcs node that matches it, or NoNode
          Bauds,      \* the rates clients set
          Requests    \* the attributes clients set

ConstantsOK ==
  /\ Openers \subseteq Tasks
  /\ 0 \in Ports
  /\ \A h \in Hosts :
       Node[h] # [uart_port |-> -1] =>
         Node[h].uart_port \in Ports /\ Node[h].baudrate \in Nat
  /\ Bauds \subseteq Nat
  /\ Requests \subseteq
       [baudrate : Nat, dataBits : 0..4,
        parity : {"none", "even", "odd", "mark", "space"}, stopBits : 0..2]

VARIABLES
  served,     \* hosts that are bound and have their methods
  num, priv,  \* per host; NULL or a record of settings
  line,       \* ESP-IDF: per port, how the line is set, Reset before
  installed,  \* ESP-IDF: ports with a driver
  call,       \* per task: the call it is in
  \* history
  asked,      \* per host: the settings it was asked for last, Unknown when
              \* calls overlapped or a request was refused half stored
  wanted,     \* per port: what the open that set the line was to bring
  reached     \* pairs of a host and a port it sent to, set or deleted

lineVars == <<line, installed>>
history == <<asked, wanted, reached>>
vars == <<served, num, priv, lineVars, call, history>>

NULL == [baudrate |-> 0]
Unknown == [baudrate |-> -1]
NoNode == [uart_port |-> -1]
Reset == [baud |-> 0]
Out == [op |-> "none"]

TypeOK ==
  /\ served \subseteq Hosts
  /\ num \in [Hosts -> Ports] /\ installed \subseteq Ports
  /\ \A h \in Hosts : priv[h] # NULL =>
       /\ priv[h].data_bits \in -1..3 /\ priv[h].parity \in {0, 2, 3}
       /\ priv[h].stop_bits \in 1..3
  /\ \A t \in Tasks : call[t].op \in {"none", "set", "open", "install"}

Init ==
  /\ served = {}
  /\ num = [h \in Hosts |-> 0] /\ priv = [h \in Hosts |-> NULL]
  /\ line = [p \in Ports |-> Reset] /\ installed = {}
  /\ call = [t \in Tasks |-> Out]
  /\ asked = [h \in Hosts |-> NULL] /\ wanted = [p \in Ports |-> NULL]
  /\ reached = {}

-----------------------------------------------------------------------------
(* What the numbers mean *)

\* The strings of a node; one that is not known is the default.
GetWordLengthFromStr(str) ==
  CASE str = "UART_DATA_5_BITS" -> 0 [] str = "UART_DATA_6_BITS" -> 1
    [] str = "UART_DATA_7_BITS" -> 2 [] OTHER -> 3
GetParityFromStr(str) ==
  CASE str = "UART_PARITY_EVEN" -> 2 [] str = "UART_PARITY_ODD" -> 3
    [] OTHER -> 0
GetStopBitsFromStr(str) ==
  CASE str = "UART_STOP_BITS_1_5" -> 2 [] str = "UART_STOP_BITS_2" -> 3
    [] OTHER -> 1

\* Mutant of OH_ESP_DATABITS_EX: the two scales are taken to be the same.
DataBitsUnchanged(data_bits) == data_bits

\* The attributes of HDF and those of ESP-IDF count in different ways.
OH_ESP_DATABITS_EX(data_bits) == 3 - data_bits
OH2ESP_STOPBITS(oh_stop_bits) == 1 + oh_stop_bits
ParityOf == [none |-> 0, even |-> 2, odd |-> 3]

\* A line that is set to the settings s, as uart_param_config does it.
Wire(s) == [baud |-> s.baudrate, bits |-> 5 + s.data_bits, parity |-> s.parity,
            halves |-> s.stop_bits + 1]
InRange(s) == s.data_bits \in 0..3

\* The line that a client of HDF has in mind.
WireOf(a) == [baud |-> a.baudrate, bits |-> 8 - a.dataBits,
              parity |-> ParityOf[a.parity], halves |-> a.stopBits + 2]

\* The settings that a node has in mind, those it does not know by default.
Meant(node) ==
  LET Or(names, str, default) ==
        IF str \in DOMAIN names THEN names[str] ELSE default
  IN  [baudrate |-> node.baudrate,
       dataBits |-> Or([UART_DATA_5_BITS |-> 3, UART_DATA_6_BITS |-> 2,
                       UART_DATA_7_BITS |-> 1], node.data_bits, 0),
       parity |-> Or([UART_PARITY_EVEN |-> "even", UART_PARITY_ODD |-> "odd"],
                     node.parity, "none"),
       stopBits |-> Or([UART_STOP_BITS_1_5 |-> 1, UART_STOP_BITS_2 |-> 2],
                       node.stop_bits, 0)]

-----------------------------------------------------------------------------
(* The driver entry *)

\* HDF_GPIO_FIND_SOURCE for a node that matches.
FindSource(h, node) ==
  /\ priv' = [priv EXCEPT ![h] =
       [baudrate |-> node.baudrate,
        data_bits |-> GetWordLengthFromStr(node.data_bits),
        parity |-> GetParityFromStr(node.parity),
        stop_bits |-> GetStopBitsFromStr(node.stop_bits)]]
  /\ num' = [num EXCEPT ![h] = node.uart_port]

\* UartDriverBind and UartDriverInit.  A host that no node matches is served
\* too, without priv and as number 0.
UartDriverInit(h) ==
  /\ h \notin served /\ served' = served \cup {h}
  /\ IF Node[h] = NoNode THEN UNCHANGED <<num, priv, asked>>
     ELSE /\ FindSource(h, Node[h])
          /\ asked' = [asked EXCEPT ![h] = Meant(Node[h])]
  /\ UNCHANGED <<lineVars, call, wanted, reached>>

\* The host itself is never destroyed; it is out of reach.
UartDriverRelease(h) ==
  /\ h \in served /\ \A t \in Tasks : call[t] # Out => call[t].host # h
  /\ priv' = [priv EXCEPT ![h] = NULL] /\ num' = [num EXCEPT ![h] = 0]
  /\ served' = served \ {h}
  /\ UNCHANGED <<lineVars, call, history>>

-----------------------------------------------------------------------------
(* Settings *)

Within(op, h) == \E t \in Tasks : call[t].op = op /\ call[t].host = h

\* A call of t for host h begins; those it overlaps with lose their meaning.
Enter(t, h, c, blurred) ==
  /\ call[t] = Out /\ h \in served /\ priv[h] # NULL
  /\ call' = [u \in Tasks |-> IF u = t THEN c
                             ELSE IF call[u].op \in blurred /\ call[u].host = h
                             THEN [call[u] EXCEPT !.want = Unknown]
                             ELSE call[u]]
  /\ UNCHANGED <<served, num, priv, lineVars, history>>

UartHostDevSetBaud(h, baudRate) ==
  /\ h \in served /\ priv[h] # NULL
  /\ priv' = [priv EXCEPT ![h].baudrate = baudRate]
  /\ asked' = IF asked[h] = Unknown THEN asked
              ELSE [asked EXCEPT ![h].baudrate = baudRate]
  /\ UNCHANGED <<served, num, lineVars, call, wanted, reached>>

Fields == <<"data_bits", "parity", "stop_bits">>

UartHostDevSetAttribute(t, h, attribute) ==
  Enter(t, h, [op |-> "set", host |-> h, at |-> 1, attr |-> attribute,
               want |-> IF Within("set", h) THEN Unknown ELSE attribute],
        {"set", "open"})

\* The field that c stores next, in the terms of ESP-IDF.
Converted(c) ==
  CASE Fields[c.at] = "data_bits" -> OH_ESP_DATABITS_EX(c.attr.dataBits)
    [] Fields[c.at] = "parity"    -> ParityOf[c.attr.parity]
    [] Fields[c.at] = "stop_bits" -> OH2ESP_STOPBITS(c.attr.stopBits)

StoreField(t, c) ==
  /\ c.op = "set"
  /\ Fields[c.at] = "parity" => c.attr.parity \in DOMAIN ParityOf
  /\ priv' = [priv EXCEPT ![c.host][Fields[c.at]] = Converted(c)]
  /\ IF c.at < Len(Fields)
     THEN call' = [call EXCEPT ![t].at = @ + 1] /\ UNCHANGED asked
     ELSE /\ call' = [call EXCEPT ![t] = Out]
          /\ asked' = [asked EXCEPT ![c.host] =
               IF c.want = Unknown THEN Unknown
               ELSE [c.want EXCEPT !.baudrate = priv[c.host].baudrate]]
  /\ UNCHANGED <<served, num, lineVars, wanted, reached>>

\* A parity that ESP-IDF has not ends the call, after the data bits.
ParityRefused(t, c) ==
  /\ c.op = "set" /\ Fields[c.at] = "parity"
  /\ c.attr.parity \notin DOMAIN ParityOf
  /\ call' = [call EXCEPT ![t] = Out]
  /\ asked' = [asked EXCEPT ![c.host] = Unknown]
  /\ UNCHANGED <<served, num, priv, lineVars, wanted, reached>>

-----------------------------------------------------------------------------
(* UartHostDevInit: the settings are read, brought to the line, and the    *)
(* driver is installed.                                                    *)

UartHostDevInit(t, h) ==
  Enter(t, h, [op |-> "open", host |-> h, baudrate |-> priv[h].baudrate,
               read |-> <<>>,
               want |-> IF Within("set", h) THEN Unknown ELSE asked[h]],
        {})

ReadField(t, c) ==
  /\ c.op = "open" /\ Len(c.read) < Len(Fields)
  /\ call' = [call EXCEPT ![t].read =
               Append(@, priv[c.host][Fields[Len(c.read) + 1]])]
  /\ UNCHANGED <<served, num, priv, lineVars, history>>

Port(h) == Node[h].uart_port

\* Settings out of range are refused as a whole, and nobody notices.
ParamConfig(t, c) ==
  /\ c.op = "open" /\ Len(c.read) = Len(Fields)
  /\ LET settings == [baudrate |-> c.baudrate, data_bits |-> c.read[1],
                     parity |-> c.read[2], stop_bits |-> c.read[3]]
         p == Port(c.host)
     IN  IF InRange(settings)
         THEN /\ line' = [line EXCEPT ![p] = Wire(settings)]
              /\ wanted' = [wanted EXCEPT ![p] = c.want]
              /\ reached' = reached \cup {<<c.host, p>>}
         ELSE UNCHANGED <<line, wanted, reached>>
  /\ call' = [call EXCEPT ![t] = [op |-> "install", host |-> c.host]]
  /\ UNCHANGED <<served, num, priv, installed, asked>>

\* Fails on a port that has a driver, or for want of pins or memory.
DriverInstall(t) ==
  /\ call[t].op = "install"
  /\ installed' \in {installed, installed \cup {Port(call[t].host)}}
  /\ call' = [call EXCEPT ![t] = Out]
  /\ UNCHANGED <<served, num, priv, line, history>>

\* Without looking at priv.
UartHostDevDeinit(h) ==
  /\ h \in served /\ num[h] \in installed
  /\ installed' = installed \ {num[h]}
  /\ reached' = reached \cup {<<h, num[h]>>}
  /\ UNCHANGED <<served, num, priv, line, call, asked, wanted>>

UartHostDevWrite(h) ==
  /\ h \in served /\ num[h] \in installed
  /\ reached' = reached \cup {<<h, num[h]>>}
  /\ UNCHANGED <<served, num, priv, lineVars, call, asked, wanted>>

Next ==
  \/ \E h \in Hosts :
       \/ UartDriverInit(h) \/ UartDriverRelease(h)
       \/ \E b \in Bauds : UartHostDevSetBaud(h, b)
       \/ UartHostDevDeinit(h) \/ UartHostDevWrite(h)
       \/ \E t \in Openers : UartHostDevInit(t, h)
       \/ \E t \in Tasks, r \in Requests : UartHostDevSetAttribute(t, h, r)
  \/ \E t \in Tasks :
       \/ StoreField(t, call[t]) \/ ParityRefused(t, call[t])
       \/ ReadField(t, call[t]) \/ ParamConfig(t, call[t]) \/ DriverInstall(t)

Spec == Init /\ [][Next]_vars

-----------------------------------------------------------------------------
(* Properties *)

\* UartHostDevGetBaud and UartHostDevGetAttribute, as the line they describe.
Reported(h) ==
  [baud |-> priv[h].baudrate,
   bits |-> 8 - OH_ESP_DATABITS_EX(priv[h].data_bits),
   parity |-> priv[h].parity,
   halves |-> (priv[h].stop_bits - 1) + 2]

\* uart_esp32u4.c 261-306, 373-443.  The settings pass through two scales and
\* many hands, and yet: a host reports what it was asked for last, and each
\* line is set as the last open that could set it was to do; unless calls that
\* store and read the settings overlapped, or a request was refused half
\* stored, until the next request.  And a host touches no line but its own,
\* unless no node matches it: then it is the host of port 0.
LineIsAsked ==
  /\ \A h \in Hosts :
       priv[h] # NULL /\ asked[h] # Unknown /\ ~Within("set", h) =>
         Reported(h) = WireOf(asked[h])
  /\ \A p \in Ports :
       line[p] # Reset /\ wanted[p] # Unknown => line[p] = WireOf(wanted[p])
  /\ \A pair \in reached : Node[pair[1]] # NoNode => pair[2] = Port(pair[1])
=============================================================================
