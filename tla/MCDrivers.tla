------------------------------ MODULE MCDrivers ------------------------------
(* Small instances of the drivers. *)
EXTENDS Drivers

CONSTANTS t1, t2,       \* two tasks
          slow, fast,   \* settings of the SPI controller
          p1, p2,       \* two pins
          c1, c2, c3    \* three controllers

MCTasks == {t1, t2}

\* SPI: openCnt, which wraps at CountMod = 4, can be driven past its wrap.
MCSpeeds == {slow, fast}

\* UART: two tasks of which one opens hosts.  Host 1 has a node, host 0 has
\* none.  A request cannot be fulfilled: it has too few data bits, and a parity
\* that is noticed after they are stored.
MCOpeners == {t1}
MCHosts == {0, 1}
MCUartPorts == {0, 1}
MCBauds == {19200}
MCHostNode ==
  [h \in {0, 1} |->
     IF h = 0 THEN [uart_port |-> -1]
     ELSE [uart_port |-> 1, baudrate |-> 9600,
           data_bits |-> "UART_DATA_7_BITS", parity |-> "no parity",
           stop_bits |-> "UART_STOP_BITS_1_5"]]
MCSettings ==
  {[baudrate |-> 0, dataBits |-> 0, parity |-> "even", stopBits |-> 2],
   [baudrate |-> 0, dataBits |-> 4, parity |-> "mark", stopBits |-> 1]}

\* I2C: a Heap of 10 holds the link of a read and most of another.
MCTransfers ==
  {<<"write", "read">>, <<"read one">>, <<"other", "write">>,
   <<"empty", "read one">>, <<"write", "other">>}

\* Two devices for I2C bus 0, and one without a node; one watchdog with a node
\* and one without.
MCCntlrs == {c1, c2, c3}
MCI2cDevices == {1, 2, 3}
MCBuses == {0, 1}
MCBusNode == <<0, 0, 2>>
MCWdtDevices == {1, 2}
MCMatched == {1}

\* PWM: the last period gives the frequency 0.
MCPeriods == {3, 4, 5, 13}

MCPins == {p1, p2}

\* Files: one task that seeks and one that reads, writes and stats.
MCSeekers == {t1}
MCFds == {1, 2}
MCOffsets == {-1, 1}

\* LEDC: two of the frequencies are accepted, the third is too high.
MCLedcPorts == {0, 1}
MCFreqs == {2, 3, 6}
=============================================================================
