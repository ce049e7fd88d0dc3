------------------------------ MODULE HalUart ------------------------------
(***************************************************************************)
(* A port of hals/iot_hardware/wifiiot_lite/hal_iot_uart.c: IoTUartInit,   *)
(* IoTUartDeinit and IoTUartRead, whose loop calls the driver until no     *)
(* byte remains to be read; other tasks run and bytes arrive between two   *)
(* of its calls.                                                           *)
(*                                                                         *)
(* The driver is external: it has a buffer of Capacity bytes, which are    *)
(* numbered as they arrive.  One reader at a time is inside it; a blocking *)
(* call gets all it asks for, another what is there.  Nobody deinitialises *)
(* the port while a reader sleeps in the driver.  Writing, and the line    *)
(* settings, which no read depends on, are left out; so are other ports,   *)
(* and the test of the port number, which lets UART_NUM_MAX through.       *)
(***************************************************************************)
EXTENDS Integers

CONSTANTS Readers,    \* the tasks that read
          Capacity,   \* 2 * RX_BUF_SIZE
          MaxSize,    \* bound: the largest read
          MaxBytes    \* bound: how many bytes arrive

ConstantsOK ==
  MaxSize \in Nat \ {0} /\ Capacity \in Nat \ 0 .. MaxSize - 1 /\ MaxBytes \in Nat

VARIABLES
  uart_state,       \* the port is UART_STATE_USEABLE
  rx_block,         \* rx_block_state is BLOCK
  installed,        \* the driver is installed
  head, tail,       \* bytes head+1 .. tail are in its buffer
  pc, dataLen, data_received, data_remaining,   \* per reader: the call
  further           \* history, per reader: the driver was called again after
                    \* it had given bytes

portVars == <<uart_state, rx_block, installed>>
fifoVars == <<head, tail>>
readVars == <<pc, dataLen, data_received, data_remaining, further>>
vars == <<portVars, fifoVars, readVars>>

\* A remainder below zero, which each further call leaves below zero.
Negative == -1

TypeOK ==
  /\ uart_state \in BOOLEAN /\ rx_block \in BOOLEAN /\ installed \in BOOLEAN
  /\ head \in 0 .. MaxBytes /\ tail \in head .. MaxBytes
  /\ tail - head <= Capacity
  /\ pc \in [Readers -> {"idle", "read", "success", "overrun"}]
  /\ dataLen \in [Readers -> 0 .. MaxSize]
  /\ data_received \in [Readers -> 0 .. MaxSize]
  /\ data_remaining \in [Readers -> Negative .. MaxSize]
  /\ further \in [Readers -> BOOLEAN]

Init ==
  /\ uart_state = FALSE /\ rx_block = FALSE /\ installed = FALSE
  /\ head = 0 /\ tail = 0
  /\ pc = [r \in Readers |-> "idle"]
  /\ dataLen = [r \in Readers |-> 0]
  /\ data_received = [r \in Readers |-> 0]
  /\ data_remaining = [r \in Readers |-> 0]
  /\ further = [r \in Readers |-> FALSE]

Available == tail - head
Least(a, b) == IF a < b THEN a ELSE b
Sleeps(r) ==
  pc[r] = "read" /\ rx_block /\ installed /\ Available < data_remaining[r]

-----------------------------------------------------------------------------
(* The port *)

\* A byte that finds the buffer full is lost before it gets a number.
Arrive ==
  /\ installed /\ tail < MaxBytes /\ Available < Capacity
  /\ tail' = tail + 1
  /\ UNCHANGED <<portVars, head, readVars>>

\* The attributes are stored first.  A driver that was installed stays when
\* one of the calls after it fails, and a later installation is refused.
IoTUartInit ==
  /\ ~uart_state
  /\ rx_block' \in BOOLEAN
  /\ \/ ~installed /\ installed' = TRUE /\ uart_state' \in BOOLEAN
     \/ UNCHANGED <<installed, uart_state>>
  /\ UNCHANGED <<fifoVars, readVars>>

\* uart_state stays as it is.
IoTUartDeinit ==
  /\ uart_state /\ \A r \in Readers : ~Sleeps(r)
  /\ installed' = FALSE /\ head' = tail
  /\ UNCHANGED <<uart_state, rx_block, tail, readVars>>

-----------------------------------------------------------------------------
(* IoTUartRead *)

GoTo(r, label) == pc' = [pc EXCEPT ![r] = label]

Call(r) ==
  /\ pc[r] = "idle" /\ uart_state
  /\ \E n \in 1 .. MaxSize :
       /\ dataLen' = [dataLen EXCEPT ![r] = n]
       /\ data_remaining' = [data_remaining EXCEPT ![r] = n]
  /\ GoTo(r, "read")
  /\ UNCHANGED <<portVars, fifoVars, data_received, further>>

\* The end of a call: its local variables go out of scope.
Return(r) ==
  /\ GoTo(r, "idle")
  /\ dataLen' = [dataLen EXCEPT ![r] = 0]
  /\ data_received' = [data_received EXCEPT ![r] = 0]
  /\ data_remaining' = [data_remaining EXCEPT ![r] = 0]
  /\ further' = [further EXCEPT ![r] = FALSE]

\* The rest of a round of the loop, after a call that gave n bytes, or -1: the
\* remainder shrinks by all that was received, not by n.
Account(r, n) ==
  LET total == data_received[r] + n
      rest == data_remaining[r] - total
  IN  IF total < 0
        THEN Return(r)   \* IOT_FAILURE
        ELSE /\ data_received' = [data_received EXCEPT ![r] = total]
             /\ data_remaining' = [data_remaining EXCEPT ![r] =
                  IF data_remaining[r] < 0 \/ rest < 0 THEN Negative ELSE rest]
             /\ further' = [further EXCEPT ![r] = @ \/ data_received[r] > 0]
             /\ GoTo(r, IF data_remaining[r] > 0 /\ rest = 0 THEN "success"
                                                            ELSE "read")
             /\ UNCHANGED dataLen

\* Mutant of ReadBytes: one call is enough.
ReadBytesOnce(r) ==
  /\ pc[r] = "read" /\ installed /\ ~Sleeps(r)
  /\ LET n == Least(data_remaining[r], Available) IN
       /\ head' = head + n
       /\ data_received' = [data_received EXCEPT ![r] = n]
  /\ GoTo(r, "success")
  /\ UNCHANGED <<portVars, tail, dataLen, data_remaining, further>>

\* One call of uart_read_bytes.  A remainder below zero asks for more than
\* there ever is.
ReadBytes(r) ==
  /\ pc[r] = "read"
  /\ \/ ~installed /\ Account(r, -1) /\ UNCHANGED head
     \/ /\ installed /\ ~Sleeps(r)
        /\ LET n == IF data_remaining[r] < 0 THEN Available
                    ELSE Least(data_remaining[r], Available)
           IN  /\ head' = head + n
               /\ \/ data_received[r] + n <= dataLen[r] /\ Account(r, n)
                  \/ /\ data_received[r] + n > dataLen[r]
                     /\ GoTo(r, "overrun")
                     /\ further' = [further EXCEPT ![r] = @ \/ data_received[r] > 0]
                     /\ UNCHANGED <<dataLen, data_received, data_remaining>>
  /\ UNCHANGED <<portVars, tail>>

ReadReturns(r) ==
  /\ pc[r] = "success" /\ Return(r)
  /\ UNCHANGED <<portVars, fifoVars>>

IoTUartRead(r) == ReadBytes(r) \/ ReadReturns(r)

Next ==
  \/ Arrive \/ IoTUartInit \/ IoTUartDeinit
  \/ \E r \in Readers : Call(r) \/ IoTUartRead(r)

Spec == Init /\ [][Next]_vars

-----------------------------------------------------------------------------
(* Properties *)

\* hal_iot_uart.c 202-220.  The remainder shrinks by the total after every
\* call, so the loop is right as long as the driver gives bytes only once, in
\* its last call: then a success means a full buffer.  After a further call it
\* never does, and only a further call can put bytes beyond the buffer's end.
FullUnlessFurther ==
  \A r \in Readers :
    /\ pc[r] = "success" => (data_received[r] = dataLen[r] <=> ~further[r])
    /\ pc[r] = "overrun" => further[r]
=============================================================================
