------------------------------ MODULE UartHost ------------------------------
(***************************************************************************)
(* The UART host hdf_drivers/uart/uart_esp32u4.c: clients open and close   *)
(* it, change its read mode and read from it while bytes arrive.           *)
(* UartHostDevRead makes three calls of the UART driver, between which     *)
(* bytes arrive and other readers run.                                     *)
(*                                                                         *)
(* The driver is external: a buffer of Capacity bytes, from which a call   *)
(* takes what is there.  Bytes are numbered as they arrive.  Nobody closes *)
(* the host while a reader sleeps in the driver.  The line settings, which *)
(* no read depends on, are left out, and so is sending.  A read asks for a *)
(* byte at least: of none, the code takes one all the same, and then up to *)
(* size - 1, which has wrapped around.                                     *)
(***************************************************************************)
EXTENDS Naturals

CONSTANTS Readers,    \* the tasks that read
          Capacity,   \* UART_RX_BUFF_SIZE
          MaxSize,    \* bound: the largest read
          MaxBytes    \* bound: how many bytes arrive

ConstantsOK ==
  Capacity \in Nat \ {0} /\ MaxSize \in Nat \ {0} /\ MaxBytes \in Nat

VARIABLES
  installed,          \* the driver is installed
  head, tail,         \* bytes head+1 .. tail are in its buffer
  block_time,         \* 0, or Forever
  pc, size, data, rcv_bytes,   \* per reader: the call
  waits               \* per reader: block_time as the call has read it

fifoVars == <<head, tail>>
readVars == <<pc, size, data, rcv_bytes, waits>>
vars == <<installed, fifoVars, block_time, readVars>>

Forever == 1
Unwritten == 0   \* a place of the caller's buffer that was not written
Buffer == [1 .. MaxSize -> 0 .. MaxBytes]

TypeOK ==
  /\ installed \in BOOLEAN
  /\ head \in 0 .. MaxBytes /\ tail \in head .. MaxBytes
  /\ tail - head <= Capacity
  /\ block_time \in {0, Forever}
  /\ pc \in [Readers -> {"idle", "first", "look", "rest", "done"}]
  /\ size \in [Readers -> 1 .. MaxSize]
  /\ data \in [Readers -> Buffer]
  /\ \A r \in Readers : rcv_bytes[r] \in 0 .. size[r]
  /\ waits \in [Readers -> {0, Forever}]

\* After UartDriverInit with a node of the hcs file, and a first open.
Init ==
  /\ installed = TRUE /\ head = 0 /\ tail = 0 /\ block_time = 0
  /\ pc = [r \in Readers |-> "idle"]
  /\ size = [r \in Readers |-> 1]
  /\ data = [r \in Readers |-> [i \in 1 .. MaxSize |-> Unwritten]]
  /\ rcv_bytes = [r \in Readers |-> 0]
  /\ waits = [r \in Readers |-> 0]

Least(a, b) == IF a < b THEN a ELSE b
Waiting(r) == pc[r] = "first" /\ waits[r] = Forever /\ installed /\ head = tail

-----------------------------------------------------------------------------
(* Open, close and mode *)

\* A byte that finds the buffer full is lost before it gets a number.
Arrive ==
  /\ installed /\ tail < MaxBytes /\ tail - head < Capacity
  /\ tail' = tail + 1
  /\ UNCHANGED <<installed, head, block_time, readVars>>

\* Fails when a driver is installed, or when a call of the driver does; what
\* uart_param_config has done by then is kept.
UartHostDevInit ==
  /\ installed' \in {TRUE, installed}
  /\ UNCHANGED <<fifoVars, block_time, readVars>>

\* What is in the buffer goes with the driver.
UartHostDevDeinit ==
  /\ installed /\ \A r \in Readers : ~Waiting(r)
  /\ installed' = FALSE /\ head' = tail
  /\ UNCHANGED <<tail, block_time, readVars>>

\* A mode it does not know changes nothing and is answered by success.
UartHostDevSetTransMode ==
  /\ \E m \in {0, Forever} : block_time' = m
  /\ UNCHANGED <<installed, fifoVars, readVars>>

-----------------------------------------------------------------------------
(* UartHostDevRead *)

GoTo(r, label) == pc' = [pc EXCEPT ![r] = label]

\* HDF_FAILURE, or the end of a call: the buffer is the caller's again.
Return(r) ==
  /\ GoTo(r, "idle")
  /\ size' = [size EXCEPT ![r] = 1]
  /\ data' = [data EXCEPT ![r] = [i \in 1 .. MaxSize |-> Unwritten]]
  /\ rcv_bytes' = [rcv_bytes EXCEPT ![r] = 0]
  /\ waits' = [waits EXCEPT ![r] = 0]

Call(r) ==
  /\ pc[r] = "idle"
  /\ \E n \in 1 .. MaxSize : size' = [size EXCEPT ![r] = n]
  /\ waits' = [waits EXCEPT ![r] = block_time]
  /\ GoTo(r, "first")
  /\ UNCHANGED <<installed, fifoVars, block_time, data, rcv_bytes>>

\* One byte, for which a blocking read waits; without driver an error.
ReadFirst(r) ==
  /\ pc[r] = "first"
  /\ \/ ~installed /\ Return(r) /\ UNCHANGED head
     \/ /\ installed /\ head < tail
        /\ head' = head + 1
        /\ data' = [data EXCEPT ![r][1] = head + 1]
        /\ rcv_bytes' = [rcv_bytes EXCEPT ![r] = 1]
        /\ GoTo(r, "look") /\ UNCHANGED <<size, waits>>
     \/ /\ installed /\ head = tail /\ waits[r] = 0
        /\ GoTo(r, "look") /\ UNCHANGED <<head, size, data, rcv_bytes, waits>>
  /\ UNCHANGED <<installed, tail, block_time>>

\* uart_get_buffered_data_len; without driver the length stays 0.
LookAtLength(r) ==
  /\ pc[r] = "look"
  /\ GoTo(r, IF installed /\ head < tail THEN "rest" ELSE "done")
  /\ UNCHANGED <<installed, fifoVars, block_time, size, data,
                 rcv_bytes, waits>>

\* Mutant of ReadRest: the count of the first byte is overwritten.
ReadRestRecounts(r) ==
  /\ pc[r] = "rest" /\ installed
  /\ LET k == Least(size[r] - 1, tail - head) IN
       /\ head' = head + k
       /\ data' = [data EXCEPT ![r] = [i \in 1 .. MaxSize |->
                     IF i \in 2 .. k + 1 THEN head + i - 1 ELSE @[i]]]
       /\ rcv_bytes' = [rcv_bytes EXCEPT ![r] = k]
       /\ GoTo(r, "done")
  /\ UNCHANGED <<installed, tail, block_time, size, waits>>

\* Up to size - 1 bytes go to &data[1], whether or not data[0] was filled.
ReadRest(r) ==
  /\ pc[r] = "rest"
  /\ \/ ~installed /\ Return(r) /\ UNCHANGED head
     \/ LET k == Least(size[r] - 1, tail - head) IN
          /\ installed
          /\ head' = head + k
          /\ data' = [data EXCEPT ![r] = [i \in 1 .. MaxSize |->
                        IF i \in 2 .. k + 1 THEN head + i - 1 ELSE @[i]]]
          /\ rcv_bytes' = [rcv_bytes EXCEPT ![r] = @ + k]
          /\ GoTo(r, "done") /\ UNCHANGED <<size, waits>>
  /\ UNCHANGED <<installed, tail, block_time>>

ReadReturns(r) ==
  /\ pc[r] = "done" /\ Return(r)
  /\ UNCHANGED <<installed, fifoVars, block_time>>

UartHostDevRead(r) ==
  ReadFirst(r) \/ LookAtLength(r) \/ ReadRest(r) \/ ReadReturns(r)

Next ==
  \/ Arrive
  \/ UartHostDevInit \/ UartHostDevDeinit
  \/ UartHostDevSetTransMode
  \/ \E r \in Readers : Call(r) \/ UartHostDevRead(r)

Spec == Init /\ [][Next]_vars

-----------------------------------------------------------------------------
(* Properties *)

\* The bytes reader r has taken, and those its return value covers.
Taken(r) == {data[r][i] : i \in 1 .. MaxSize} \ {Unwritten}
Presented(r) == {data[r][i] : i \in 1 .. rcv_bytes[r]}

\* uart_esp32u4.c 330-360.  Though other readers take some between its two
\* calls, the bytes of a read are in the order in which they came, and it
\* returns just the bytes it took, unless its first byte was not there and was
\* not waited for: then the count is of bytes that begin at data[1].
ReturnsWhatItTook ==
  \A r \in Readers : pc[r] = "done" =>
    /\ \/ Presented(r) = Taken(r)
       \/ data[r][1] = Unwritten /\ waits[r] = 0
    /\ \A i, j \in 1 .. MaxSize :
         i < j /\ data[r][j] # Unwritten => data[r][i] < data[r][j]
=============================================================================
