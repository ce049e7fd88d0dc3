------------------------------ MODULE I2cHost ------------------------------
(***************************************************************************)
(* Transfers of the I2C host hdf_drivers/i2c/i2c_esp32u4.c.  A message is  *)
(* sent by building a command link on the heap, one call of ESP-IDF for    *)
(* each command, executing the link and deleting it.  A call that finds    *)
(* the heap exhausted ends the message, and the link is not deleted.       *)
(*                                                                         *)
(* Several tasks transfer, on different hosts, and share the heap, which   *)
(* is external: a link and each of its commands take a block.  A message   *)
(* is reduced to what its flags and length tell the driver to do:          *)
(*   "write"   writes at least one byte,                                   *)
(*   "read"    reads at least two, "read one" a single one,                *)
(*   "empty"   has the length 0,                                           *)
(*   "other"   has flags that are neither 0 nor I2C_FLAG_READ.             *)
(***************************************************************************)
EXTENDS Naturals, Sequences, FiniteSets

CONSTANTS Tasks,     \* the tasks that transfer
          Requests,  \* the sequences of messages they transfer
          Heap       \* blocks of the heap

Messages == {"write", "read", "read one", "empty", "other"}

ConstantsOK == Requests \subseteq Seq(Messages) /\ Heap \in Nat

VARIABLES
  free,     \* blocks of the heap that are free
  msgs,     \* per task: its request, <<>> between two transfers
  count,    \* per task: the messages that are left
  link,     \* per task: the commands of its link; NoLink before and after
  ret,      \* per task: the transfer has ended with count
  \* history
  sent,     \* per task: the messages that were on the bus, by their place
  failed    \* some message has failed

vars == <<free, msgs, count, link, ret, sent, failed>>

NoLink == <<"none">>

\* The commands of a whole link, in their order.
Commands ==
  [m \in {"write", "read", "read one"} |->
     CASE m = "write"    -> <<"start", "address", "write", "stop">>
       [] m = "read"     -> <<"start", "address", "read", "read_byte", "stop">>
       [] m = "read one" -> <<"start", "address", "read_byte", "stop">>]

Links == {NoLink, <<>>} \cup UNION {{SubSeq(Commands[m], 1, k) :
                              k \in 1 .. Len(Commands[m])} : m \in DOMAIN Commands}

TypeOK ==
  /\ free \in 0 .. Heap
  /\ msgs \in [Tasks -> Requests \cup {<<>>}]
  /\ \A t \in Tasks : count[t] \in 0 .. Len(msgs[t])
  /\ link \in [Tasks -> Links]
  /\ ret \in [Tasks -> BOOLEAN]
  /\ \A t \in Tasks : sent[t] \in Seq(1 .. Len(msgs[t]))
  /\ failed \in BOOLEAN

Init ==
  /\ free = Heap
  /\ msgs = [t \in Tasks |-> <<>>]
  /\ count = [t \in Tasks |-> 0]
  /\ link = [t \in Tasks |-> NoLink]
  /\ ret = [t \in Tasks |-> FALSE]
  /\ sent = [t \in Tasks |-> <<>>]
  /\ failed = FALSE

Place(t) == Len(msgs[t]) - count[t] + 1   \* of the current message
Message(t) == msgs[t][Place(t)]
Busy(t) == msgs[t] # <<>> /\ ~ret[t]
Blocks(t) == IF link[t] = NoLink THEN 0 ELSE 1 + Len(link[t])

-----------------------------------------------------------------------------
(* I2cDataTransfer *)

I2cDataTransfer(t) ==
  /\ msgs[t] = <<>>
  /\ \E request \in Requests :
       /\ msgs' = [msgs EXCEPT ![t] = request]
       /\ count' = [count EXCEPT ![t] = Len(request)]
  /\ UNCHANGED <<free, link, ret, sent, failed>>

\* A message without bytes, or with flags the driver does not know, is passed
\* over as if it were sent.
Skip(t) ==
  /\ Busy(t) /\ count[t] > 0 /\ Message(t) \in {"empty", "other"}
  /\ count' = [count EXCEPT ![t] = @ - 1]
  /\ UNCHANGED <<free, msgs, link, ret, sent, failed>>

\* The end of the loop: count is what the transfer returns.
EndLoop(t) ==
  /\ Busy(t) /\ count[t] = 0
  /\ ret' = [ret EXCEPT ![t] = TRUE]
  /\ UNCHANGED <<free, msgs, count, link, sent, failed>>

Return(t) ==
  /\ ret[t]
  /\ msgs' = [msgs EXCEPT ![t] = <<>>]
  /\ count' = [count EXCEPT ![t] = 0]
  /\ ret' = [ret EXCEPT ![t] = FALSE]
  /\ sent' = [sent EXCEPT ![t] = <<>>]
  /\ UNCHANGED <<free, link, failed>>

-----------------------------------------------------------------------------
(* DeviceI2cWrite and DeviceI2cRead *)

Current(t) == Busy(t) /\ count[t] > 0 /\ Message(t) \in DOMAIN Commands

\* An early return: the link, if there is one, stays on the heap, the transfer
\* ends.
Break(t) ==
  /\ ret' = [ret EXCEPT ![t] = TRUE]
  /\ link' = [link EXCEPT ![t] = NoLink]
  /\ failed' = TRUE
  /\ UNCHANGED <<free, count, sent>>

\* i2c_cmd_link_create; that there is no link is noticed by the next call.
CreateLink(t) ==
  /\ Current(t) /\ link[t] = NoLink
  /\ IF free = 0
       THEN Break(t)
       ELSE /\ free' = free - 1
            /\ link' = [link EXCEPT ![t] = <<>>]
            /\ UNCHANGED <<count, ret, sent, failed>>
  /\ UNCHANGED msgs

Incomplete(t) ==
  Current(t) /\ link[t] # NoLink /\ Len(link[t]) < Len(Commands[Message(t)])

\* i2c_master_start, _write_byte, _write, _read, _read_byte, _stop.
AddCommand(t) ==
  /\ Incomplete(t)
  /\ IF free = 0
       THEN Break(t)
       ELSE /\ free' = free - 1
            /\ link' = [link EXCEPT
                 ![t] = Append(@, Commands[Message(t)][Len(@) + 1])]
            /\ UNCHANGED <<count, ret, sent, failed>>
  /\ UNCHANGED msgs

Complete(t) == Current(t) /\ link[t] = Commands[Message(t)]

\* Mutant of ExecuteLink: a failed message is counted as transferred.
ExecuteCountsFailed(t) ==
  /\ Complete(t)
  /\ \E ok \in BOOLEAN :
       /\ sent' = [sent EXCEPT ![t] = IF ok THEN Append(@, Place(t)) ELSE @]
       /\ failed' = (failed \/ ~ok)
  /\ free' = free + Blocks(t)
  /\ link' = [link EXCEPT ![t] = NoLink]
  /\ count' = [count EXCEPT ![t] = @ - 1]
  /\ UNCHANGED <<msgs, ret>>

\* i2c_master_cmd_begin: nobody acknowledges, the bus is not free in time, or
\* the message is sent and the link deleted.
ExecuteLink(t) ==
  /\ Complete(t)
  /\ \/ Break(t)
     \/ /\ free' = free + Blocks(t)
        /\ link' = [link EXCEPT ![t] = NoLink]
        /\ sent' = [sent EXCEPT ![t] = Append(@, Place(t))]
        /\ count' = [count EXCEPT ![t] = @ - 1]
        /\ UNCHANGED <<ret, failed>>
  /\ UNCHANGED msgs

SendMessage(t) == CreateLink(t) \/ AddCommand(t) \/ ExecuteLink(t)

Next ==
  \E t \in Tasks :
    I2cDataTransfer(t) \/ Skip(t) \/ SendMessage(t) \/ EndLoop(t) \/ Return(t)

Spec == Init /\ [][Next]_vars

-----------------------------------------------------------------------------
(* Properties *)

\* What a transfer that returns count has had on the bus: just the messages
\* before the last count ones, without those that have no bytes or unknown
\* flags, in their order.
SentIsTold(t) ==
  LET passed == 1 .. Len(msgs[t]) - count[t]
      places == DOMAIN sent[t]
  IN  /\ {sent[t][i] : i \in places} =
            {m \in passed : msgs[t][m] \in DOMAIN Commands}
      /\ \A i, j \in places : i < j => sent[t][i] < sent[t][j]

\* The blocks that the tasks have of the heap, numbered per task.
Taken == UNION {{t} \X (1 .. Blocks(t)) : t \in Tasks}

\* i2c_esp32u4.c 90-165, 233-242.  However transfers interleave and wherever
\* the heap is exhausted, the count that is returned tells what was on the bus;
\* and as long as no message has failed, the heap gets back what every transfer
\* takes.
SentAndPaidBack ==
  /\ \A t \in Tasks : ret[t] => SentIsTold(t)
  /\ failed \/ free + Cardinality(Taken) = Heap
=============================================================================
