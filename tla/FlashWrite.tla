----------------------------- MODULE FlashWrite -----------------------------
(***************************************************************************)
(* IoTFlashWrite and IoTFlashErase of                                      *)
(* hals/iot_hardware/wifiiot_lite/hal_iot_flash.c.  A write with doErase   *)
(* saves what surrounds its range, erases whole sectors, writes the        *)
(* surroundings back and then the data: six calls of the flash driver,     *)
(* each of which may fail half way, and between which other tasks run or   *)
(* the power goes.                                                         *)
(*                                                                         *)
(* The flash driver is external: a call is one step, addresses beyond the  *)
(* end are refused, erasing needs whole sectors, and writing a byte that   *)
(* is not erased yields neither the old nor the new one.                   *)
(***************************************************************************)
EXTENDS Naturals

CONSTANTS Tasks,        \* the tasks that write
          SectorSize,   \* FLASH_SECTOR_SIZE
          Sectors,      \* how many sectors the flash has
          Budgets,      \* bound: how many calls each task may make, as
                        \* functions from Tasks
          Longest       \* bound: per task, how many bytes it writes at once

ConstantsOK ==
  /\ SectorSize \in Nat \ {0, 1}
  /\ Sectors \in Nat \ {0}
  /\ Budgets \subseteq [Tasks -> Nat] /\ Longest \in [Tasks -> Nat]

VARIABLES
  flash,    \* the content of each address
  pc,       \* per task: where it is
  call,     \* per task: flashOffset, size and doErase of the call
  backup,   \* per task: backupBuffer, from saved addresses to contents
  before,   \* history, per task: the flash when its call began, as long as
            \* the call is not shared
  shared,   \* history, per task: another call touched a sector of its call
  ended,    \* per task: the driver call it is at failed, or the power went
            \* there, and it has not returned yet
  calls     \* bound: calls left

vars == <<flash, pc, call, backup, before, shared, ended, calls>>

FlashEnd == SectorSize * Sectors
Addrs == 0 .. FlashEnd - 1

\* A byte is erased, the first content of its address, part of a task's data
\* (so many bytes into it), or the AND of two different contents.
Erased == <<"erased", 0>>
Mixed == <<"mixed", 0>>
First(a) == <<"first", a>>
Contents ==
  {Erased, Mixed} \cup {First(a) : a \in Addrs} \cup (Tasks \X Addrs)

Put(old, new) ==
  CASE old = Erased -> new
    [] new = Erased \/ old = new -> old
    [] OTHER -> Mixed

Calls == {c \in [flashOffset : Addrs, size : 1 .. FlashEnd, doErase : BOOLEAN] :
            c.flashOffset + c.size <= FlashEnd}
NoCall == [flashOffset |-> 0, size |-> 0, doErase |-> FALSE]
Data(t, a) == <<t, a - call[t].flashOffset>>

\* The addresses the call is asked to write.
Range(c) == c.flashOffset .. c.flashOffset + c.size - 1

startEraseAddr(c) == (c.flashOffset \div SectorSize) * SectorSize
endEraseAddr(c) ==
  ((c.flashOffset + c.size) \div SectorSize + 1) * SectorSize - 1

\* The two parts of backupBuffer; the byte after the range is in neither.
Head(c) == startEraseAddr(c) .. c.flashOffset - 1
Tail(c) == c.flashOffset + c.size + 1 .. endEraseAddr(c)

\* The addresses a call may change.
Area(c) == IF c.doErase THEN startEraseAddr(c) .. endEraseAddr(c) ELSE Range(c)

NoBackup == [a \in {} |-> Erased]
Forgotten == [a \in Addrs |-> First(a)]

TypeOK ==
  /\ flash \in [Addrs -> Contents]
  /\ pc \in [Tasks -> {"idle", "readHead", "readTail", "erase", "writeHead",
                       "writeTail", "writeData", "done"}]
  /\ call \in [Tasks -> Calls \cup {NoCall}]
  /\ backup \in [Tasks -> UNION {[A -> Contents] : A \in SUBSET Addrs}]
  /\ before \in [Tasks -> [Addrs -> Contents]]
  /\ shared \in [Tasks -> BOOLEAN] /\ ended \in [Tasks -> BOOLEAN]
  /\ calls \in [Tasks -> Nat]

Init ==
  /\ flash = [a \in Addrs |-> First(a)]
  /\ pc = [t \in Tasks |-> "idle"]
  /\ call = [t \in Tasks |-> NoCall]
  /\ backup = [t \in Tasks |-> NoBackup]
  /\ before = [t \in Tasks |-> Forgotten]
  /\ shared = [t \in Tasks |-> FALSE] /\ ended = [t \in Tasks |-> FALSE]
  /\ calls \in Budgets

-----------------------------------------------------------------------------
At(t, label) == pc[t] = label /\ ~ended[t]
GoTo(t, label) == pc' = [pc EXCEPT ![t] = label]

\* The other calls not yet returned from that touch an address of A.
Rivals(t, A) ==
  {u \in Tasks \ {t} : pc[u] # "idle" /\ Area(call[u]) \cap A # {}}

\* The driver call fails: backupBuffer is freed, and nothing is left to do but
\* to return IOT_FAILURE.
Fail(t) ==
  /\ ended' = [ended EXCEPT ![t] = TRUE]
  /\ backup' = [backup EXCEPT ![t] = NoBackup]
  /\ UNCHANGED <<pc, call, before, shared>>

Begin(t) ==
  /\ At(t, "idle") /\ calls[t] > 0
  /\ calls' = [calls EXCEPT ![t] = @ - 1]
  /\ \E c \in Calls :
       /\ c.size <= Longest[t]
       /\ shared' = [u \in Tasks |->
            IF u = t THEN Rivals(t, Area(c)) # {}
                     ELSE shared[u] \/ u \in Rivals(t, Area(c))]
       /\ call' = [call EXCEPT ![t] = c]
       /\ GoTo(t, IF c.doErase THEN "readHead" ELSE "writeData")
  /\ before' = [u \in Tasks |-> IF shared'[u] THEN Forgotten
                                 ELSE IF u = t THEN flash ELSE before[u]]
  /\ UNCHANGED <<flash, backup, ended>>

-----------------------------------------------------------------------------
(* The calls of the flash driver *)

\* spi_flash_read of the addresses A; also the malloc that may fail before it.
ReadFlash(t, from, A, to) ==
  /\ At(t, from)
  /\ \/ /\ A \subseteq Addrs
        /\ backup' = [backup EXCEPT ![t] =
             [a \in DOMAIN @ \cup A |-> IF a \in A THEN flash[a] ELSE @[a]]]
        /\ GoTo(t, to) /\ UNCHANGED <<call, before, shared, ended>>
     \/ Fail(t)
  /\ UNCHANGED <<flash, calls>>

\* spi_flash_erase_range, which a failure ends at some sector.
EraseFlash(t, A) ==
  \E stop \in {SectorSize * k : k \in 0 .. Sectors} :
    /\ flash' = [a \in Addrs |->
                   IF a \in A /\ a < stop THEN Erased ELSE flash[a]]
    /\ \/ stop = FlashEnd /\ GoTo(t, "writeHead")
          /\ UNCHANGED <<call, backup, before, shared, ended>>
       \/ Fail(t)

\* spi_flash_write of new to the addresses A, which a failure ends anywhere;
\* kept is what remains of backupBuffer.
WriteFlash(t, A, new, kept, to) ==
  \E stop \in A \cup {FlashEnd} :
    /\ flash' = [a \in Addrs |-> IF a \in A /\ a < stop
                                   THEN Put(flash[a], new[a]) ELSE flash[a]]
    /\ \/ stop = FlashEnd /\ GoTo(t, to)
          /\ backup' = [backup EXCEPT ![t] = kept]
          /\ UNCHANGED <<call, before, shared, ended>>
       \/ Fail(t)

-----------------------------------------------------------------------------
(* IoTFlashWrite and IoTFlashErase *)

Erase(t) ==
  /\ At(t, "erase")
  /\ EraseFlash(t, Area(call[t]))
  /\ UNCHANGED calls

\* Mutant of WriteHead: the head is written back one byte too high.
WriteHeadShifted(t) ==
  LET up == {a + 1 : a \in Head(call[t])}
  IN  /\ At(t, "writeHead")
      /\ WriteFlash(t, up, [a \in up |-> backup[t][a - 1]], backup[t],
                    "writeTail")
      /\ UNCHANGED calls

WriteHead(t) ==
  /\ At(t, "writeHead")
  /\ WriteFlash(t, Head(call[t]), backup[t], backup[t], "writeTail")
  /\ UNCHANGED calls

\* Mutant of WriteTail: nothing is restored after the range.
WriteTailMissing(t) ==
  /\ At(t, "writeTail")
  /\ GoTo(t, "writeData")
  /\ backup' = [backup EXCEPT ![t] = NoBackup]
  /\ UNCHANGED <<flash, call, before, shared, ended, calls>>

\* The buffer is freed after its last use, or on the failure.
WriteTail(t) ==
  /\ At(t, "writeTail")
  /\ WriteFlash(t, Tail(call[t]), backup[t], NoBackup, "writeData")
  /\ UNCHANGED calls

WriteData(t) ==
  /\ At(t, "writeData")
  /\ WriteFlash(t, Range(call[t]), [a \in Addrs |-> Data(t, a)],
                NoBackup, "done")
  /\ UNCHANGED calls

\* IOT_SUCCESS or IOT_FAILURE, or the start after a power loss: the local
\* variables are gone.
Return(t) ==
  /\ pc[t] = "done" \/ ended[t]
  /\ GoTo(t, "idle")
  /\ call' = [call EXCEPT ![t] = NoCall]
  /\ backup' = [backup EXCEPT ![t] = NoBackup]
  /\ before' = [before EXCEPT ![t] = Forgotten]
  /\ shared' = [shared EXCEPT ![t] = FALSE]
  /\ ended' = [ended EXCEPT ![t] = FALSE]
  /\ UNCHANGED <<flash, calls>>

IoTFlashWrite(t) ==
  \/ Begin(t)
  \/ ReadFlash(t, "readHead", Head(call[t]), "readTail")
  \/ ReadFlash(t, "readTail", Tail(call[t]), "erase")
  \/ Erase(t) \/ WriteHead(t) \/ WriteTail(t) \/ WriteData(t) \/ Return(t)

\* One call of the driver for whole sectors; anything else is refused.
IoTFlashErase(t) ==
  /\ At(t, "idle") /\ calls[t] > 0
  /\ calls' = [calls EXCEPT ![t] = @ - 1]
  /\ \E i, j \in 0 .. Sectors - 1 :
       LET A == i * SectorSize .. (j + 1) * SectorSize - 1 IN
       /\ shared' = [u \in Tasks |-> shared[u] \/ u \in Rivals(t, A)]
       /\ flash' = [a \in Addrs |-> IF a \in A THEN Erased ELSE flash[a]]
  /\ before' = [u \in Tasks |-> IF shared'[u] THEN Forgotten ELSE before[u]]
  /\ UNCHANGED <<pc, call, backup, ended>>

\* The power goes: the flash stays as it is, and every call ends where it is.
\* That a driver call is cut short is Fail and then this.
PowerLoss ==
  /\ \E t \in Tasks : pc[t] # "idle" /\ ~ended[t]
  /\ ended' = [t \in Tasks |-> pc[t] # "idle"]
  /\ backup' = [t \in Tasks |-> NoBackup]
  /\ UNCHANGED <<flash, pc, call, before, shared, calls>>

Next ==
  \/ \E t \in Tasks : IoTFlashWrite(t) \/ IoTFlashErase(t)
  \/ PowerLoss

Spec == Init /\ [][Next]_vars

-----------------------------------------------------------------------------
(* Properties *)

\* hal_iot_flash.c 44-99.  A write that succeeds has stored its data, exactly
\* with doErase, and as the flash can without; and of the sectors it erased it
\* has kept every byte outside its range, but for the one that follows it;
\* whatever other tasks write to other sectors meanwhile.
WriteIsExact ==
  \A t \in Tasks : At(t, "done") /\ ~shared[t] =>
    /\ \A a \in Range(call[t]) :
         flash[a] = IF call[t].doErase THEN Data(t, a)
                                       ELSE Put(before[t][a], Data(t, a))
    /\ \A a \in Area(call[t]) \ Range(call[t]) :
         a # call[t].flashOffset + call[t].size => flash[a] = before[t][a]

\* The addresses that a call with doErase may have erased and not yet written
\* again, by the driver call it is at.
Unrestored(label, c) ==
  CASE label \in {"erase", "writeHead"} -> Area(c)
    [] label = "writeTail" -> Area(c) \ Head(c)
    [] label = "writeData" -> Area(c) \ (Head(c) \cup Tail(c))
    [] label = "done" -> {c.flashOffset + c.size}
    [] OTHER -> {}

\* hal_iot_flash.c 64-98.  Wherever a write with doErase is, has failed or has
\* lost the power, and until it returns: a byte of its sectors is what it was
\* before, unless the data has reached it or it is erased; and what can be
\* found erased is only what the calls before have not yet restored, the byte
\* after the range to the end.  A failure before the erasure loses nothing.
OnlyUnrestoredIsLost ==
  \A t \in Tasks : pc[t] # "idle" /\ call[t].doErase /\ ~shared[t] =>
    \A a \in Area(call[t]) \cap Addrs :
      \/ flash[a] = before[t][a]
      \/ flash[a] = Erased /\ a \in Unrestored(pc[t], call[t])
      \/ /\ flash[a] = Data(t, a) /\ a \in Range(call[t])
         /\ pc[t] \in {"writeData", "done"}
=============================================================================
