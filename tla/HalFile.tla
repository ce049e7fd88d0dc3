------------------------------ MODULE HalFile ------------------------------
(***************************************************************************)
(* The file functions of hals/utils/file/hal_file.c over littlefs: one     *)
(* call of the file system each, except that a seek asks for the position, *)
(* goes to the end to measure the file and only then to its target, and    *)
(* that a stat opens the file for itself.  Any task may use any            *)
(* descriptor, its own or another's, at any moment.                        *)
(*                                                                         *)
(* The file system is external: each of its calls is atomic.  There is one *)
(* file, which exists; an open with O_TRUNC empties it.  Paths, and the    *)
(* other flags of an open, are passed on as they are.  Descriptors stand   *)
(* for those of littlefs: the HAL adds OFFSET_FD to them and takes it off  *)
(* again.                                                                  *)
(***************************************************************************)
EXTENDS Integers

CONSTANTS Tasks, Fds,
          Seekers,    \* the tasks that seek
          Offsets,    \* the offsets of seeks
          MaxLen,     \* the longest read or write
          MaxSize     \* bound on the size of the file, for TLC

ConstantsOK ==
  /\ Seekers \subseteq Tasks /\ Offsets \subseteq Int
  /\ MaxLen \in Nat /\ MaxSize \in Nat

VARIABLES
  size,   \* the size of the file
  fds,    \* per descriptor: Closed, or its position and access mode, and as
          \* history its owner, who opened it, the position its results tell,
          \* and whether anybody else has used it
  call    \* per task: the seek or stat it is in

vars == <<size, fds, call>>

Closed == [pos |-> -1]
Open(fd) == fds[fd] # Closed
Out == [step |-> "out"]
Lesser(m, n) == IF m < n THEN m ELSE n
Greater(m, n) == IF m < n THEN n ELSE m

TypeOK ==
  /\ size \in Nat
  /\ \A fd \in Fds : Open(fd) => fds[fd] \in
       [pos : Nat, mode : {"r", "w", "rw"}, owner : Tasks, told : Nat,
        shared : BOOLEAN]
  /\ \A t \in Tasks :
       call[t].step \in {"out", "measure", "set", "stat", "close"}

Init ==
  /\ size = 1 /\ fds = [fd \in Fds |-> Closed]
  /\ call = [t \in Tasks |-> Out]

-----------------------------------------------------------------------------
(* littlefs: a call on a closed descriptor fails *)

Failed == -1

Result(fd, target) == IF Open(fd) /\ target >= 0 THEN target ELSE Failed

\* The descriptor goes to target, unless that is before the beginning.
Lseek(fd, target) ==
  IF Result(fd, target) = Failed THEN fds
                                 ELSE [fds EXCEPT ![fd].pos = target]

Busy(fd) == \E t \in Tasks : call[t] # Out /\ call[t].fd = fd

\* A descriptor may be taken again while a call on its last use is under way.
Take(fd, t, m) ==
  /\ ~Open(fd)
  /\ fds' = [fds EXCEPT ![fd] = [pos |-> 0, mode |-> m, owner |-> t, told |-> 0,
                                shared |-> Busy(fd)]]

-----------------------------------------------------------------------------
(* Calls of one step *)

\* The access mode asked for: O_RDWR_FS wins over O_WRONLY_FS.
Access(oflag) ==
  IF "O_RDWR_FS" \in oflag THEN "rw"
  ELSE IF "O_WRONLY_FS" \in oflag THEN "w" ELSE "r"

HalFileOpen(t, oflag) ==
  /\ call[t] = Out
  /\ \E fd \in Fds : Take(fd, t, Access(oflag))
  /\ size' = IF "O_TRUNC_FS" \in oflag THEN 0 ELSE size
  /\ UNCHANGED call

\* The descriptor d after a call of t; of one that is shared nothing is told.
Told(d, t, told) ==
  LET shared == d.shared \/ d.owner # t
  IN  [d EXCEPT !.shared = shared, !.told = IF shared THEN 0 ELSE told]

\* A call of t took fd n bytes further, as its result tells.
Advance(t, fd, n) ==
  LET d == fds[fd]
  IN  fds' = [fds EXCEPT ![fd] =
                Told([d EXCEPT !.pos = d.pos + n], t, d.told + n)]

HalFileClose(t, fd) ==
  /\ call[t] = Out /\ Open(fd)
  /\ fds' = [fds EXCEPT ![fd] = Closed]
  /\ UNCHANGED <<size, call>>

HalFileRead(t, fd, len) ==
  /\ call[t] = Out /\ Open(fd) /\ fds[fd].mode # "w"
  /\ Advance(t, fd, Lesser(len, Greater(0, size - fds[fd].pos)))
  /\ UNCHANGED <<size, call>>

HalFileWrite(t, fd, len) ==
  /\ call[t] = Out /\ Open(fd) /\ fds[fd].mode # "r"
  /\ fds[fd].pos + len <= MaxSize
  /\ Advance(t, fd, len)
  /\ size' = Greater(size, fds[fd].pos + len)
  /\ UNCHANGED call

-----------------------------------------------------------------------------
(* HalFileSeek *)

\* A seek of t returns.  It tells a new position if it succeeded, and none if
\* it was to before the beginning.
SeekReturns(t, fd, fds1, result, lost) ==
  /\ LET d == fds1[fd]
         told == Told(d, t, IF result = Failed THEN d.told ELSE result)
     IN  fds' = IF Open(fd)
                THEN [fds1 EXCEPT ![fd] =
                        [told EXCEPT !.shared = told.shared \/ lost]]
                ELSE fds1
  /\ call' = [call EXCEPT ![t] = Out]
  /\ UNCHANGED size

SeekEnd(t, fd, offset) ==
  /\ call[t] = Out
  /\ SeekReturns(t, fd, Lseek(fd, size + offset), Result(fd, size + offset),
                 FALSE)

\* _lseek(fd, 0, SEEK_CUR): the position, -1 of a closed descriptor.
SeekBegin(t, fd, offset, whence) ==
  /\ call[t] = Out
  /\ call' = [call EXCEPT ![t] = [step |-> "measure", fd |-> fd,
       len |-> fds[fd].pos,
       target |-> IF whence = "SEEK_CUR" THEN offset + fds[fd].pos ELSE offset]]
  /\ UNCHANGED <<size, fds>>

\* _lseek(fd, 0, SEEK_END).
SeekMeasure(t) ==
  /\ call[t].step = "measure"
  /\ fds' = Lseek(call[t].fd, size)
  /\ call' = [call EXCEPT ![t] =
       [step |-> "set", fd |-> @.fd, len |-> @.len, target |-> @.target,
        len2 |-> Result(@.fd, size)]]
  /\ UNCHANGED size

\* Mutant of SeekBack: the position stays at the end.
SeekBackMissing(t, c) ==
  /\ c.step = "set" /\ c.target > c.len2
  /\ SeekReturns(t, c.fd, fds, Failed, FALSE)

\* Beyond the end, the position is restored.
SeekBack(t, c) ==
  /\ c.step = "set" /\ c.target > c.len2
  /\ SeekReturns(t, c.fd, Lseek(c.fd, c.len), Failed, FALSE)

SeekSet(t, c) ==
  /\ c.step = "set" /\ c.target <= c.len2
  /\ SeekReturns(t, c.fd, Lseek(c.fd, c.target), Result(c.fd, c.target),
                 c.target < 0)

-----------------------------------------------------------------------------
(* HalFileStat: open, seek to the end, close.  It fails without a free     *)
(* descriptor.                                                             *)

StatOpen(t) ==
  /\ call[t] = Out
  /\ \E fd \in Fds :
       /\ Take(fd, t, "r")
       /\ call' = [call EXCEPT ![t] = [step |-> "stat", fd |-> fd]]
  /\ UNCHANGED size

StatMeasure(t) ==
  /\ call[t].step = "stat"
  /\ fds' = Lseek(call[t].fd, size)
  /\ call' = [call EXCEPT ![t].step = "close"]
  /\ UNCHANGED size

StatClose(t) ==
  /\ call[t].step = "close"
  /\ fds' = [fds EXCEPT ![call[t].fd] = Closed]
  /\ call' = [call EXCEPT ![t] = Out]
  /\ UNCHANGED size

Next ==
  \E t \in Tasks :
    \/ \E oflag \in {{}, {"O_WRONLY_FS", "O_TRUNC_FS"},
                      {"O_WRONLY_FS", "O_RDWR_FS"}} : HalFileOpen(t, oflag)
    \/ \E fd \in Fds :
         \/ HalFileClose(t, fd)
         \/ \E len \in 1..MaxLen :
              HalFileRead(t, fd, len) \/ HalFileWrite(t, fd, len)
         \/ \E offset \in Offsets :
              /\ t \in Seekers
              /\ \/ SeekEnd(t, fd, offset)
                 \/ \E whence \in {"SEEK_SET", "SEEK_CUR"} :
                      SeekBegin(t, fd, offset, whence)
    \/ SeekMeasure(t) \/ SeekBack(t, call[t]) \/ SeekSet(t, call[t])
    \/ StatOpen(t) \/ StatMeasure(t) \/ StatClose(t)

Spec == Init /\ [][Next]_vars

-----------------------------------------------------------------------------
(* Properties *)

\* hal_file.c 86-175.  Whatever other descriptors of the file are doing, a
\* stat that comes and goes, a writer that makes it grow, an open that empties
\* it, a descriptor that its owner alone uses is where the results of its
\* calls say: a seek beyond the end fails and leaves the position alone,
\* although it went to the end of the file on the way.  (A descriptor that is
\* shared is not: a reader reads at the end in the middle of another's seek.
\* Nor is one whose seek to before the beginning failed: it stays at the end.)
PositionIsTold ==
  \A fd \in Fds :
    Open(fd) /\ ~fds[fd].shared /\ ~Busy(fd) => fds[fd].pos = fds[fd].told
=============================================================================
