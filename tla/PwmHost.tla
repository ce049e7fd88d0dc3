------------------------------ MODULE PwmHost ------------------------------
(***************************************************************************)
(* The PWM driver hdf_drivers/pwm/pwm_esp32u4.c: HDF binds, initialises    *)
(* and releases it, clients enable and disable the output.  The driver     *)
(* programs its LEDC timer only when the frequency differs from the one it *)
(* has cached; the cache is in memory that is not zeroed, and is written   *)
(* before the timer, whose answer is ignored.                              *)
(*                                                                         *)
(* HDF is external: its lock makes each call one step; a device object it  *)
(* loses, because the driver frees it, it makes anew.  So is the LEDC.     *)
(* The duty, which is cached too but given to no call of the LEDC, and the *)
(* stop of the output, after which the timer runs on, are left out.        *)
(***************************************************************************)
EXTENDS Integers

CONSTANTS PERIOD_NUM,  \* nanoseconds per second
          Periods      \* the periods clients ask for

ConstantsOK == PERIOD_NUM \in Nat /\ Periods \subseteq Nat \ {0}

VARIABLES
  service,      \* device->service: "null", a "host", or "dangling"
  method,       \* the host has its methods: clients can call
  freq_hz,      \* ledc_timer_config.freq_hz, NoFreq without the structure
  timer,        \* LEDC: the frequency of the timer, 0 before the first
  \* history
  asked,        \* the frequency of the last enabling call, or NoFreq
  unprogrammed  \* freq_hz is what the memory held, or was refused

vars == <<service, method, freq_hz, timer, asked, unprogrammed>>

NoFreq == -1

\* PERIOD2FREQUENCY, an integer division.
Frequency(period) == PERIOD_NUM \div period
Frequencies == {Frequency(n) : n \in Periods} \cup {0}

TypeOK ==
  /\ service \in {"null", "host", "dangling"} /\ method \in BOOLEAN
  /\ freq_hz \in Frequencies \cup {NoFreq} /\ timer \in Frequencies
  /\ asked \in Frequencies \cup {NoFreq} /\ unprogrammed \in BOOLEAN

Init ==
  /\ service = "null" /\ method = FALSE
  /\ freq_hz = NoFreq /\ timer = 0
  /\ asked = NoFreq /\ unprogrammed = FALSE

-----------------------------------------------------------------------------
(* HDF loads and unloads the driver *)

\* Without memory the driver goes on and stores through the NULL pointer,
\* and the system starts anew.
PwmDriverBind ==
  /\ service = "null"
  /\ \/ service' = "host" /\ UNCHANGED timer
     \/ timer' = 0 /\ UNCHANGED service
  /\ UNCHANGED <<method, freq_hz, asked, unprogrammed>>

\* The structure is allocated and filled, but for freq_hz of its timer, which
\* keeps what the memory held.
AttachPwmDevice ==
  /\ freq_hz' \in Frequencies
  /\ unprogrammed' = TRUE

\* Fails for want of memory; when PwmDeviceAdd refuses, the driver frees the
\* host and HDF's own device object, and the structure is lost.
PwmDriverInit ==
  /\ service = "host" /\ ~method
  /\ \/ UNCHANGED <<service, method, freq_hz, unprogrammed>>
     \/ AttachPwmDevice /\ method' = TRUE /\ UNCHANGED service
     \/ service' = "dangling" /\ UNCHANGED <<method, freq_hz, unprogrammed>>
  /\ UNCHANGED <<timer, asked>>

\* Frees the host and HDF's device object, and then clears fields of both.
PwmDriverRelease ==
  /\ service = "host"
  /\ service' = "dangling"
  /\ method' = FALSE /\ freq_hz' = NoFreq
  /\ asked' = NoFreq /\ unprogrammed' = FALSE
  /\ UNCHANGED timer

\* HDF makes a new device object.
DeviceCreate ==
  /\ service = "dangling"
  /\ service' = "null"
  /\ UNCHANGED <<method, freq_hz, timer, asked, unprogrammed>>

-----------------------------------------------------------------------------
(* The methods; PwmDevOpen and PwmDevClose change nothing. *)

\* ledc_timer_config, which refuses what it cannot divide its clock to.
TimerConfig(freq) ==
  \/ freq > 0 /\ timer' = freq /\ unprogrammed' = FALSE
  \/ unprogrammed' = TRUE /\ UNCHANGED timer

\* Mutant of PwmDevSetConfig: the new frequency is not cached.
SetConfigUncached ==
  /\ method
  /\ \E n \in Periods :
       /\ asked' = Frequency(n)
       /\ IF freq_hz # Frequency(n)
            THEN TimerConfig(Frequency(n))
            ELSE UNCHANGED <<timer, unprogrammed>>
  /\ UNCHANGED <<service, method, freq_hz>>

PwmDevSetConfig ==
  /\ method
  /\ \E n \in Periods :
       /\ asked' = Frequency(n)
       /\ freq_hz' = Frequency(n)
       /\ IF freq_hz # Frequency(n)
            THEN TimerConfig(Frequency(n))
            ELSE UNCHANGED <<timer, unprogrammed>>
  /\ UNCHANGED <<service, method>>

Next ==
  \/ PwmDriverBind \/ PwmDriverInit \/ PwmDriverRelease \/ DeviceCreate
  \/ PwmDevSetConfig

Spec == Init /\ [][Next]_vars

-----------------------------------------------------------------------------
(* Properties *)

\* pwm_esp32u4.c 169-192, 279-316.  The timer runs at the frequency a client
\* asked for last, through reloads of the driver too, unless the cached value
\* it is compared with was never accepted by the timer.
FreqIsAsked == asked # NoFreq => timer = asked \/ unprogrammed
=============================================================================
