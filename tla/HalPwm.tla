------------------------------- MODULE HalPwm -------------------------------
(***************************************************************************)
(* The HAL PWM ports of hals/iot_hardware/wifiiot_lite/hal_iot_pwm.c.      *)
(* Every port is an LEDC channel of its own, but all of them use the same  *)
(* timer and the same pin, and nothing is locked.  A start programs the    *)
(* timer, then the channel, then the duty; a deinit clears the description *)
(* of the channel and does not stop it.                                    *)
(*                                                                         *)
(* The LEDC is external: its calls are atomic and may fail, which ends a   *)
(* start.  The duty is left out: in 32 bits (2 >> bits) - 1 is -1 at every *)
(* resolution a start accepts, and all duties come out nearly the same.    *)
(***************************************************************************)
EXTENDS Integers

CONSTANTS Tasks,
          Ports,              \* channels of the LEDC, 0 among them
          CLK,                \* CLK_40M
          RES_MIN, RES_MAX,   \* DUTY_RES_MIN, DUTY_RESOLUTION_MAX
          Freqs               \* the frequencies clients ask for

ConstantsOK ==
  /\ Ports \subseteq Nat /\ 0 \in Ports /\ Freqs \subseteq Nat
  /\ {CLK, RES_MIN, RES_MAX} \subseteq Nat

LEDC_OUTPUT_IO == 5
NoPin == -1

VARIABLES
  pwm_state,   \* per port: "UNINIT" or "INIT"
  pwm_attr,    \* per port: the channel and the pin of its description
  timer,       \* LEDC: the frequency of the one timer, 0 before the first
  pin,         \* LEDC: per channel, the pin it runs on, NoPin when it is idle
  pc,          \* per task: its next step
  port, freq,  \* per task: the arguments of its start
  \* history
  asked,       \* the frequencies of all starts so far
  crossed      \* a start was overlapped by an init or a deinit of its port

vars == <<pwm_state, pwm_attr, timer, pin, pc, port, freq, asked, crossed>>

Zeroed == [channel |-> 0, gpio_num |-> 0]
Starting == {"timer", "channel", "duty"}

TypeOK ==
  /\ pwm_state \in [Ports -> {"UNINIT", "INIT"}]
  /\ pwm_attr \in [Ports -> [channel : Ports, gpio_num : {0, LEDC_OUTPUT_IO}]]
  /\ timer \in Freqs \cup {0} /\ pin \in [Ports -> {NoPin, 0, LEDC_OUTPUT_IO}]
  /\ pc \in [Tasks -> {"out", "fill", "clear"} \cup Starting]
  /\ port \in [Tasks -> Ports] /\ freq \in [Tasks -> Freqs \cup {0}]
  /\ asked \subseteq Freqs /\ crossed \in BOOLEAN

Init ==
  /\ pwm_state = [p \in Ports |-> "UNINIT"]
  /\ pwm_attr = [p \in Ports |-> Zeroed]
  /\ timer = 0 /\ pin = [p \in Ports |-> NoPin]
  /\ pc = [t \in Tasks |-> "out"]
  /\ port = [t \in Tasks |-> 0] /\ freq = [t \in Tasks |-> 0]
  /\ asked = {} /\ crossed = FALSE

Step(t, from, to) == pc[t] = from /\ pc' = [pc EXCEPT ![t] = to]
Enter(t, p, first) ==
  /\ Step(t, "out", first) /\ port' = [port EXCEPT ![t] = p]
  /\ crossed' = \/ crossed
                \/ \E u \in Tasks :
                     /\ port[u] = p /\ pc[u] # "out"
                     /\ (pc[u] \in Starting) # (first \in Starting)

Ledc == <<timer, pin>>
History == <<asked, crossed>>

-----------------------------------------------------------------------------
(* IoTPwmInit and IoTPwmDeinit *)

MarkInit(t, p) ==
  /\ pwm_state[p] = "UNINIT" /\ Enter(t, p, "fill")
  /\ pwm_state' = [pwm_state EXCEPT ![p] = "INIT"]
  /\ UNCHANGED <<pwm_attr, Ledc, freq, asked>>

\* Mutant of InitPwm: the pin is forgotten.
InitPwmNoPin(t) ==
  /\ Step(t, "fill", "out")
  /\ pwm_attr' = [pwm_attr EXCEPT ![port[t]] =
       [channel |-> port[t], gpio_num |-> 0]]
  /\ UNCHANGED <<pwm_state, Ledc, port, freq, History>>

InitPwm(t) ==
  /\ Step(t, "fill", "out")
  /\ pwm_attr' = [pwm_attr EXCEPT ![port[t]] =
       [channel |-> port[t], gpio_num |-> LEDC_OUTPUT_IO]]
  /\ UNCHANGED <<pwm_state, Ledc, port, freq, History>>

DeinitTest(t, p) ==
  /\ pwm_state[p] = "INIT" /\ Enter(t, p, "clear")
  /\ UNCHANGED <<pwm_state, pwm_attr, Ledc, freq, asked>>

\* memset_s over state and description.
Clear(t) ==
  /\ Step(t, "clear", "out")
  /\ pwm_state' = [pwm_state EXCEPT ![port[t]] = "UNINIT"]
  /\ pwm_attr' = [pwm_attr EXCEPT ![port[t]] = Zeroed]
  /\ UNCHANGED <<Ledc, port, freq, History>>

-----------------------------------------------------------------------------
(* IoTPwmStart and IoTPwmStop *)

\* The frequencies a start accepts.
Accepted(f) == f # 0 /\ CLK \div f \in RES_MIN..RES_MAX

StartTest(t, p, f) ==
  /\ pwm_state[p] = "INIT" /\ Accepted(f)
  /\ Enter(t, p, "timer") /\ freq' = [freq EXCEPT ![t] = f]
  /\ asked' = asked \cup {f}
  /\ UNCHANGED <<pwm_state, pwm_attr, Ledc>>

StartFails(t) ==
  /\ \E step \in Starting : Step(t, step, "out")
  /\ UNCHANGED <<pwm_state, pwm_attr, Ledc, port, freq, History>>

TimerConfig(t) ==
  /\ Step(t, "timer", "channel")
  /\ timer' = freq[t]
  /\ UNCHANGED <<pwm_state, pwm_attr, pin, port, freq, History>>

\* The channel of the description starts on its pin, with duty 0.
ChannelConfig(t) ==
  /\ Step(t, "channel", "duty")
  /\ LET attr == pwm_attr[port[t]]
     IN  pin' = [pin EXCEPT ![attr.channel] = attr.gpio_num]
  /\ UNCHANGED <<pwm_state, pwm_attr, timer, port, freq, History>>

\* ledc_set_duty and ledc_update_duty, for the channel of the port.
SetDuty(t) ==
  /\ Step(t, "duty", "out")
  /\ UNCHANGED <<pwm_state, pwm_attr, Ledc, port, freq, History>>

IoTPwmStop(t, p) ==
  /\ pc[t] = "out" /\ pwm_state[p] = "INIT"
  /\ pin' = [pin EXCEPT ![p] = NoPin]
  /\ UNCHANGED <<pwm_state, pwm_attr, timer, pc, port, freq, History>>

Next ==
  \E t \in Tasks :
    \/ \E p \in Ports :
         \/ MarkInit(t, p) \/ DeinitTest(t, p) \/ IoTPwmStop(t, p)
         \/ \E f \in Freqs : StartTest(t, p, f)
    \/ InitPwm(t) \/ Clear(t)
    \/ TimerConfig(t) \/ ChannelConfig(t) \/ SetDuty(t) \/ StartFails(t)

Spec == Init /\ [][Next]_vars

-----------------------------------------------------------------------------
(* Properties *)

\* hal_iot_pwm.c 56-175.  Whoever starts, stops, initialises or deinitialises
\* what in between, a running channel has a frequency some start asked for, the
\* only one if all asked for the same (all ports hang on one timer), and runs on
\* the one output pin.  Inits and deinits may overlap each other as they like;
\* only a start that one of them overlaps may find the description of its port
\* empty, and then drives channel 0 on pin 0, whatever its port.
OutputIsAsked ==
  \A c \in Ports :
    pin[c] # NoPin =>
      /\ timer \in asked
      /\ pin[c] = LEDC_OUTPUT_IO \/ (c = 0 /\ crossed)
=============================================================================
