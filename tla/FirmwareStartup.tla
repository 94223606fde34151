--------------------------- MODULE FirmwareStartup ---------------------------
(***************************************************************************)
(* What main() does before its loop, in the three firmwares: Tier 1 and    *)
(* Tier 2 of the inverted pendulum (Tier 2 over Wi-Fi, over USB or with a  *)
(* network that is up already) and the sine wave demo.  Each is a sequence *)
(* of steps: calls that fail or succeed, and waits that poll a condition   *)
(* and measure their age with the 32-bit uptime, which wraps.              *)
(***************************************************************************)
EXTENDS Integers, Sequences, SequencesExt

CONSTANTS
  Modulus,            \* 2^32
  WifiTimeout,        \* kWifiConnectTimeout
  AddressTimeout,     \* kIpv4AcquireTimeout
  LeaseTimeout,       \* 5000 ms
  ClientTimeout,      \* 10000 ms
  MaxSleep            \* the longest poll: the call, k_sleep and scheduling

StartupAssumption ==
  /\ {Modulus, WifiTimeout, AddressTimeout, LeaseTimeout, ClientTimeout} \subseteq Nat
  /\ MaxSleep \in Nat \ {0} /\ ClientTimeout > 0
  /\ \A t \in {WifiTimeout, AddressTimeout, LeaseTimeout, ClientTimeout} : t + MaxSleep < Modulus

Steps ==
  LET wifi == <<"wifi_request", "wifi_address">>
      usb == <<"usb_enable", "usb_address", "usb_lease">>
      tier2 == <<"client", "stepper", "position">> IN
  [tier1 |-> <<"devices">> \o wifi \o <<"ntp", "client", "stepper", "position", "calibrate">>,
   tier2_wifi |-> <<"devices", "ready">> \o wifi \o tier2,
   tier2_usb |-> <<"devices", "ready">> \o usb \o tier2,
   tier2_plain |-> <<"devices", "ready">> \o tier2,
   sine_wave |-> wifi \o <<"client">>]

VARIABLES
  program,
  todo,         \* the steps from the present one on; none in the loop
  returned,     \* main() has returned
  clock, timer, \* k_uptime_get_32(), and its value at the head of the wait
  waited,       \* history: how long the present wait really lasts, up to Modulus
  sensor,       \* the encoder answers
  reachable,    \* the network has an address to hand out
  done,         \* history: the steps that succeeded
  failed        \* history: a call failed, or a wait lasted its timeout

timeVars == <<clock, timer, waited>>
worldVars == <<program, sensor, reachable>>
vars == <<todo, returned, done, failed, timeVars, worldVars>>

TypeOK ==
  /\ program \in DOMAIN Steps /\ todo \in Seq(ToSet(Steps[program]))
  /\ {clock, timer} \subseteq 0..(Modulus - 1) /\ waited \in 0..Modulus
  /\ done \subseteq ToSet(Steps[program])
  /\ {returned, sensor, reachable, failed} \subseteq BOOLEAN

Init ==
  /\ program \in DOMAIN Steps /\ todo = Steps[program] /\ returned = FALSE
  /\ clock \in 0..(Modulus - 1) /\ timer = clock /\ waited = 0
  /\ sensor \in BOOLEAN /\ reachable \in BOOLEAN
  /\ done = {} /\ failed = FALSE

At(step) == ~returned /\ todo # <<>> /\ Head(todo) = step
Retries == program \notin {"tier1", "sine_wave"}

\* Faulty variant: a signed difference.
ElapsedSigned == clock - timer

Elapsed == (clock - timer) % Modulus

-------------------------------------------------------------------------------
(* A step ends by going on or by returning from main; a wait starts when    *)
(* the step before it is over.                                              *)
\* Faulty variant: one start for all the waits.
GoOnWithoutRestart == todo' = Tail(todo) /\ waited' = 0 /\ UNCHANGED <<returned, clock, timer>>

GoOn == todo' = Tail(todo) /\ timer' = clock /\ waited' = 0 /\ UNCHANGED <<returned, clock>>
Succeed == GoOn /\ done' = done \cup {Head(todo)} /\ UNCHANGED <<failed, worldVars>>
Return(failure) ==
  /\ returned' = TRUE /\ failed' = failure
  /\ UNCHANGED <<todo, done, timeVars, worldVars>>
Poll ==
  /\ \E t \in 1..MaxSleep : /\ clock' = (clock + t) % Modulus
                          /\ waited' = IF waited + t < Modulus THEN waited + t ELSE Modulus
  /\ UNCHANGED <<todo, returned, timer, done, failed, worldVars>>

\* device_is_ready; Tier 2 starts the encoder thread when all are.
Devices == At("devices") /\ (Succeed \/ Return(TRUE))

\* k_sem_take without a timeout: the second reading of the encoder.
Ready == At("ready") /\ sensor /\ Succeed

WifiRequest ==
  /\ At("wifi_request")
  /\ \/ Succeed
     \/ Elapsed <= WifiTimeout /\ Poll
     \/ Elapsed > WifiTimeout /\ Return(waited > WifiTimeout)

\* sample_usbd_init_device and usbd_enable
UsbEnable == At("usb_enable") /\ (Succeed \/ Return(TRUE))

GotAddress ==
  /\ At("wifi_address") \/ At("usb_address")
  /\ reachable
  /\ Succeed

\* The sine wave demo waits as long as it takes.
NoAddress ==
  /\ At("wifi_address") \/ At("usb_address")
  /\ IF program # "sine_wave" /\ Elapsed > AddressTimeout
     THEN Return(waited > AddressTimeout)
     ELSE Poll

\* The host may have no DHCP client: the firmware goes on without a lease.
UsbLease ==
  /\ At("usb_lease")
  /\ IF Elapsed < LeaseTimeout THEN Succeed \/ Poll
     ELSE GoOn /\ UNCHANGED <<done, failed, worldVars>>

\* sync_time_from_ntp: a failure must not take the rig down.
Ntp == At("ntp") /\ (Succeed \/ (GoOn /\ UNCHANGED <<done, failed, worldVars>>))

\* ZenbeddedClient::init: once, or in Tier 2 until its 10 s are over.
ClientInit ==
  /\ At("client")
  /\ IF Retries /\ Elapsed >= ClientTimeout THEN Return(waited >= ClientTimeout)
     ELSE \/ Succeed
          \/ IF Retries THEN Poll ELSE Return(TRUE)

\* stepper_enable, stepper_ctrl_get_actual_position, get_encoder_angle_deg
StepperEnable == At("stepper") /\ (Succeed \/ Return(TRUE))
InitialPosition == At("position") /\ (Succeed \/ Return(TRUE))
Calibrate == At("calibrate") /\ ((sensor /\ Succeed) \/ Return(TRUE))

Main ==
  \/ Devices \/ Ready \/ WifiRequest \/ UsbEnable \/ GotAddress \/ NoAddress \/ UsbLease
  \/ Ntp \/ ClientInit \/ StepperEnable \/ InitialPosition \/ Calibrate

(* main() runs, and a reachable network hands out an address in the end.    *)
Fairness == WF_vars(Main) /\ SF_vars(GotAddress)
Spec == Init /\ [][Main]_vars
FairSpec == Spec /\ Fairness

-------------------------------------------------------------------------------
(* The loop is entered with the client initialised, the network up, the     *)
(* motor enabled and both zeros taken (only the clock and the host's lease  *)
(* may be missing), and main() returns only after a call failed or a wait   *)
(* really lasted its timeout, whenever it began.                            *)
SetUp == ToSet(Steps[program]) \ {"ntp", "usb_lease"} \subseteq done
StartupSound == (returned => failed) /\ (todo = <<>> => SetUp)

(* Start-up comes to an end, in the loop or by a return.  Two waits have no *)
(* timeout: Tier 2's for its encoder ("the firmware needs the encoder to be *)
(* connected") and the sine wave demo's for its address.                    *)
StartupEnds ==
  (sensor \/ program \in {"tier1", "sine_wave"}) /\ (reachable \/ program # "sine_wave")
    ~> IF returned THEN failed ELSE todo = <<>> /\ SetUp
===============================================================================
