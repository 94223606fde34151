---------------------------- MODULE PendulumTier2 ----------------------------
(***************************************************************************)
(* The control loop of inverted_pendulum_tier2/src/main.cpp.  The host     *)
(* commands an acceleration; the loop integrates it into a velocity and    *)
(* retargets the stepper every cycle to a point two periods ahead, clamped *)
(* to the travel limits.  The driver steps towards its target on its own,  *)
(* concurrently with the loop.  The loop waits without a timeout for a     *)
(* sample of the encoder thread.                                           *)
(*                                                                         *)
(* Positions are microsteps, velocities and accelerations integers in      *)
(* units of one cycle; NaN is the value a C double may have besides.       *)
(* How the counter and the buffer tell a new command is in PendulumTier1;  *)
(* here a command that is counted and not read yet is in inbox.            *)
(***************************************************************************)
EXTENDS Integers

CONSTANTS
  Accelerations,  \* finite accelerations the host may send
  NaN,            \* not a number
  Nothing,        \* no unread command
  Home,           \* stepper_position at boot
  Limit,          \* stepper_limit_microsteps
  MaxVelocity,    \* kMaxAngularVelocity
  MinVelocity,    \* slower is more than kMaxMicrostepIntervalNs a microstep
  Projection,     \* microsteps ahead per unit of velocity: two periods
  Timeout         \* kCommandTimeoutCycles

ASSUME Tier2Assumption ==
  /\ Accelerations \subseteq Int
  /\ NaN \notin Int /\ Nothing \notin Int /\ NaN # Nothing
  /\ Home \in Int /\ Limit \in Nat /\ MaxVelocity \in Nat /\ MinVelocity \in Nat
  /\ Projection \in Nat /\ Timeout \in Nat

VARIABLES
  position, target, moving,   \* the stepper and its driver
  inbox,                      \* the newest command that was counted, unread
  silent,                     \* the host is gone for good
  mail,                       \* encoder_state_msgq holds a sample
  encoder_dead,               \* the sensor never answers again
  pc,                         \* the loop
  angle,                      \* stepper_angle, in microsteps from Home
  cycles_since_command,
  acceleration,               \* commanded_acceleration
  velocity,                   \* stepper_angular_velocity
  stale                       \* history: turns in a row without a command

driverVars == <<position, target, moving>>
peerVars == <<inbox, silent, mail, encoder_dead>>
controlVars == <<angle, cycles_since_command, acceleration, velocity, stale>>
vars == <<driverVars, peerVars, pc, controlVars>>

stepper_min_position == Home - Limit
stepper_max_position == Home + Limit
Travel == stepper_min_position..stepper_max_position
Clamp(x, lo, hi) == IF x < lo THEN lo ELSE IF hi < x THEN hi ELSE x

TypeOK ==
  /\ position \in Int /\ target \in Int /\ moving \in BOOLEAN
  /\ inbox \in Accelerations \cup {NaN, Nothing}
  /\ silent \in BOOLEAN /\ mail \in BOOLEAN /\ encoder_dead \in BOOLEAN
  /\ pc \in {"position", "encoder", "command", "integrate", "drive"}
  /\ angle \in Int
  /\ cycles_since_command \in 0..Timeout
  /\ acceleration \in Accelerations \cup {0, NaN}
  /\ velocity \in (-MaxVelocity..MaxVelocity) \cup {NaN}
  /\ stale \in 0..(Timeout + 1)

Init ==
  /\ position = Home /\ target = Home /\ moving = FALSE
  /\ inbox = Nothing /\ silent = FALSE
  /\ mail = TRUE /\ encoder_dead = FALSE
  /\ pc = "position"
  /\ angle = 0
  /\ cycles_since_command = 0
  /\ acceleration = 0
  /\ velocity = 0
  /\ stale = 0

-------------------------------------------------------------------------------
(* The environment: read task, host, encoder thread, stepper driver. *)
CommandArrives ==
  /\ ~silent
  /\ \E a \in Accelerations \cup {NaN} : inbox' = a
  /\ UNCHANGED <<driverVars, silent, mail, encoder_dead, pc, controlVars>>

HostGone ==
  /\ ~silent
  /\ silent' = TRUE
  /\ UNCHANGED <<driverVars, inbox, mail, encoder_dead, pc, controlVars>>

\* put-with-overwrite: a full queue is emptied first.
EncoderSample ==
  /\ ~encoder_dead
  /\ mail' = TRUE
  /\ UNCHANGED <<driverVars, inbox, silent, encoder_dead, pc, controlVars>>

EncoderDies ==
  /\ ~encoder_dead
  /\ encoder_dead' = TRUE
  /\ UNCHANGED <<driverVars, inbox, silent, mail, pc, controlVars>>

\* One microstep of a move_to; at the target the move is over.
DriverStep ==
  /\ moving
  /\ \/ /\ position # target
        /\ position' = IF position < target THEN position + 1 ELSE position - 1
        /\ UNCHANGED moving
     \/ /\ position = target
        /\ moving' = FALSE
        /\ UNCHANGED position
  /\ UNCHANGED <<target, peerVars, pc, controlVars>>

-------------------------------------------------------------------------------
(* One turn of the loop. *)

\* A read that fails leaves stepper_angle as it was.
ReadPosition ==
  /\ pc = "position"
  /\ pc' = "encoder"
  /\ angle' \in {position - Home, angle}
  /\ UNCHANGED <<driverVars, peerVars, cycles_since_command, acceleration, velocity, stale>>

\* k_msgq_get with K_FOREVER
WaitEncoder ==
  /\ pc = "encoder"
  /\ mail
  /\ mail' = FALSE
  /\ pc' = "command"
  /\ UNCHANGED <<driverVars, inbox, silent, encoder_dead, controlVars>>

NewCommand ==
  /\ inbox # Nothing
  /\ acceleration' = inbox
  /\ inbox' = Nothing
  /\ cycles_since_command' = 0
  /\ stale' = 0
  /\ UNCHANGED velocity

NoCommand ==
  /\ inbox = Nothing
  /\ stale' = IF stale > Timeout THEN stale ELSE stale + 1
  /\ UNCHANGED inbox

Waiting ==
  /\ NoCommand
  /\ cycles_since_command < Timeout
  /\ cycles_since_command' = cycles_since_command + 1
  /\ UNCHANGED <<acceleration, velocity>>

TimedOut ==
  /\ NoCommand
  /\ cycles_since_command >= Timeout
  /\ acceleration' = 0
  /\ velocity' = 0
  /\ UNCHANGED cycles_since_command

InWatchdog ==
  /\ pc = "command"
  /\ pc' = "integrate"
  /\ UNCHANGED <<driverVars, silent, mail, encoder_dead, angle>>

\* Faulty variant: a timeout that forgets the velocity integrated so far.
WatchdogKeepsVelocity ==
  /\ InWatchdog
  /\ \/ NewCommand \/ Waiting
     \/ /\ NoCommand /\ cycles_since_command >= Timeout
        /\ acceleration' = 0
        /\ UNCHANGED <<cycles_since_command, velocity>>

Watchdog == InWatchdog /\ (NewCommand \/ Waiting \/ TimedOut)

\* Arithmetic on doubles: NaN is contagious, and std::clamp lets it through.
Integrated ==
  IF NaN \in {acceleration, velocity} THEN NaN
  ELSE Clamp(velocity + acceleration, -MaxVelocity, MaxVelocity)

IntegrateTo(v) ==
  /\ pc = "integrate"
  /\ pc' = "drive"
  /\ velocity' = v
  /\ UNCHANGED <<driverVars, peerVars, angle, cycles_since_command, acceleration, stale>>

\* Faulty variant: no hard stop.
IntegrateFree == IntegrateTo(Integrated)

\* Integration, then enforce_stepper_hard_stop.
Integrate ==
  IntegrateTo(
    IF Integrated # NaN
       /\ \/ angle >= Limit /\ Integrated > 0
          \/ angle <= -Limit /\ Integrated < 0
    THEN 0 ELSE Integrated)

\* set_stepper_angular_vel: not finite, zero or too slow a velocity stops.
\* The other bound, kMinMicrostepIntervalNs, is out of reach of a velocity
\* within kMaxAngularVelocity: 140 us a microstep on the board, against 60.
Stops == velocity \notin Int \/ velocity = 0 \/ velocity \in (1 - MinVelocity)..(MinVelocity - 1)

Retarget(base) ==
  /\ ~Stops
  /\ target' = Clamp(base + velocity * Projection, stepper_min_position, stepper_max_position)
  /\ moving' = TRUE

InDrive ==
  /\ pc = "drive"
  /\ pc' = "position"
  /\ UNCHANGED <<position, peerVars, controlVars>>

StopStepper == Stops /\ moving' = FALSE /\ UNCHANGED target
DriverFails == UNCHANGED <<target, moving>>

\* Faulty variant: a target that is not clamped.
DriveUnclamped ==
  /\ InDrive
  /\ \/ StopStepper \/ DriverFails
     \/ /\ ~Stops
        /\ target' = position + velocity * Projection
        /\ moving' = TRUE

\* The position is read again for the target; if that fails it counts as 0.
Drive ==
  /\ InDrive
  /\ StopStepper \/ DriverFails \/ Retarget(position) \/ Retarget(0)

Loop == ReadPosition \/ WaitEncoder \/ Watchdog \/ Integrate \/ Drive
Next ==
  \/ CommandArrives \/ HostGone \/ EncoderSample \/ EncoderDies \/ DriverStep
  \/ Loop

(* The loop runs whenever it is not waiting, an encoder that is not dead    *)
(* delivers samples, and the driver steps.                                  *)
Fairness == WF_vars(Loop) /\ WF_vars(EncoderSample) /\ WF_vars(DriverStep)

Spec == Init /\ [][Next]_vars
FairSpec == Spec /\ Fairness

-------------------------------------------------------------------------------
(* "the driver's own step-generation logic ... is what actually prevents    *)
(* stepping past the limit": at every moment, between any two polls of the  *)
(* loop and whichever driver call fails, the position is within the travel. *)
WithinTravel == position \in Travel

(* After more than kCommandTimeoutCycles turns without a command neither an *)
(* acceleration nor the velocity integrated from it is left, NaN included.  *)
StaleCommandStops == pc \in {"integrate", "drive", "position"} /\ stale > Timeout =>
                       acceleration = 0 /\ velocity = 0

AtRest == ~moving \/ position = target

(* When the host is gone, or the encoder is dead and the loop waits for it  *)
(* for ever with its watchdog, the stepper comes to rest: a move_to ends.   *)
RestsWithoutPeer == (silent \/ encoder_dead) ~> []AtRest

(* The inductive invariant: targets are within the travel too, and          *)
(* cycles_since_command is the staleness up to its limit.                   *)
Tier2Inv ==
  /\ TypeOK
  /\ WithinTravel /\ target \in Travel
  /\ cycles_since_command = IF stale < Timeout THEN stale ELSE Timeout
  /\ stale > Timeout => acceleration = 0 /\ velocity = 0
===============================================================================
