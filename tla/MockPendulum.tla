----------------------------- MODULE MockPendulum -----------------------------
(***************************************************************************)
(* mock_pendulum_hardware.cpp, the component that stands in for the        *)
(* firmware when the controller is tried without a robot.  read() latches  *)
(* the controller's command and advances the arm by sub-steps: clamped     *)
(* acceleration, lost steps, the velocity ceiling, the hard stops.         *)
(*                                                                         *)
(* Angles, velocities and accelerations are integers in units of one       *)
(* sub-step.  The pendulum itself (torque balance, encoder and noise) is   *)
(* real arithmetic and reaches the arm through two things only: the        *)
(* jitter of the acceleration and the torque that makes the motor lose     *)
(* steps.                                                                  *)
(***************************************************************************)
EXTENDS Integers

CONSTANTS
  Commands,      \* finite accelerations that a controller may command
  NaN,           \* a command that is not a number
  Infinity,      \* a command that is not finite, and no NaN
  PositionLimit, MaxVelocity, MaxAcceleration,  \* parameters as configured
  MaxSubsteps,   \* the parameter max_substeps as configured
  Jitter,        \* motor_accel_noise_ times a normal deviate
  Error,         \* of a measurement: rounding to microsteps, noise
  Realised       \* accelerations that the holding torque may leave

Abs(x) == IF x < 0 THEN -x ELSE x
Clamp(x, lo, hi) == IF x < lo THEN lo ELSE IF hi < x THEN hi ELSE x

ASSUME MockAssumption ==
  /\ Commands \subseteq Int /\ Jitter \subseteq Int /\ Error \subseteq Int /\ Realised \subseteq Int
  /\ NaN \notin Int /\ Infinity \notin Int /\ NaN # Infinity
  /\ {PositionLimit, MaxVelocity, MaxAcceleration, MaxSubsteps} \subseteq Int

\* on_init: a configured sign does not matter, a count of at least one does.
motor_limit_ == Abs(PositionLimit)
motor_max_vel_ == Abs(MaxVelocity)
motor_max_accel_ == Abs(MaxAcceleration)
max_substeps_ == IF MaxSubsteps < 1 THEN 1 ELSE MaxSubsteps

VARIABLES
  active,
  substeps,             \* sub-steps that read() has left; 0 outside of it
  command_interface,
  hw_command,           \* hw_commands_[0]
  q1, q1_dot,           \* arm
  at_limit, step_loss,
  hw_state,             \* what state_interfaces_ show of the arm
  commanded,            \* history: a controller has commanded since on_activate
  uncleared             \* history: the last on_activate could not set the interface

armVars == <<q1, q1_dot, at_limit, step_loss>>
historyVars == <<commanded, uncleared>>
vars == <<active, substeps, command_interface, hw_command, armVars, hw_state, historyVars>>

Arm == -motor_limit_..motor_limit_
Velocity == -motor_max_vel_..motor_max_vel_
Command == Commands \cup {NaN, Infinity, 0}

TypeOK ==
  /\ {active, at_limit, step_loss, commanded, uncleared} \subseteq BOOLEAN
  /\ substeps \in 0..max_substeps_
  /\ command_interface \in Command /\ hw_command \in Command \ {NaN}
  /\ q1 \in Int /\ q1_dot \in Int
  /\ hw_state \in [position : Int, velocity : Int]

Init ==
  /\ active = FALSE /\ substeps = 0 /\ commanded = FALSE /\ uncleared = FALSE
  /\ command_interface = 0 /\ hw_command = 0
  /\ q1 = 0 /\ q1_dot = 0 /\ at_limit = FALSE /\ step_loss = FALSE
  /\ hw_state = [position |-> 0, velocity |-> 0]

publish_states ==
  \E rounding, noise \in Error :
    hw_state' = [position |-> q1' + rounding, velocity |-> q1_dot' + noise]

\* Faulty variant: the interface keeps what was commanded last time.
OnActivateInterfaceKept ==
  /\ ~active /\ substeps = 0
  /\ active' = TRUE /\ commanded' = FALSE /\ uncleared' = FALSE
  /\ hw_command' = 0
  /\ q1' = 0 /\ q1_dot' = 0 /\ at_limit' = FALSE /\ step_loss' = FALSE
  /\ publish_states
  /\ UNCHANGED <<substeps, command_interface>>

\* The arm is centred and at rest, and nothing is commanded; but set_value may
\* meet a locked interface, and its result is ignored.
OnActivate ==
  /\ ~active /\ substeps = 0
  /\ active' = TRUE /\ commanded' = FALSE
  /\ hw_command' = 0
  /\ \/ command_interface' = 0 /\ uncleared' = FALSE
     \/ command_interface' = command_interface /\ uncleared' = TRUE
  /\ q1' = 0 /\ q1_dot' = 0 /\ at_limit' = FALSE /\ step_loss' = FALSE
  /\ publish_states
  /\ UNCHANGED substeps

\* on_deactivate does nothing: an arm that is read while inactive goes on.
OnDeactivate ==
  /\ active /\ substeps = 0
  /\ active' = FALSE
  /\ UNCHANGED <<substeps, command_interface, hw_command, armVars, hw_state, historyVars>>

\* A controller has the interface while the component is active.
Update ==
  /\ active /\ substeps = 0
  /\ command_interface' \in Command
  /\ commanded' = TRUE
  /\ UNCHANGED <<active, substeps, hw_command, armVars, hw_state, uncleared>>

\* read() up to its loop: the interface may be locked, the period zero.
ReadCommand ==
  /\ substeps = 0
  /\ hw_command' \in {hw_command, command_interface} \ {NaN}
  /\ substeps' \in 0..max_substeps_
  /\ UNCHANGED <<active, command_interface, armVars, hw_state, historyVars>>

Accelerate(a) == Clamp(q1_dot + a, -motor_max_vel_, motor_max_vel_)

\* Restitution of 0 to 0.9: never faster than before, away from the stop.
Bounced(v) == IF v > 0 THEN -v..0 ELSE 0..(-v)

MoveTo(v) ==
  LET p == q1 + v IN
  IF p \in Arm THEN q1' = p /\ q1_dot' = v /\ at_limit' = FALSE
  ELSE /\ q1' = IF p > motor_limit_ THEN motor_limit_ ELSE -motor_limit_
       /\ q1_dot' \in Bounced(v)
       /\ at_limit' = TRUE

\* integrate(h), and publish_states after the last sub-step.
Integrate ==
  /\ substeps > 0
  /\ substeps' = substeps - 1
  /\ LET a == IF hw_command = Infinity THEN 0
              ELSE Clamp(hw_command, -motor_max_accel_, motor_max_accel_) IN
     \/ step_loss' = FALSE /\ \E noise \in Jitter : MoveTo(Accelerate(a + noise))
     \/ step_loss' = TRUE /\ \E left \in Realised : MoveTo(Accelerate(left))
  /\ IF substeps' = 0 THEN publish_states ELSE UNCHANGED hw_state
  /\ UNCHANGED <<active, command_interface, hw_command, historyVars>>

Next == OnActivate \/ OnDeactivate \/ Update \/ ReadCommand \/ Integrate

Spec == Init /\ [][Next]_vars

-------------------------------------------------------------------------------
(* An activation starts without a command, whatever was commanded before or *)
(* read while the component was inactive: until a controller commands one,  *)
(* the arm is driven by nothing but what the interface shows, and that is 0 *)
(* unless on_activate could not set it.                                     *)
NoStaleCommand ==
  active /\ ~commanded =>
    hw_command \in {0, command_interface} /\ (command_interface # 0 => uncleared)

(* "mechanically limited to +-135 deg": in every sub-step and whatever is   *)
(* commanded the arm is between its stops, and no faster than the ceiling.  *)
ArmWithinStops == q1 \in Arm /\ q1_dot \in Velocity
===============================================================================
