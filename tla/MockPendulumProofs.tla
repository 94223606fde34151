-------------------------- MODULE MockPendulumProofs --------------------------
(***************************************************************************)
(* Proofs about MockPendulum, for all parameters, commands, noise and      *)
(* lost steps: the arm stays between its stops and below its ceiling, and  *)
(* no command survives an activation that sets the interface.  Then about PendulumController, by   *)
(* its instance in MCMockPendulum and for all angles and parameters: the   *)
(* ramp is exact, and the modes do not chatter.                            *)
(***************************************************************************)
EXTENDS MCMockPendulum, TLAPS

(* Whatever the sign they are configured with, the limits are limits.      *)
LEMMA LimitsAreNat ==
  motor_limit_ \in Nat /\ motor_max_vel_ \in Nat /\ motor_max_accel_ \in Int
BY MockAssumption DEF motor_limit_, motor_max_vel_, motor_max_accel_, Abs

(* std::clamp between a number and its negative.                           *)
LEMMA ClampBounds ==
  ASSUME NEW x \in Int, NEW n \in Nat
  PROVE  Clamp(x, -n, n) \in -n..n
BY DEF Clamp

(* The velocity ceiling holds for any acceleration that is a number.       *)
LEMMA CeilingHolds ==
  ASSUME q1_dot \in Int, NEW a \in Int
  PROVE  Accelerate(a) \in Velocity
<1>1. q1_dot + a \in Int
  OBVIOUS
<1> QED
  BY <1>1, LimitsAreNat, ClampBounds DEF Accelerate, Velocity

(* A hard stop leaves the arm at the stop, and no faster than it came.     *)
LEMMA StopHolds ==
  ASSUME q1 \in Arm, NEW v \in Velocity, MoveTo(v)
  PROVE  q1' \in Arm /\ q1_dot' \in Velocity
<1>1. CASE q1 + v \in Arm
  BY <1>1 DEF MoveTo
<1>2. CASE q1 + v \notin Arm
  <2>1. q1' \in {motor_limit_, -motor_limit_} /\ q1_dot' \in Bounced(v)
    BY <1>2 DEF MoveTo
  <2>2. Bounced(v) \subseteq Velocity
    BY LimitsAreNat DEF Bounced, Velocity
  <2> QED
    BY <2>1, <2>2, LimitsAreNat DEF Arm
<1> QED
  BY <1>1, <1>2

(* What one sub-step needs besides: the command it integrates is no NaN.    *)
MockInv ==
  /\ command_interface \in Command /\ hw_command \in Command \ {NaN}
  /\ ArmWithinStops

(* One sub-step of integrate() keeps the arm within its stops.              *)
LEMMA SubstepHolds ==
  ASSUME MockInv, Integrate
  PROVE  q1' \in Arm /\ q1_dot' \in Velocity
<1> DEFINE a == IF hw_command = Infinity THEN 0
                ELSE Clamp(hw_command, -motor_max_accel_, motor_max_accel_)
<1>1. a \in Int
  BY LimitsAreNat, MockAssumption DEF MockInv, Command, Clamp
<1>2. q1_dot \in Int /\ q1 \in Arm
  BY LimitsAreNat DEF MockInv, ArmWithinStops, Velocity
<1>3. \/ \E noise \in Jitter : MoveTo(Accelerate(a + noise))
      \/ \E left \in Realised : MoveTo(Accelerate(left))
  BY DEF Integrate
<1>4. PICK b \in Int : MoveTo(Accelerate(b))
  BY <1>1, <1>3, MockAssumption
<1> QED
  BY <1>2, <1>4, CeilingHolds, StopHolds

(* ArmWithinStops: the arm of the mock never leaves its travel and never   *)
(* exceeds the velocity ceiling of integrate().                            *)
THEOREM ArmStaysWithinStops == Spec => []ArmWithinStops
<1>1. Init => MockInv
  BY LimitsAreNat, MockAssumption
     DEF Init, MockInv, ArmWithinStops, Arm, Velocity, Command
<1>2. MockInv /\ [Next]_vars => MockInv'
  <2> SUFFICES ASSUME MockInv, [Next]_vars PROVE MockInv'
    OBVIOUS
  <2>1. Arm' = Arm /\ Velocity' = Velocity /\ Command' = Command
    BY DEF Arm, Velocity, Command, motor_limit_, motor_max_vel_
  <2>2. 0 \in Arm /\ 0 \in Velocity /\ 0 \in Command \ {NaN}
    BY LimitsAreNat, MockAssumption DEF Arm, Velocity, Command
  <2>3. CASE OnActivate
    BY <2>1, <2>2, <2>3 DEF OnActivate, publish_states, MockInv, ArmWithinStops
  <2>4. CASE Integrate
    <3>1. q1' \in Arm /\ q1_dot' \in Velocity
      BY <2>4, SubstepHolds
    <3> QED
      BY <2>1, <2>4, <3>1 DEF Integrate, publish_states, MockInv, ArmWithinStops
  <2>5. CASE OnDeactivate
    BY <2>1, <2>5 DEF OnDeactivate, armVars, MockInv, ArmWithinStops
  <2>6. CASE Update
    BY <2>1, <2>6 DEF Update, armVars, MockInv, ArmWithinStops
  <2>7. CASE ReadCommand
    BY <2>1, <2>7 DEF ReadCommand, armVars, MockInv, ArmWithinStops
  <2>8. CASE UNCHANGED vars
    BY <2>1, <2>8 DEF vars, armVars, MockInv, ArmWithinStops
  <2> QED
    BY <2>3, <2>4, <2>5, <2>6, <2>7, <2>8 DEF Next
<1>3. MockInv => ArmWithinStops
  BY DEF MockInv
<1> QED
  BY <1>1, <1>2, <1>3, PTL DEF Spec

(* NoStaleCommand: an activation resets the command that read() keeps and, *)
(* unless it is locked, the interface that read() would latch again, so    *)
(* that what was commanded before returns through a locked interface only. *)
THEOREM ActivationIsClean == Spec => []NoStaleCommand
<1>1. Init => NoStaleCommand
  BY DEF Init, NoStaleCommand
<1>2. NoStaleCommand /\ [Next]_vars => NoStaleCommand'
  <2> SUFFICES ASSUME NoStaleCommand, [Next]_vars PROVE NoStaleCommand'
    OBVIOUS
  <2>1. CASE ReadCommand
    BY <2>1 DEF ReadCommand, historyVars, NoStaleCommand
  <2>2. CASE OnActivate \/ OnDeactivate \/ Update
    BY <2>2 DEF OnActivate, OnDeactivate, Update, historyVars, NoStaleCommand
  <2>3. CASE Integrate \/ UNCHANGED vars
    BY <2>3 DEF Integrate, vars, historyVars, NoStaleCommand
  <2> QED
    BY <2>1, <2>2, <2>3 DEF Next
<1> QED
  BY <1>1, <1>2, PTL DEF Spec

-------------------------------------------------------------------------------
(* A ramp has at least one step, and no more than it is configured with.   *)
LEMMA RampHasSteps ==
  ASSUME NEW ramp \in Int
  PROVE  Controller!RampSteps(ramp) = IF ramp < 1 THEN 1 ELSE ramp
<1> DEFINE IsMax(x) == x \in {1, ramp} /\ \A y \in {1, ramp} : x >= y
<1>1. \E x : IsMax(x)
  OBVIOUS
<1>2. IsMax(Controller!RampSteps(ramp))
  BY <1>1 DEF Controller!RampSteps, Controller!Max
<1> QED
  BY <1>2

(* on_configure leaves a gap between the two thresholds.                    *)
LEMMA ThresholdsApart ==
  ASSUME NEW catch \in Nat, NEW fall \in Nat
  PROVE  /\ Controller!FallAngle(catch, fall) \in Nat
         /\ catch < Controller!FallAngle(catch, fall) \/ catch = 0
BY DEF Controller!FallAngle

(* update() while balancing: the share grows with the updates.              *)
LEMMA BalanceStep ==
  ASSUME Controller!ControllerInv, NEW q2, NEW safe \in BOOLEAN, NEW nan \in BOOLEAN,
         q2 \in Angles \cup {NaN},
         Controller!Catch(q2, safe, nan) \/ Controller!KeepBalancing(q2, safe, nan)
  PROVE  Controller!ControllerInv'
<1> USE DEF Controller!ControllerInv
<1>0. /\ UNCHANGED <<life, catch_angle, fall_angle, catch_ramp_steps>> /\ balancing' = TRUE
      /\ catch_ramp_steps \in Nat \ {0} /\ life = "active"
  BY DEF Controller!Catch, Controller!CatchOn, Controller!KeepBalancing, Controller!Update,
     Controller!configVars, Controller!TypeOK
<1>1. PICK left \in Nat :
        /\ left <= catch_ramp_steps /\ Controller!Balance(left, nan)
        /\ updates' \in 0..catch_ramp_steps /\ updates' = catch_ramp_steps - left
  <2>1. CASE Controller!Catch(q2, safe, nan)
    BY <1>0, <2>1 DEF Controller!Catch, Controller!CatchOn
  <2>2. CASE Controller!KeepBalancing(q2, safe, nan)
    BY <1>0, <2>2 DEF Controller!KeepBalancing, Controller!RampCounts, Controller!TypeOK
  <2> QED
    BY <2>1, <2>2
<1>2. /\ catch_ramp_remaining' = IF left > 0 THEN left - 1 ELSE 0
      /\ command' = IF nan THEN NaN ELSE [law |-> "lqr", share |-> catch_ramp_steps - left]
  BY <1>1 DEF Controller!Balance, Controller!Lqr
<1>3. Controller!RampExact'
  BY <1>0, <1>1, <1>2 DEF Controller!RampExact
<1>4. Controller!RampCounts'
  BY <1>0, <1>1, <1>2 DEF Controller!RampCounts
<1>5. Controller!FlipBeyondThreshold' /\ flip_angle' \in Angles \cup {NaN}
  BY <1>0 DEF Controller!Catch, Controller!CatchOn, Controller!Below, Controller!KeepBalancing,
     Controller!FlipBeyondThreshold, Controller!TypeOK
<1>6. Controller!TypeOK'
  <2>1. command' \in [law : {"zero", "swing", "lqr"}, share : Nat] \cup {NaN}
    BY <1>0, <1>1, <1>2
  <2>2. catch_ramp_remaining' \in Nat /\ updates' \in Nat
    BY <1>0, <1>1, <1>2
  <2> QED
    BY <1>0, <1>5, <2>1, <2>2 DEF Controller!TypeOK
<1> QED
  BY <1>0, <1>3, <1>4, <1>5, <1>6

(* update() while swinging up, from a fall on.                              *)
LEMMA SwingStep ==
  ASSUME Controller!ControllerInv, NEW q2, NEW safe \in BOOLEAN, NEW nan \in BOOLEAN,
         q2 \in Angles \cup {NaN},
         Controller!Fall(q2, safe, nan) \/ Controller!KeepSwinging(q2, safe, nan)
  PROVE  Controller!ControllerInv'
<1> USE DEF Controller!ControllerInv
<1>0. /\ UNCHANGED <<life, catch_angle, fall_angle, catch_ramp_steps, catch_ramp_remaining>>
      /\ balancing' = FALSE /\ updates' \in Nat
      /\ command' \in {NaN, [law |-> "swing", share |-> 0]}
  BY DEF Controller!Fall, Controller!KeepSwinging, Controller!Update, Controller!SwingUp,
     Controller!Swing, Controller!configVars, Controller!TypeOK
<1>1. Controller!RampExact' /\ Controller!RampCounts'
  BY <1>0 DEF Controller!RampExact, Controller!RampCounts
<1>2. Controller!FlipBeyondThreshold' /\ flip_angle' \in Angles \cup {NaN}
  BY <1>0 DEF Controller!Fall, Controller!Above, Controller!KeepSwinging,
     Controller!FlipBeyondThreshold, Controller!TypeOK
<1>3. Controller!TypeOK'
  <2>1. command' \in [law : {"zero", "swing", "lqr"}, share : Nat] \cup {NaN}
    BY <1>0
  <2> QED
    BY <1>0, <1>2, <2>1 DEF Controller!TypeOK
<1> QED
  BY <1>0, <1>1, <1>2, <1>3

(* A change of the life cycle: parameters are read, or the mode is reset.  *)
LEMMA LifeCycleStep ==
  ASSUME Controller!ControllerInv,
         \/ Controller!OnConfigure \/ Controller!OnCleanup
         \/ Controller!OnActivate \/ Controller!OnDeactivate
  PROVE  Controller!ControllerInv'
<1> USE DEF Controller!ControllerInv, Controller!configVars, Controller!modeVars
<1>1. CASE Controller!OnConfigure
  <2>1. PICK catch \in AngleParams, fall \in AngleParams, ramp \in RampParams :
          /\ catch_angle' = catch
          /\ fall_angle' = Controller!FallAngle(catch, fall)
          /\ catch_ramp_steps' = Controller!RampSteps(ramp)
    BY <1>1 DEF Controller!OnConfigure
  <2>2. catch \in Nat /\ fall \in Nat /\ ramp \in Int
    BY ControllerAssumed DEF Controller!ControllerAssumption
  <2>3. /\ catch_angle' \in Nat /\ fall_angle' \in Nat /\ catch_ramp_steps' \in Nat \ {0}
        /\ (catch_angle < fall_angle \/ catch_angle = 0)'
    <3>1. catch_ramp_steps' = IF ramp < 1 THEN 1 ELSE ramp
      BY <2>1, <2>2, RampHasSteps
    <3>2. fall_angle' \in Nat /\ (catch_angle' < fall_angle' \/ catch_angle' = 0)
      BY <2>1, <2>2, ThresholdsApart
    <3> QED
      BY <2>1, <2>2, <3>1, <3>2
  <2>4. life' = "inactive" /\ UNCHANGED <<balancing, catch_ramp_remaining, updates, flip_angle, command>>
    BY <1>1 DEF Controller!OnConfigure
  <2> QED
    BY <2>3, <2>4 DEF Controller!TypeOK, Controller!RampExact, Controller!RampCounts,
       Controller!FlipBeyondThreshold
<1>2. CASE Controller!OnCleanup
  BY <1>2 DEF Controller!OnCleanup, Controller!TypeOK, Controller!RampExact, Controller!RampCounts,
     Controller!FlipBeyondThreshold
<1>3. CASE Controller!OnActivate
  BY <1>3 DEF Controller!OnActivate, Controller!TypeOK, Controller!RampExact, Controller!RampCounts,
     Controller!FlipBeyondThreshold
<1>4. CASE Controller!OnDeactivate
  BY <1>4 DEF Controller!OnDeactivate, Controller!TypeOK, Controller!RampExact,
     Controller!RampCounts, Controller!FlipBeyondThreshold, Controller!Zero
<1> QED
  BY <1>1, <1>2, <1>3, <1>4

(* The count of the ramp and the angle of the last change of mode fit the  *)
(* mode, for every choice of the parameters.                                *)
THEOREM ControllerInvariant == Controller!Spec => []Controller!ControllerInv
<1>1. Controller!Init => Controller!ControllerInv
  <2> SUFFICES ASSUME Controller!Init PROVE Controller!ControllerInv
    OBVIOUS
  <2>1. command \in [law : {"zero", "swing", "lqr"}, share : Nat]
    BY DEF Controller!Init, Controller!Zero
  <2>2. life \in {"unconfigured", "inactive", "active"} /\ balancing \in BOOLEAN
    BY DEF Controller!Init
  <2>3. /\ catch_angle \in Nat /\ fall_angle \in Nat /\ catch_ramp_steps \in Nat \ {0}
        /\ catch_ramp_remaining \in Nat /\ updates \in Nat
    BY DEF Controller!Init
  <2>4. flip_angle \in Angles \cup {NaN}
    BY DEF Controller!Init
  <2>5. Controller!TypeOK
    BY <2>1, <2>2, <2>3, <2>4 DEF Controller!TypeOK
  <2> QED
    BY <2>5 DEF Controller!Init, Controller!ControllerInv, Controller!RampExact,
       Controller!RampCounts, Controller!FlipBeyondThreshold
<1>2. Controller!ControllerInv /\ [Controller!Next]_(Controller!vars) => Controller!ControllerInv'
  <2>1. ASSUME Controller!ControllerInv, UNCHANGED Controller!vars PROVE Controller!ControllerInv'
    BY <2>1 DEF Controller!vars, Controller!configVars, Controller!modeVars,
       Controller!ControllerInv, Controller!TypeOK, Controller!RampExact, Controller!RampCounts,
       Controller!FlipBeyondThreshold
  <2> QED
    BY <2>1, BalanceStep, SwingStep, LifeCycleStep DEF Controller!Next
<1> QED
  BY <1>1, <1>2, PTL DEF Controller!Spec

(* "Smooth ramp engagement": in the n-th update after a catch exactly n     *)
(* parts of the LQR command are let through, for every catch_ramp_steps and *)
(* whatever catches, falls, activations and new parameters came before.     *)
THEOREM RampIsExact == Controller!Spec => []RampExact
<1>1. Controller!ControllerInv => RampExact
  BY DEF Controller!ControllerInv, RampExact
<1> QED
  BY <1>1, ControllerInvariant, PTL

(* Hysteresis: no angle changes the mode back that has just changed it, for *)
(* any catch_angle and fall_angle, because on_configure replaces a          *)
(* fall_angle that would leave no gap.                                      *)
THEOREM ModesDoNotChatter == Controller!Spec => NoChatter
<1>1. ASSUME Controller!ControllerInv, [Controller!Next]_(Controller!vars),
             life = "active", life' = "active", balancing' # balancing, flip_angle # NaN
      PROVE  flip_angle' # flip_angle
  <2>1. /\ Angles \subseteq Nat /\ flip_angle \in Nat /\ balancing \in BOOLEAN
        /\ catch_angle \in Nat /\ fall_angle \in Nat
        /\ catch_angle < fall_angle \/ catch_angle = 0
        /\ IF balancing THEN flip_angle < catch_angle ELSE flip_angle > fall_angle
    BY <1>1, ControllerAssumed DEF Controller!ControllerAssumption, Controller!ControllerInv,
       Controller!TypeOK, Controller!FlipBeyondThreshold
  <2>2. PICK q2 \in Angles \cup {NaN}, safe \in BOOLEAN, nan \in BOOLEAN :
          Controller!Catch(q2, safe, nan) \/ Controller!Fall(q2, safe, nan)
    BY <1>1 DEF Controller!Next, Controller!OnConfigure, Controller!OnCleanup,
       Controller!OnActivate, Controller!OnDeactivate, Controller!KeepBalancing,
       Controller!KeepSwinging, Controller!vars, Controller!modeVars
  <2>3. CASE Controller!Catch(q2, safe, nan)
    BY <2>1, <2>3 DEF Controller!Catch, Controller!CatchOn, Controller!Below
  <2>4. CASE Controller!Fall(q2, safe, nan)
    BY <2>1, <2>4 DEF Controller!Fall, Controller!Above
  <2> QED
    BY <2>2, <2>3, <2>4
<1>2. Controller!ControllerInv /\ [Controller!Next]_(Controller!vars) =>
        [life = "active" /\ life' = "active" /\ balancing' # balancing
           => flip_angle = NaN \/ flip_angle' # flip_angle]_(Controller!vars)
  BY <1>1
<1> QED
  BY <1>2, ControllerInvariant, PTL DEF NoChatter, Controller!NoChatter, Controller!Spec
===============================================================================
