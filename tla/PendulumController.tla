-------------------------- MODULE PendulumController --------------------------
(***************************************************************************)
(* The mode machine of inverted_pendulum_controller.cpp: swing-up until    *)
(* the pendulum is near upright and the LQR command is feasible, then      *)
(* balance, with the LQR command ramped in, until it falls.  An angle is   *)
(* |q2| in small units, or NaN; whether the candidate command is feasible  *)
(* is a free input, false whenever it is not a number.  The control laws   *)
(* themselves are real arithmetic and are left out: a command is its       *)
(* origin and, for LQR, the share of it that is let through.               *)
(***************************************************************************)
EXTENDS Integers, FiniteSetsExt

CONSTANTS
  Angles,       \* values of |q2|
  AngleParams,  \* values of the parameters catch_angle and fall_angle
  RampParams,   \* values of the parameter catch_ramp_steps
  NaN

ControllerAssumption ==
  /\ Angles \subseteq Nat /\ AngleParams \subseteq Nat /\ RampParams \subseteq Int
  /\ NaN \notin Int

VARIABLES
  life,          \* life cycle of the controller
  catch_angle, fall_angle, catch_ramp_steps,
  balancing,
  catch_ramp_remaining,
  command,       \* the value last given to set_value of the command interface
  updates,       \* history: updates since the last catch
  flip_angle     \* history: |q2| at the last change of mode, NaN if none

configVars == <<catch_angle, fall_angle, catch_ramp_steps>>
modeVars == <<balancing, catch_ramp_remaining, updates, flip_angle>>
vars == <<life, configVars, modeVars, command>>

Zero == [law |-> "zero", share |-> 0]
Swing == [law |-> "swing", share |-> 0]
Lqr(n) == [law |-> "lqr", share |-> n]

TypeOK ==
  /\ life \in {"unconfigured", "inactive", "active"}
  /\ catch_angle \in Nat /\ fall_angle \in Nat
  /\ catch_ramp_steps \in Nat \ {0}
  /\ balancing \in BOOLEAN
  /\ catch_ramp_remaining \in Nat
  /\ command \in [law : {"zero", "swing", "lqr"}, share : Nat] \cup {NaN}
  /\ updates \in Nat
  /\ flip_angle \in Angles \cup {NaN}

\* The parameters' values before on_configure are never used.
Init ==
  /\ life = "unconfigured"
  /\ catch_angle = 0 /\ fall_angle = 0 /\ catch_ramp_steps = 1
  /\ balancing = FALSE /\ catch_ramp_remaining = 0
  /\ command = Zero
  /\ updates = 0 /\ flip_angle = NaN

-------------------------------------------------------------------------------
\* Faulty variant: a fall_angle below catch_angle is taken as it is.
FallAngleAsGiven(catch, fall) == fall

\* A fall_angle that leaves no hysteresis is replaced.
FallAngle(catch, fall) == IF fall <= catch THEN 2 * catch ELSE fall

\* A ramp has at least one cycle.  The casts to int keep the small integers
\* that a ramp is.
RampSteps(ramp) == Max({1, ramp})

OnConfigure ==
  /\ life = "unconfigured"
  /\ life' = "inactive"
  /\ \E catch, fall \in AngleParams, ramp \in RampParams :
       /\ catch_angle' = catch
       /\ fall_angle' = FallAngle(catch, fall)
       /\ catch_ramp_steps' = RampSteps(ramp)
  /\ UNCHANGED <<modeVars, command>>

\* The default on_cleanup keeps every member.
OnCleanup ==
  /\ life = "inactive"
  /\ life' = "unconfigured"
  /\ UNCHANGED <<configVars, modeVars, command>>

OnActivate ==
  /\ life = "inactive"
  /\ life' = "active"
  /\ balancing' = FALSE
  /\ catch_ramp_remaining' = 0
  /\ updates' = 0 /\ flip_angle' = NaN
  /\ UNCHANGED <<configVars, command>>

OnDeactivate ==
  /\ life = "active"
  /\ life' = "inactive"
  /\ command' = Zero
  /\ UNCHANGED <<configVars, modeVars>>

-------------------------------------------------------------------------------
(* update().  Comparisons with NaN are false.                               *)
Below(q2, limit) == q2 # NaN /\ q2 < limit
Above(q2, limit) == q2 # NaN /\ q2 > limit

\* Balancing in this update, with this many ramp cycles left at its start:
\* the LQR share, and the next ramp count.
Balance(remaining, nan) ==
  /\ catch_ramp_remaining' = IF remaining > 0 THEN remaining - 1 ELSE 0
  /\ command' = IF nan THEN NaN ELSE Lqr(catch_ramp_steps - remaining)

\* copysign makes a number of the pump, the centring of the arm need not be one.
SwingUp(nan) ==
  /\ command' \in IF nan THEN {NaN, Swing} ELSE {Swing}
  /\ UNCHANGED catch_ramp_remaining

Update(q2, safe, nan) ==
  /\ life = "active"
  /\ q2 = NaN => nan
  /\ nan => ~safe
  /\ UNCHANGED <<life, configVars>>

CatchOn(q2, safe, nan, remaining) ==
  /\ Update(q2, safe, nan)
  /\ ~balancing /\ Below(q2, catch_angle) /\ safe
  /\ balancing' = TRUE /\ flip_angle' = q2 /\ updates' = 0
  /\ Balance(remaining, nan)

\* Faulty variant: the ramp is where the last balance left it.
CatchStaleRamp(q2, safe, nan) == CatchOn(q2, safe, nan, catch_ramp_remaining)

Catch(q2, safe, nan) == CatchOn(q2, safe, nan, catch_ramp_steps)

Fall(q2, safe, nan) ==
  /\ Update(q2, safe, nan)
  /\ balancing /\ Above(q2, fall_angle)
  /\ balancing' = FALSE /\ flip_angle' = q2 /\ updates' = 0
  /\ SwingUp(nan)

KeepBalancing(q2, safe, nan) ==
  /\ Update(q2, safe, nan)
  /\ balancing /\ ~Above(q2, fall_angle)
  /\ updates' = IF updates < catch_ramp_steps THEN updates + 1 ELSE updates
  /\ Balance(catch_ramp_remaining, nan)
  /\ UNCHANGED <<balancing, flip_angle>>

KeepSwinging(q2, safe, nan) ==
  /\ Update(q2, safe, nan)
  /\ ~balancing /\ ~(Below(q2, catch_angle) /\ safe)
  /\ SwingUp(nan)
  /\ UNCHANGED <<balancing, updates, flip_angle>>

Next ==
  \/ OnConfigure \/ OnCleanup \/ OnActivate \/ OnDeactivate
  \/ \E q2 \in Angles \cup {NaN}, safe, nan \in BOOLEAN :
       \/ Catch(q2, safe, nan) \/ Fall(q2, safe, nan)
       \/ KeepBalancing(q2, safe, nan) \/ KeepSwinging(q2, safe, nan)

Spec == Init /\ [][Next]_vars

-------------------------------------------------------------------------------
(* "Smooth ramp engagement to prevent actuator acceleration step            *)
(* discontinuities": in the n-th update after a catch exactly n of          *)
(* catch_ramp_steps parts of the LQR command are let through, the first     *)
(* time none of it, whatever catches, falls and activations came before.    *)
RampExact ==
  life = "active" /\ balancing /\ command # NaN /\ command.law = "lqr" => command.share = updates

(* Hysteresis: an angle at which the mode has just changed does not change  *)
(* it back, for every choice of the parameters.                             *)
NoChatter ==
  [][life = "active" /\ life' = "active" /\ balancing' # balancing
       => flip_angle = NaN \/ flip_angle' # flip_angle]_vars

(* The inductive invariant: while the controller balances, the count of the *)
(* ramp is what is left of it, and the angle at the last change of mode is  *)
(* on the side of the thresholds on which the mode now is.                  *)
RampCounts ==
  life = "active" /\ balancing =>
    /\ updates \in 0..catch_ramp_steps
    /\ catch_ramp_remaining = IF updates < catch_ramp_steps
                              THEN catch_ramp_steps - 1 - updates ELSE 0
FlipBeyondThreshold ==
  life = "active" /\ flip_angle # NaN =>
    IF balancing THEN flip_angle < catch_angle ELSE flip_angle > fall_angle
ControllerInv ==
  /\ TypeOK /\ RampExact /\ RampCounts /\ FlipBeyondThreshold
  /\ catch_angle < fall_angle \/ catch_angle = 0
===============================================================================
