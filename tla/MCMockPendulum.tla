---------------------------- MODULE MCMockPendulum ----------------------------
(* MockPendulum for TLC: stops that one sub-step can overshoot.  In         *)
(* behaviours of their own the modes of PendulumController: parameters in   *)
(* and out of order, a ramp that is refused (0), one of a single step and   *)
(* one of three.  part says which of them a behaviour is about, the other   *)
(* does not start: the arm follows any command, the controller meets any    *)
(* angle.                                                                   *)
EXTENDS MockPendulum

CONSTANTS Angles, AngleParams, RampParams   \* of PendulumController

MCCommands == {-2, 3}
MCJitter == {-1, 0, 1}
MCError == {0, 1}
MCRealised == {-1, 1}
MCPositionLimit == -3

MCAngles == 0..5
MCAngleParams == {0, 1, 2, 4}
MCRampParams == {0, 1, 3}

VARIABLES
  part,
  life, catch_angle, fall_angle, catch_ramp_steps,   \* of PendulumController
  balancing, catch_ramp_remaining, command, updates, flip_angle

Controller == INSTANCE PendulumController
controllerVars == <<life, catch_angle, fall_angle, catch_ramp_steps,
                    balancing, catch_ramp_remaining, command, updates, flip_angle>>

ASSUME ControllerAssumed == Controller!ControllerAssumption

MCInit == Init /\ Controller!Init /\ part \in {"arm", "controller"}
OfArm(A) == part = "arm" /\ A /\ UNCHANGED <<part, controllerVars>>
OfController(A) == part = "controller" /\ A /\ UNCHANGED <<part, vars>>
MCNext == OfArm(Next) \/ OfController(Controller!Next)
MCSpec == MCInit /\ [][MCNext]_<<part, vars, controllerVars>>

(* The LQR command is ramped in from zero, see PendulumController. *)
RampExact == Controller!RampExact

(* The mode does not change back at the same angle, see PendulumController. *)
NoChatter == Controller!NoChatter
===============================================================================
