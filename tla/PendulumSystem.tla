---------------------------- MODULE PendulumSystem ----------------------------
(***************************************************************************)
(* The Tier 2 pendulum from end to end: a ros2_control controller that is  *)
(* activated and deactivated, the hardware component of HostHardware that  *)
(* publishes its command interface in every cycle, a network that loses    *)
(* and delays messages, and the control loop of PendulumTier2 with the     *)
(* stepper.  Each part knows only its neighbour: the watchdog of the loop  *)
(* counts messages, and write() repeats the last command whether or not    *)
(* there is a controller.                                                  *)
(*                                                                         *)
(* The state direction, a dead encoder and failing driver calls are in the *)
(* modules of the parts and are left out here.                             *)
(***************************************************************************)
EXTENDS Integers, FiniteSets

CONSTANTS
  StateFields, CommandFields, NaN, MaxSample,       \* of HostHardware
  Accelerations, Nothing, Home, Limit, MaxVelocity, \* of PendulumTier2
  MinVelocity, Projection, Timeout,
  Field                                             \* the acceleration field

SystemAssumption ==
  /\ CommandFields = {Field}
  /\ 0 \in Accelerations
  /\ MaxSample = 0

VARIABLES
  life, session, state_sub, command_pub, hw_states, hw_commands, command_if,
  state_buffer, box_lock, callback, cycle, copied, sent, wire,
  position, target, moving, inbox, silent, mail, encoder_dead, pc,
  angle, cycles_since_command, acceleration, velocity, stale,
  controller,   \* the controller of the arm is active
  link          \* command under way, Nothing if none

hostVars == <<life, session, state_sub, command_pub, hw_states, hw_commands,
              command_if, state_buffer, box_lock, callback, cycle, copied, sent, wire>>
firmwareVars == <<position, target, moving, inbox, silent, mail, encoder_dead, pc,
                  angle, cycles_since_command, acceleration, velocity, stale>>
vars == <<hostVars, firmwareVars, controller, link>>

Host == INSTANCE HostHardware WITH Values <- Accelerations
Firmware == INSTANCE PendulumTier2

Init ==
  /\ Host!Init /\ Firmware!Init
  /\ controller = FALSE
  /\ link = Nothing

-------------------------------------------------------------------------------
(* The host. *)

\* The controller manager stops a component's controllers before it.
HostLifeCycle ==
  /\ ~controller
  /\ Host!OnInit \/ Host!ConfigureOrCleanup \/ Host!OnActivate \/ Host!OnDeactivate
  /\ UNCHANGED <<firmwareVars, controller, link>>

ControllerStarts ==
  /\ ~controller /\ cycle = "update"
  /\ controller' = TRUE
  /\ UNCHANGED <<hostVars, firmwareVars, link>>

\* on_deactivate zeroes the command interface; a failure is only logged.
ControllerStops ==
  /\ controller /\ cycle = "update"
  /\ controller' = FALSE
  /\ command_if' \in {[f \in CommandFields |-> 0], command_if}
  /\ UNCHANGED <<life, session, state_sub, command_pub, hw_states, hw_commands,
                 state_buffer, box_lock, callback, cycle, copied, sent, wire>>
  /\ UNCHANGED <<firmwareVars, link>>

\* read() of a component that has no new state.  The cycle of an inactive
\* component, which does not publish, is left out.
Read ==
  /\ life = "active" /\ cycle = "idle"
  /\ cycle' = "update"
  /\ UNCHANGED <<life, session, state_sub, command_pub, hw_states, hw_commands,
                 command_if, state_buffer, box_lock, callback, copied, sent, wire>>
  /\ UNCHANGED <<firmwareVars, controller, link>>

Update ==
  /\ \/ controller /\ Host!Update
     \/ /\ ~controller /\ cycle = "update"
        /\ cycle' = "write"
        /\ UNCHANGED <<life, session, state_sub, command_pub, hw_states, hw_commands,
                       command_if, state_buffer, box_lock, callback, copied, sent, wire>>
  /\ UNCHANGED <<firmwareVars, controller, link>>

\* What is published replaces a message under way, or gets lost.
Write ==
  /\ Host!Write
  /\ link' \in {wire'[Field], link}
  /\ UNCHANGED <<firmwareVars, controller>>

\* The process crashes, and may be started again.
HostCrashes ==
  /\ life' = "new" /\ cycle' = "idle" /\ controller' = FALSE
  /\ session' = FALSE /\ state_sub' = FALSE /\ command_pub' = FALSE
  /\ hw_states' = [f \in StateFields |-> NaN]
  /\ hw_commands' = [f \in CommandFields |-> NaN]
  /\ command_if' = [f \in CommandFields |-> 0]
  /\ wire' = <<>>
  /\ UNCHANGED <<state_buffer, box_lock, callback, copied, sent>>
  /\ UNCHANGED <<firmwareVars, link>>

\* The read task of the firmware: the callback stores and counts.  A message
\* may arrive when its sender is gone.
Deliver ==
  /\ link # Nothing
  /\ inbox' = link
  /\ link' = Nothing
  /\ UNCHANGED <<position, target, moving, silent, mail, encoder_dead, pc,
                 angle, cycles_since_command, acceleration, velocity, stale>>
  /\ UNCHANGED <<hostVars, controller>>

-------------------------------------------------------------------------------
(* The firmware, with a driver whose calls succeed. *)
outside == <<hostVars, controller, link>>

\* Only a sample that the loop waits for makes a difference.
EncoderSample == pc = "encoder" /\ ~mail /\ Firmware!EncoderSample /\ UNCHANGED outside
DriverStep == Firmware!DriverStep /\ UNCHANGED outside

Turn ==
  \/ Firmware!ReadPosition /\ angle' = position - Home
  \/ Firmware!WaitEncoder
  \/ Firmware!Watchdog
  \/ Firmware!Integrate
  \/ Firmware!InDrive /\ (Firmware!StopStepper \/ Firmware!Retarget(position))

Loop == Turn /\ UNCHANGED outside

Next ==
  \/ HostLifeCycle \/ ControllerStarts \/ ControllerStops \/ HostCrashes
  \/ Read \/ Update \/ Write \/ Deliver
  \/ EncoderSample \/ DriverStep \/ Loop

(* The firmware's threads run, and a driver that is given moves again and   *)
(* again steps.  Of the host and of the network nothing is assumed: a       *)
(* message may be lost, or stay away for ever.                              *)
Fairness == WF_vars(Loop) /\ WF_vars(EncoderSample) /\ SF_vars(DriverStep)

Spec == Init /\ [][Next]_vars
FairSpec == Spec /\ Fairness

-------------------------------------------------------------------------------
(* The loop integrates whatever arrives, and NaN would stick to its         *)
(* velocity.  The controllers may command NaN, and hw_commands_ starts as   *)
(* NaN: that the loop never computes with it rests on on_activate and       *)
(* write() of the host alone.                                               *)
LoopGetsNumbers == inbox # NaN /\ acceleration # NaN /\ velocity # NaN

(* With no controller any more, whether it was deactivated (the interface   *)
(* zeroed or not), the component with it, or the host crashed, the stepper  *)
(* stands in the end, although write() goes on with the last acceleration   *)
(* and the watchdog sees commands: the hard stop of the loop ends the move. *)
Stands == Firmware!Stops /\ Firmware!AtRest
StandsWithoutController == <>[]~controller => <>[]Stands

(* The inductive invariant: a publisher exists only after on_activate has   *)
(* made numbers of hw_commands_, and nothing but a number is under way.     *)
CommandValues == [CommandFields -> Accelerations \cup {NaN}]
SendsNumbers ==
  /\ hw_commands \in CommandValues /\ command_if \in CommandValues
  /\ command_pub => hw_commands[Field] # NaN
  /\ life = "active" \/ cycle # "idle" => command_pub
  /\ {link, inbox} \subseteq Accelerations \cup {Nothing}
  /\ ~silent
SystemInv == SendsNumbers /\ LoopGetsNumbers
===============================================================================
