--------------------------- MODULE MCPendulumSystem ---------------------------
(* PendulumSystem for TLC, around the loop of PendulumTier2: one field in   *)
(* each direction, no state message, a travel of two microsteps each way, a *)
(* watchdog of one turn.  The cycle of the host is host_cycle here, as that *)
(* of the encoder's counter is cycle where the two are proved about.        *)
EXTENDS PendulumTier2

CONSTANTS StateFields, CommandFields, MaxSample, Field   \* of PendulumSystem

VARIABLES
  life, session, state_sub, command_pub, hw_states, hw_commands, command_if,
  state_buffer, box_lock, callback, host_cycle, copied, sent, wire,
  controller, link   \* of PendulumSystem, next to those of the loop

System == INSTANCE PendulumSystem WITH cycle <- host_cycle

ASSUME SystemAssumed == System!SystemAssumption

FairSystem == System!FairSpec

(* No NaN reaches the loop, see PendulumSystem. *)
LoopGetsNumbers == System!LoopGetsNumbers

(* Without a controller the stepper stands in the end, see PendulumSystem. *)
StandsWithoutController == System!StandsWithoutController
===============================================================================
