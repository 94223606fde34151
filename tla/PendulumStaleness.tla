-------------------------- MODULE PendulumStaleness --------------------------
(* PendulumSystem with the time, in turns of the loop, for which no         *)
(* controller has been active and no message under way.                     *)
EXTENDS PendulumSystem

VARIABLE uncommanded  \* history: turns in a row, the one of the last message included

Idle == ~controller /\ link = Nothing

OneTurn ==
  /\ Loop
  /\ uncommanded' = IF pc # "command" THEN uncommanded
                    ELSE IF ~Idle THEN 0
                    ELSE IF uncommanded > Timeout + 1 THEN uncommanded
                    ELSE uncommanded + 1
Other ==
  /\ \/ HostLifeCycle \/ ControllerStarts \/ ControllerStops \/ HostCrashes
     \/ Read \/ Update \/ Write \/ Deliver \/ EncoderSample \/ DriverStep
  /\ uncommanded' = IF controller THEN 0 ELSE uncommanded

AgedSpec == Init /\ uncommanded = 0 /\ [][OneTurn \/ Other]_<<vars, uncommanded>>

(* main.cpp:60 "A stale command must stop the stepper rather than latch the *)
(* last velocity forever.": when the last command of a controller is older  *)
(* than the watchdog's time, the loop does not drive the stepper.           *)
NoLatchedVelocity ==
  pc \in {"drive", "position"} /\ uncommanded > Timeout + 1 => Firmware!Stops
===============================================================================
