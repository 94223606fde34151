---------------------------- MODULE PendulumTier1 ----------------------------
(***************************************************************************)
(* The control loop of inverted_pendulum_tier1/src/main.cpp and the part   *)
(* of ZenbeddedClient it runs against: the read task stores a command and  *)
(* then increments accepted_command_count; the loop samples the counter,   *)
(* reads the command when the counter has changed, and stops the stepper   *)
(* when it has not changed for kCommandTimeoutCycles cycles.  Nothing else *)
(* tells a stalled host from a quiet one.                                  *)
(***************************************************************************)
EXTENDS Naturals

CONSTANTS
  Velocities,     \* commands the stepper can follow
  Zero,           \* velocity 0.0
  Bad,            \* a command that is not finite or out of the stepper's range
  Timeout,        \* kCommandTimeoutCycles
  CountModulus    \* 2^32: accepted_command_count is a uint32_t

ASSUME Tier1Assumption ==
  /\ Timeout \in Nat
  /\ CountModulus \in Nat \ {0, 1}
  /\ Zero \notin Velocities /\ Bad \notin Velocities /\ Zero # Bad

Commands == Velocities \cup {Zero, Bad}

VARIABLES
  buffer,              \* the command in cmd_buffer_
  accepted,            \* cmd_accepted_count_
  hpc,                 \* read task: "idle", or "count" after the buffer write
  silent,              \* the host or the link is gone for good
  pc,                  \* the loop: "sleep", "decide", "read", "drive"
  command_count,       \* the counter as sampled in this cycle
  last_command_count,
  cycles_since_command,
  velocity,            \* stepper_angular_velocity
  motion,              \* the stepper: "stopped" or "moving"
  burst,               \* history: commands counted since the last sample
  stale,               \* history: samples in a row without a new command
  heard                \* history: some sample has found a new command

loopVars == <<command_count, last_command_count, cycles_since_command, velocity>>
hostVars == <<buffer, accepted, hpc, silent>>
historyVars == <<burst, stale, heard>>
vars == <<hostVars, pc, loopVars, motion, historyVars>>

\* The history stops counting where it no longer matters.
StaleCap == Timeout + 2

TypeOK ==
  /\ buffer \in Commands
  /\ accepted \in 0..(CountModulus - 1)
  /\ hpc \in {"idle", "count"}
  /\ silent \in BOOLEAN
  /\ pc \in {"sleep", "decide", "read", "drive"}
  /\ command_count \in 0..(CountModulus - 1)
  /\ last_command_count \in 0..(CountModulus - 1)
  /\ cycles_since_command \in 0..Timeout
  /\ velocity \in Commands
  /\ motion \in {"stopped", "moving"}
  /\ burst \in 0..(CountModulus - 1)
  /\ stale \in 0..StaleCap
  /\ heard \in BOOLEAN

\* Commands may have arrived between client.init() and the loop: they are
\* in the buffer and in last_command_count, and no turn will read them.
Init ==
  /\ buffer \in Commands
  /\ accepted \in 0..(CountModulus - 1)
  /\ hpc \in {"idle", "count"}
  /\ silent = FALSE
  /\ pc = "sleep"
  /\ command_count = accepted
  /\ last_command_count = accepted
  /\ cycles_since_command = 0
  /\ velocity = Zero
  /\ motion = "stopped"
  /\ burst = 0
  /\ stale = 0
  /\ heard = FALSE

-------------------------------------------------------------------------------
(* The read task, write_command_to_buffer. *)
StoreCommand ==
  /\ hpc = "idle" /\ ~silent
  /\ burst < CountModulus - 1   \* fewer than 2^32 commands in one cycle
  /\ \E v \in Commands : buffer' = v
  /\ hpc' = "count"
  /\ UNCHANGED <<accepted, silent, pc, loopVars, motion, historyVars>>

Successor(n) == IF n + 1 = CountModulus THEN 0 ELSE n + 1

CountCommand ==
  /\ hpc = "count"
  /\ accepted' = Successor(accepted)
  /\ burst' = burst + 1
  /\ hpc' = "idle"
  /\ UNCHANGED <<buffer, silent, pc, loopVars, motion, stale, heard>>

HostGone ==
  /\ ~silent
  /\ silent' = TRUE
  /\ UNCHANGED <<buffer, accepted, hpc, pc, loopVars, motion, historyVars>>

-------------------------------------------------------------------------------
(* One turn of the loop, from the k_sleep of the last one. *)
SampleCount ==
  /\ pc = "sleep"
  /\ pc' = "decide"
  /\ command_count' = accepted
  /\ stale' = IF burst # 0 THEN 0 ELSE IF stale = StaleCap THEN stale ELSE stale + 1
  /\ burst' = 0
  /\ heard' = (heard \/ burst # 0)
  /\ UNCHANGED <<hostVars, last_command_count, cycles_since_command, velocity, motion>>

NewCommand ==
  /\ command_count # last_command_count
  /\ pc' = "read"
  /\ last_command_count' = command_count
  /\ cycles_since_command' = 0
  /\ UNCHANGED velocity

Waiting ==
  /\ command_count = last_command_count
  /\ cycles_since_command < Timeout
  /\ pc' = "drive"
  /\ cycles_since_command' = cycles_since_command + 1
  /\ UNCHANGED <<last_command_count, velocity>>

TimedOut ==
  /\ command_count = last_command_count
  /\ cycles_since_command >= Timeout
  /\ pc' = "drive"
  /\ velocity' = Zero
  /\ UNCHANGED <<last_command_count, cycles_since_command>>

InDecide ==
  /\ pc = "decide"
  /\ UNCHANGED <<hostVars, command_count, motion, historyVars>>

\* Faulty variant: no watchdog.
DecideNoWatchdog ==
  InDecide /\ (NewCommand \/ Waiting \/ (TimedOut /\ velocity = Zero)
               \/ (/\ command_count = last_command_count /\ cycles_since_command >= Timeout
                   /\ pc' = "drive"
                   /\ UNCHANGED <<last_command_count, cycles_since_command, velocity>>))
Decide == InDecide /\ (NewCommand \/ Waiting \/ TimedOut)

\* read_command: the buffer as it is now, maybe newer than what was counted.
ReadCommand ==
  /\ pc = "read"
  /\ pc' = "drive"
  /\ velocity' = buffer
  /\ UNCHANGED <<hostVars, command_count, last_command_count, cycles_since_command, motion,
                 historyVars>>

\* set_stepper_angular_vel: every driver call may fail, which leaves the
\* stepper as it was until the next cycle calls again.
StopStepper == velocity \in {Zero, Bad} /\ motion' = "stopped"
RunStepper == velocity \in Velocities /\ motion' = "moving"
DriverFails == UNCHANGED motion

EndOfTurn ==
  /\ pc = "drive"
  /\ pc' = "sleep"

\* Faulty variants: the counter is read again at the end of the turn; a zero
\* velocity is not sent to the driver.
DriveResamples ==
  /\ EndOfTurn
  /\ StopStepper \/ RunStepper \/ DriverFails
  /\ last_command_count' = accepted
  /\ UNCHANGED <<hostVars, command_count, cycles_since_command, velocity, historyVars>>
DriveSkipsZero ==
  /\ EndOfTurn
  /\ IF velocity = Zero THEN UNCHANGED motion ELSE StopStepper \/ RunStepper \/ DriverFails
  /\ UNCHANGED <<hostVars, loopVars, historyVars>>

Drive ==
  /\ EndOfTurn
  /\ StopStepper \/ RunStepper \/ DriverFails
  /\ UNCHANGED <<hostVars, loopVars, historyVars>>

Loop == SampleCount \/ Decide \/ ReadCommand \/ Drive
Next == StoreCommand \/ CountCommand \/ HostGone \/ Loop

(* The loop and the read task are scheduled; a driver that is told to stop  *)
(* again and again does it in the end.                                      *)
Fairness ==
  /\ WF_vars(Loop)
  /\ WF_vars(CountCommand)
  /\ SF_vars(Drive /\ StopStepper)

Spec == Init /\ [][Next]_vars
FairSpec == Spec /\ Fairness

-------------------------------------------------------------------------------
(* "A stale command must stop the stepper rather than latch the last        *)
(* velocity forever": after more than kCommandTimeoutCycles samples without *)
(* a new command the commanded velocity is zero, whatever the counter       *)
(* wrapped through.                                                         *)
StaleCommandStops == pc = "sleep" /\ stale > Timeout => velocity = Zero

(* Conversely the watchdog does not fire early: from the first new command  *)
(* on, while the last one is no older than the timeout, the loop follows    *)
(* the newest stored one, unless a newer one is on its way to being counted.*)
NewestCommandFollowed ==
  heard /\ pc = "sleep" /\ stale <= Timeout /\ burst = 0 /\ hpc = "idle" => velocity = buffer

(* When the host is gone for good the stepper stops, and for good.          *)
StopsWithoutHost == silent ~> [](motion = "stopped")

(* The inductive invariant behind the first two.  The counter is ahead of   *)
(* the loop's copy by burst, modulo 2^32; cycles_since_command is stale up  *)
(* to its limit.                                                            *)
CountAhead(from) ==
  accepted = IF from + burst < CountModulus THEN from + burst ELSE from + burst - CountModulus
Counters ==
  /\ pc = "decide" => CountAhead(command_count)
  /\ pc = "decide" => (command_count # last_command_count <=> stale = 0)
  /\ pc # "decide" => CountAhead(last_command_count)
  /\ hpc = "count" => burst < CountModulus - 1
Behind == IF pc = "decide" THEN stale - 1 ELSE stale
Staleness ==
  /\ pc = "read" => stale = 0
  /\ pc # "decide" \/ stale # 0 =>
       cycles_since_command = IF Behind < Timeout THEN Behind ELSE Timeout
  /\ Behind > Timeout => velocity = Zero
Followed ==
  /\ heard /\ stale <= Timeout /\ burst = 0 /\ hpc = "idle"
  /\ pc \in {"drive", "sleep"} \/ (pc = "decide" /\ stale # 0)
  => velocity = buffer
Tier1Inv == TypeOK /\ Counters /\ Staleness /\ Followed
===============================================================================
