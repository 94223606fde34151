--------------------------- MODULE MCPendulumTier2 ---------------------------
(* PendulumTier2 for TLC: a travel of one microstep each way around a home  *)
(* that is not 0, targets that would overshoot it, a timeout of two turns.  *)
(* In behaviours of their own the thread and the mailbox of EncoderThread,  *)
(* with a counter that wraps every few turns and readings shorter and       *)
(* longer than the period.  The two share no state; part says which of them *)
(* a behaviour is about, the other one does not start.                      *)
EXTENDS PendulumTier2

CONSTANTS Word, CyclesPerUs, PeriodUs, OverrunUs, ReadCycles, Empty

MCAccelerations == {-2, 1}
MCReadCycles == {1, 8}

VARIABLES
  part,
  cycle, gap, thread, loop_start_us, prev_time_us, have_prev, signaled_ready,
  dt, dt_gap, mailbox, g_pendulum_ready, main   \* of EncoderThread

Encoder == INSTANCE EncoderThread
encoderVars == <<cycle, gap, thread, loop_start_us, prev_time_us, have_prev,
                 signaled_ready, dt, dt_gap, mailbox, g_pendulum_ready, main>>
allVars == <<part, vars, encoderVars>>

ASSUME EncoderAssumed == Encoder!EncoderAssumption

MCInit ==
  /\ Init /\ Encoder!Init
  /\ part \in {"loop", "encoder"}
  /\ part = "loop" => cycle = 0
OfLoop(A) == part = "loop" /\ A /\ UNCHANGED <<part, encoderVars>>
OfEncoder(A) == part = "encoder" /\ A /\ UNCHANGED <<part, vars>>
MCNext == OfLoop(Next) \/ OfEncoder(Encoder!Next)

\* The fairness of the two modules, each in its own behaviours.
MCFairness ==
  /\ WF_allVars(OfLoop(Loop)) /\ WF_allVars(OfLoop(EncoderSample))
  /\ WF_allVars(OfLoop(DriverStep))
  /\ WF_allVars(OfEncoder(Encoder!Thread)) /\ WF_allVars(OfEncoder(Encoder!Main))
  /\ SF_allVars(OfEncoder(Encoder!Calibrate))
  /\ SF_allVars(OfEncoder(Encoder!ReadSensor /\ prev_time_us' # prev_time_us))
MCSpec == MCInit /\ [][MCNext]_allVars /\ MCFairness

(* The mailbox holds the newest reading, see EncoderThread. *)
MailboxFresh == Encoder!MailboxFresh

(* The velocity is never taken over too short a time, see EncoderThread. *)
DtNeverShort == Encoder!DtNeverShort

(* The loop gets samples for ever, see EncoderThread. *)
LoopFed == part = "encoder" => Encoder!LoopFed
===============================================================================
