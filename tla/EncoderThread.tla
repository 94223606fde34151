---------------------------- MODULE EncoderThread ----------------------------
(***************************************************************************)
(* The sampling thread of inverted_pendulum_tier2/src/main.cpp and the     *)
(* mailbox, a message queue of one entry, through which it feeds the       *)
(* control loop.  It calibrates, then reads the sensor every period,       *)
(* derives a filtered velocity from the time between two readings, and     *)
(* replaces what the loop has not fetched.                                 *)
(*                                                                         *)
(* Time is a 32-bit cycle counter; k_cyc_to_us_floor32 turns it into       *)
(* microseconds, so these jump back to zero when the counter wraps.  Of a  *)
(* sample only its age matters: how many readings are newer than it.       *)
(***************************************************************************)
EXTENDS Integers

CONSTANTS
  Word,         \* 2^32, the modulus of cycles and of uint32_t
  CyclesPerUs,  \* of the hardware clock
  PeriodUs,     \* kEncoderSamplePeriodUs
  OverrunUs,    \* the 200 us of a turn that took longer than the period
  ReadCycles,   \* how long a reading may take
  Empty         \* nothing in the mailbox

EncoderAssumption ==
  /\ Word \in Nat \ {0} /\ CyclesPerUs \in Nat \ {0}
  /\ PeriodUs \in Nat \ {0} /\ OverrunUs \in Nat \ {0}
  /\ ReadCycles \subseteq Nat \ {0} /\ Empty \notin Int

VARIABLES
  cycle,           \* k_cycle_get_32
  gap,             \* history: cycles since the last good reading, up to Word
  thread,          \* the sampling thread's program counter
  loop_start_us, prev_time_us, have_prev, signaled_ready,
  dt, dt_gap,      \* the interval of the last velocity, and the real one
  mailbox,         \* encoder_state_msgq: the age of its sample
  g_pendulum_ready,
  main             \* waiting for the semaphore, for a sample, or at work

clockVars == <<cycle, gap>>
sampleVars == <<prev_time_us, have_prev, signaled_ready, dt, dt_gap>>
vars == <<clockVars, thread, loop_start_us, sampleVars, mailbox, g_pendulum_ready, main>>

k_cyc_to_us_floor32(c) == c \div CyclesPerUs
Minus(a, b) == (a - b) % Word
Now == k_cyc_to_us_floor32(cycle)
CapGap(g) == IF g < Word THEN g ELSE Word

TypeOK ==
  /\ cycle \in 0..(Word - 1) /\ gap \in 0..Word
  /\ thread \in {"calibrate", "turn", "read", "put", "drop", "sleep"}
  /\ {loop_start_us, prev_time_us, dt} \subseteq 0..(Word - 1) /\ dt_gap \in 0..Word
  /\ {have_prev, signaled_ready, g_pendulum_ready} \subseteq BOOLEAN
  /\ mailbox \in {Empty, 0, 1, 2}
  /\ main \in {"start", "get", "pending", "work"}

Init ==
  /\ cycle \in 0..(Word - 1) /\ gap = 0
  /\ thread = "calibrate"
  /\ loop_start_us = 0 /\ prev_time_us = 0
  /\ have_prev = FALSE /\ signaled_ready = FALSE
  /\ dt = 0 /\ dt_gap = 0
  /\ mailbox = Empty /\ g_pendulum_ready = FALSE
  /\ main = "start"

Pass(n) == cycle' = (cycle + n) % Word /\ gap' = CapGap(gap + n)

-------------------------------------------------------------------------------
(* encoder_sample_thread_entry *)

\* get_encoder_angle_deg until it succeeds; the sleep between two attempts
\* only moves the counter, which may be anywhere.
Calibrate ==
  /\ thread = "calibrate"
  /\ thread' = "turn"
  /\ prev_time_us' = Now
  /\ UNCHANGED <<clockVars, loop_start_us, have_prev, signaled_ready, dt, dt_gap,
                 mailbox, g_pendulum_ready, main>>

CalibrateFails ==
  /\ thread = "calibrate"
  /\ \E n \in ReadCycles : cycle' = (cycle + n) % Word
  /\ UNCHANGED <<gap, thread, loop_start_us, sampleVars, mailbox, g_pendulum_ready, main>>

TurnStarts ==
  /\ thread = "turn"
  /\ thread' = "read"
  /\ loop_start_us' = Now
  /\ UNCHANGED <<clockVars, sampleVars, mailbox, g_pendulum_ready, main>>

\* Faulty variant: the time moves on although the angle does not.
ReadFailsTimed ==
  /\ thread = "read"
  /\ thread' = "sleep"
  /\ \E n \in ReadCycles : Pass(n)
  /\ prev_time_us' = k_cyc_to_us_floor32(cycle')
  /\ UNCHANGED <<loop_start_us, have_prev, signaled_ready, dt, dt_gap,
                 mailbox, g_pendulum_ready, main>>

\* Faulty variant: a failed reading starts the pair of readings again.
ReadFailsForgets ==
  /\ thread = "read"
  /\ thread' = "sleep"
  /\ \E n \in ReadCycles : Pass(n)
  /\ have_prev' = FALSE
  /\ UNCHANGED <<loop_start_us, prev_time_us, signaled_ready, dt, dt_gap,
                 mailbox, g_pendulum_ready, main>>

ReadFails ==
  /\ thread = "read"
  /\ thread' = "sleep"
  /\ \E n \in ReadCycles : Pass(n)
  /\ UNCHANGED <<loop_start_us, sampleVars, mailbox, g_pendulum_ready, main>>

\* From the second reading on there is a velocity, and the loop may start.
ReadSensor ==
  /\ thread = "read"
  /\ thread' = "put"
  /\ \E n \in ReadCycles :
       LET real == CapGap(gap + n)
           now_us == k_cyc_to_us_floor32(cycle')
           interval == Minus(now_us, prev_time_us) IN
       /\ cycle' = (cycle + n) % Word /\ gap' = 0
       /\ prev_time_us' = now_us
       /\ IF have_prev /\ interval > 0
          THEN /\ dt' = interval /\ dt_gap' = real
               /\ signaled_ready' = TRUE
               /\ g_pendulum_ready' = (g_pendulum_ready \/ ~signaled_ready)
          ELSE UNCHANGED <<dt, dt_gap, signaled_ready, g_pendulum_ready>>
  /\ have_prev' = TRUE
  /\ mailbox' = IF mailbox \in {0, 1} THEN mailbox + 1 ELSE mailbox
  /\ UNCHANGED <<loop_start_us, main>>

\* k_msgq_put hands a sample to a thread that waits for one.
PutEmpty ==
  /\ thread = "put"
  /\ mailbox = Empty
  /\ IF main = "pending" THEN main' = "work" /\ UNCHANGED mailbox
                         ELSE mailbox' = 0 /\ UNCHANGED main
  /\ thread' = "sleep"

PutFull ==
  /\ thread = "put"
  /\ mailbox # Empty
  /\ UNCHANGED <<mailbox, main>>

PutSame == UNCHANGED <<clockVars, loop_start_us, sampleVars, g_pendulum_ready>>

\* Faulty variant: a sample that finds the mailbox full is thrown away.
PutOrForget == (PutEmpty \/ (PutFull /\ thread' = "sleep")) /\ PutSame

\* k_msgq_put without waiting; when it fails the old sample is to go.
Put == (PutEmpty \/ (PutFull /\ thread' = "drop")) /\ PutSame

\* k_msgq_get into dummy; the loop may have been faster.
DropOld ==
  /\ thread = "drop"
  /\ thread' = "put"
  /\ mailbox' = Empty
  /\ UNCHANGED <<clockVars, loop_start_us, sampleVars, g_pendulum_ready, main>>

SleepUs(elapsed_us) == IF elapsed_us < PeriodUs THEN PeriodUs - elapsed_us ELSE OverrunUs

Sleep ==
  /\ thread = "sleep"
  /\ thread' = "turn"
  /\ Pass(SleepUs(Minus(Now, loop_start_us)) * CyclesPerUs)
  /\ UNCHANGED <<loop_start_us, sampleVars, mailbox, g_pendulum_ready, main>>

-------------------------------------------------------------------------------
(* main: k_sem_take and k_msgq_get, both K_FOREVER. *)
TakeReady ==
  /\ main = "start" /\ g_pendulum_ready
  /\ g_pendulum_ready' = FALSE
  /\ main' = "get"
  /\ UNCHANGED <<clockVars, thread, loop_start_us, sampleVars, mailbox>>

TakeSample ==
  /\ main = "get"
  /\ mailbox' = Empty
  /\ main' = IF mailbox = Empty THEN "pending" ELSE "work"
  /\ UNCHANGED <<clockVars, thread, loop_start_us, sampleVars, g_pendulum_ready>>

NextCycle ==
  /\ main = "work"
  /\ main' = "get"
  /\ UNCHANGED <<clockVars, thread, loop_start_us, sampleVars, mailbox, g_pendulum_ready>>

Thread ==
  \/ Calibrate \/ CalibrateFails \/ TurnStarts \/ ReadFails \/ ReadSensor
  \/ Put \/ DropOld \/ Sleep
Main == TakeReady \/ TakeSample \/ NextCycle
Next == Thread \/ Main

(* Both threads run.  A connected sensor answers now and then, and not only *)
(* at times that are whole wraps of the counter apart.                      *)
Fairness ==
  /\ WF_vars(Thread) /\ WF_vars(Main)
  /\ SF_vars(Calibrate) /\ SF_vars(ReadSensor /\ prev_time_us' # prev_time_us)

Spec == Init /\ [][Next]_vars
FairSpec == Spec /\ Fairness

-------------------------------------------------------------------------------
(* What the loop can fetch is the newest reading, or the one before it      *)
(* while the thread is about to replace it, however the thread's emptying   *)
(* of the queue and the loop's get interleave.                              *)
MailboxFresh == mailbox # Empty => mailbox = 0 \/ (mailbox = 1 /\ thread \in {"put", "drop"})

(* The interval by which an angle difference is divided is never shorter    *)
(* than the real one (as long as the sensor answers once per wrap of the    *)
(* cycle counter), after failed readings and over a wrap too: an interval   *)
(* that is too short would turn into a velocity that the pendulum never     *)
(* had.  At a wrap it is too long, and the velocity collapses.              *)
DtNeverShort == dt_gap < Word => dt >= dt_gap \div CyclesPerUs

(* The control loop, and with it the watchdog, is never starved of samples  *)
(* by a sensor that answers now and then.                                   *)
LoopFed == main # "work" ~> main = "work"

(* The inductive invariant: the time kept for the last good reading is that *)
(* of the counter at that reading, unless a wrap has passed since.          *)
ReadingTimed ==
  /\ thread = "calibrate" => gap = 0
  /\ thread # "calibrate" /\ gap < Word =>
       prev_time_us = k_cyc_to_us_floor32((cycle - gap) % Word)
EncoderInv == TypeOK /\ ReadingTimed /\ MailboxFresh /\ DtNeverShort
===============================================================================
