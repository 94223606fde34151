------------------------- MODULE PendulumTier2Proofs -------------------------
(***************************************************************************)
(* The travel limits and the watchdog of the Tier 2 loop, for every limit, *)
(* projection, timeout and set of accelerations; in a second part the      *)
(* mailbox and the times of the sampling thread that feeds the loop, for   *)
(* every clock and period; in a third part the loop at the end of          *)
(* PendulumSystem, with the host, the network and the controller.          *)
(***************************************************************************)
EXTENDS MCPendulumTier2, MCPendulumSystem, TLAPS

LEMMA ClampRange ==
  ASSUME NEW x \in Int, NEW lo \in Int, NEW hi \in Int, lo <= hi
  PROVE  Clamp(x, lo, hi) \in lo..hi
  BY DEF Clamp

LEMMA TravelType ==
  /\ stepper_min_position \in Int /\ stepper_max_position \in Int
  /\ stepper_min_position <= stepper_max_position
  /\ Home \in Travel
  BY Tier2Assumption DEF stepper_min_position, stepper_max_position, Travel

LEMMA IntegratedType == TypeOK => Integrated \in (-MaxVelocity..MaxVelocity) \cup {NaN}
  <1> SUFFICES ASSUME TypeOK, NaN \notin {acceleration, velocity}
               PROVE  Integrated \in (-MaxVelocity..MaxVelocity) \cup {NaN}
    BY DEF Integrated
  <1>1. velocity + acceleration \in Int
    BY Tier2Assumption DEF TypeOK
  <1> DEFINE lo == -MaxVelocity
             sum == velocity + acceleration
  <1>2. lo \in Int /\ MaxVelocity \in Int /\ lo <= MaxVelocity
    BY Tier2Assumption
  <1> HIDE DEF lo, sum
  <1>3. Clamp(sum, lo, MaxVelocity) \in lo..MaxVelocity
    BY <1>1, <1>2, ClampRange DEF sum
  <1> QED
    BY <1>3 DEF Integrated, lo, sum

LEMMA InitTier2Inv == Init => Tier2Inv
  <1> SUFFICES ASSUME Init PROVE Tier2Inv
    OBVIOUS
  <1>1. TypeOK
    <2>1. velocity \in -MaxVelocity..MaxVelocity /\ cycles_since_command \in 0..Timeout
          /\ stale \in 0..(Timeout + 1)
      BY Tier2Assumption DEF Init
    <2>2. position \in Int /\ target \in Int /\ angle \in Int
      BY Tier2Assumption DEF Init
    <2>3. inbox \in Accelerations \cup {NaN, Nothing} /\ acceleration \in Accelerations \cup {0, NaN}
      BY DEF Init
    <2>4. pc \in {"position", "encoder", "command", "integrate", "drive"}
      BY DEF Init
    <2>5. moving \in BOOLEAN /\ silent \in BOOLEAN /\ mail \in BOOLEAN /\ encoder_dead \in BOOLEAN
      BY DEF Init
    <2> QED
      BY <2>1, <2>2, <2>3, <2>4, <2>5 DEF TypeOK
  <1>2. WithinTravel /\ target \in Travel
    BY TravelType DEF Init, WithinTravel
  <1> QED
    BY <1>1, <1>2, Tier2Assumption DEF Init, Tier2Inv

LEMMA PeerStep ==
  ASSUME Tier2Inv, CommandArrives \/ HostGone \/ EncoderSample \/ EncoderDies
  PROVE  Tier2Inv'
  BY DEF Tier2Inv, CommandArrives, HostGone, EncoderSample, EncoderDies, driverVars, controlVars,
     TypeOK, WithinTravel

LEMMA DriverMoves ==
  ASSUME Tier2Inv, DriverStep
  PROVE  Tier2Inv'
  <1> USE DEF Tier2Inv, DriverStep, peerVars, controlVars
  <1>0. /\ position \in Int /\ target \in Int
        /\ stepper_min_position <= position /\ position <= stepper_max_position
        /\ stepper_min_position <= target /\ target <= stepper_max_position
    BY TravelType DEF WithinTravel, Travel
  <1>1. position' \in Travel
    <2>1. CASE position # target /\ position' = IF position < target THEN position + 1
                                                                    ELSE position - 1
      BY <1>0, <2>1, TravelType DEF Travel
    <2>2. CASE UNCHANGED position
      BY <1>0, <2>2, TravelType DEF Travel
    <2> QED
      BY <2>1, <2>2
  <1>2. TypeOK'
    <2>1. position' \in Int
      BY <1>1, TravelType DEF Travel
    <2>2. moving' \in BOOLEAN
      BY DEF TypeOK
    <2> QED
      BY <2>1, <2>2 DEF TypeOK
  <1> QED
    BY <1>1, <1>2 DEF WithinTravel

LEMMA WatchdogStep ==
  ASSUME Tier2Inv, Watchdog
  PROVE  Tier2Inv'
  <1> USE Tier2Assumption DEF Tier2Inv, InWatchdog, driverVars
  <1>0. InWatchdog
    BY DEF Watchdog
  <1>1. WithinTravel' /\ (target \in Travel)'
    BY <1>0 DEF WithinTravel
  <1>2. CASE NewCommand
    <2>1. TypeOK'
      BY <1>0, <1>2 DEF NewCommand, TypeOK
    <2> QED
      BY <1>1, <1>2, <2>1 DEF NewCommand
  <1>3. CASE Waiting
    <2>1. TypeOK'
      BY <1>0, <1>3 DEF Waiting, NoCommand, TypeOK
    <2> QED
      BY <1>1, <1>3, <2>1 DEF Waiting, NoCommand, TypeOK
  <1>4. CASE TimedOut
    <2>1. velocity' \in -MaxVelocity..MaxVelocity /\ stale' \in 0..(Timeout + 1)
      BY <1>4 DEF TimedOut, NoCommand, TypeOK
    <2>2. TypeOK'
      BY <1>0, <1>4, <2>1 DEF TimedOut, NoCommand, TypeOK
    <2> QED
      BY <1>1, <1>4, <2>2 DEF TimedOut, NoCommand, TypeOK
  <1> QED
    BY <1>2, <1>3, <1>4 DEF Watchdog

LEMMA IntegrateStep ==
  ASSUME Tier2Inv, Integrate
  PROVE  Tier2Inv'
  <1> USE Tier2Assumption DEF Tier2Inv, Integrate, IntegrateTo, driverVars, peerVars
  <1>1. velocity' \in {0, Integrated}
    OBVIOUS
  <1>2. velocity' \in (-MaxVelocity..MaxVelocity) \cup {NaN}
    BY <1>1, IntegratedType
  <1>3. TypeOK'
    BY <1>2 DEF TypeOK
  <1>4. stale' > Timeout => acceleration' = 0 /\ velocity' = 0
    <2> SUFFICES ASSUME stale > Timeout PROVE acceleration = 0 /\ velocity' = 0
      OBVIOUS
    <2>1. Integrated = 0
      BY DEF Integrated, Clamp
    <2> QED
      BY <1>1, <2>1
  <1> QED
    BY <1>3, <1>4 DEF WithinTravel

LEMMA OtherLoopStep ==
  ASSUME Tier2Inv, ReadPosition \/ WaitEncoder
  PROVE  Tier2Inv'
  <1> USE Tier2Assumption DEF Tier2Inv, driverVars, peerVars, controlVars
  <1>1. CASE ReadPosition
    <2>1. angle' \in Int
      BY <1>1 DEF ReadPosition, TypeOK
    <2> QED
      BY <1>1, <2>1 DEF ReadPosition, TypeOK, WithinTravel
  <1>2. CASE WaitEncoder
    BY <1>2 DEF WaitEncoder, TypeOK, WithinTravel
  <1> QED
    BY <1>1, <1>2

LEMMA DriveStep ==
  ASSUME Tier2Inv, Drive
  PROVE  Tier2Inv'
  <1> USE Tier2Assumption DEF Tier2Inv, InDrive, peerVars, controlVars
  <1>0. InDrive
    BY DEF Drive
  <1>1. ASSUME NEW base \in Int, Retarget(base)
        PROVE  target' \in Travel /\ moving' \in BOOLEAN
    <2>1. velocity \in Int
      BY <1>1 DEF Retarget, Stops
    <2> DEFINE ahead == base + velocity * Projection
    <2>2. ahead \in Int
      <3>1. velocity * Projection \in Int
        BY <2>1
      <3> QED
        BY <3>1, <1>1
    <2>3. target' = Clamp(ahead, stepper_min_position, stepper_max_position) /\ moving' = TRUE
      BY <1>1 DEF Retarget
    <2> HIDE DEF ahead
    <2> QED
      BY <2>2, <2>3, ClampRange, TravelType DEF Travel
  <1>2. target' \in Travel /\ moving' \in BOOLEAN
    <2>1. position \in Int /\ 0 \in Int
      BY DEF TypeOK
    <2>2. CASE StopStepper
      BY <2>2 DEF StopStepper
    <2>3. CASE DriverFails
      BY <2>3 DEF DriverFails, TypeOK
    <2>4. CASE Retarget(position) \/ Retarget(0)
      BY <1>1, <2>1, <2>4
    <2> QED
      BY <2>2, <2>3, <2>4 DEF Drive
  <1>3. TypeOK'
    BY <1>0, <1>2, TravelType DEF TypeOK, Travel
  <1> QED
    BY <1>0, <1>2, <1>3 DEF WithinTravel

LEMMA NextTier2Inv == Tier2Inv /\ [Next]_vars => Tier2Inv'
  <1>1. ASSUME Tier2Inv, UNCHANGED vars PROVE Tier2Inv'
    BY <1>1 DEF vars, driverVars, peerVars, controlVars, Tier2Inv, TypeOK, WithinTravel
  <1> QED
    BY <1>1, PeerStep, DriverMoves, WatchdogStep, IntegrateStep, OtherLoopStep, DriveStep
       DEF Next, Loop

(* Tier2Inv holds in every reachable state of the Tier 2 loop, whichever    *)
(* driver call fails and however the driver's steps and the loop interleave.*)
THEOREM Tier2Invariant == Spec => []Tier2Inv
  BY InitTier2Inv, NextTier2Inv, PTL DEF Spec

(* The stepper never leaves its travel limits, for every limit and every    *)
(* projection of the velocity.                                              *)
THEOREM TravelLimited == Spec => []WithinTravel
  <1>1. Tier2Inv => WithinTravel
    BY DEF Tier2Inv
  <1> QED
    BY <1>1, Tier2Invariant, PTL

(* After the timeout nothing of an old command is left, NaN included.       *)
THEOREM Tier2Watchdog == Spec => []StaleCommandStops
  <1>1. Tier2Inv => StaleCommandStops
    BY DEF Tier2Inv, StaleCommandStops
  <1> QED
    BY <1>1, Tier2Invariant, PTL

-------------------------------------------------------------------------------
(* Wrapping counters. *)

LEMMA Quotient ==
  ASSUME NEW a \in Nat, NEW k \in Nat \ {0}
  PROVE  a \div k \in Nat /\ k * (a \div k) <= a /\ a < k * (a \div k) + k
  OBVIOUS

LEMMA Cancel ==
  ASSUME NEW x \in Int, NEW y \in Int, NEW k \in Nat \ {0}, k * x < k * y
  PROVE  x < y
  OBVIOUS

LEMMA Remainder ==
  ASSUME NEW w \in Nat \ {0}, NEW a \in Int
  PROVE  /\ a % w \in 0..(w - 1)
         /\ a \in 0..(w - 1) => a % w = a
         /\ a \in w..(2 * w - 1) => a % w = a - w
         /\ a \in (-w)..(-1) => a % w = a + w
  <1>1. a % w \in 0..(w - 1)
    OBVIOUS
  <1>2. a \in 0..(w - 1) => a % w = a
    OBVIOUS
  <1>3. a \in w..(2 * w - 1) => a % w = a - w
    OBVIOUS
  <1>4. a \in (-w)..(-1) => a % w = a + w
    OBVIOUS
  <1> QED BY <1>1, <1>2, <1>3, <1>4

LEMMA QuotientShrinks ==
  ASSUME NEW w \in Nat \ {0}, NEW k \in Nat \ {0}, NEW a \in 0..(w - 1)
  PROVE  a \div k \in 0..(w - 1)
  <1> DEFINE q == a \div k
  <1>1. q \in Nat /\ k * q <= a
    BY Quotient
  <1> HIDE DEF q
  <1>2. q <= k * q
    BY <1>1
  <1>3. q \in 0..(w - 1)
    BY <1>1, <1>2
  <1> QED BY <1>3 DEF q

LEMMA SumsQuotient ==
  ASSUME NEW k \in Nat \ {0}, NEW a \in Nat, NEW d \in Nat
  PROVE  a \div k + d \div k <= (a + d) \div k
  <1> DEFINE A == a \div k
             D == d \div k
             S == (a + d) \div k
  <1>1. A \in Nat /\ k * A <= a
    BY Quotient
  <1>2. D \in Nat /\ k * D <= d
    BY Quotient
  <1>3. S \in Nat /\ a + d < k * S + k
    BY Quotient
  <1> HIDE DEF A, D, S
  <1>4. k * (A + D) = k * A + k * D /\ k * (S + 1) = k * S + k
    BY <1>1, <1>2, <1>3
  <1>5. k * (A + D) < k * (S + 1)
    BY <1>1, <1>2, <1>3, <1>4
  <1>6. A + D < S + 1
    BY <1>1, <1>2, <1>3, <1>5, Cancel
  <1>7. A + D <= S
    BY <1>1, <1>2, <1>3, <1>6
  <1> QED BY <1>7 DEF A, D, S

LEMMA QuotientGrows ==
  ASSUME NEW k \in Nat \ {0}, NEW a \in Nat, NEW d \in Nat
  PROVE  a \div k <= (a + d) \div k
  BY SumsQuotient, Quotient

LEMMA QuotientAdds ==
  ASSUME NEW k \in Nat \ {0}, NEW a \in Nat, NEW d \in Nat
  PROVE  (a + d) \div k <= a \div k + d
  <1> DEFINE A == a \div k
             S == (a + d) \div k
  <1>1. A \in Nat /\ a < k * A + k
    BY Quotient
  <1>2. S \in Nat /\ k * S <= a + d
    BY Quotient
  <1> HIDE DEF A, S
  <1>3. k * (A + d + 1) = k * A + k * d + k
    BY <1>1
  <1>4. d <= k * d
    OBVIOUS
  <1>5. k * S < k * (A + d + 1)
    BY <1>1, <1>2, <1>3, <1>4
  <1>6. S < A + d + 1
    BY <1>1, <1>2, <1>5, Cancel
  <1>7. S <= A + d
    BY <1>1, <1>2, <1>6
  <1> QED BY <1>7 DEF A, S

\* Between two readings of a counter, its distance survives a wrap.
LEMMA Shifted ==
  ASSUME NEW w \in Nat \ {0}, NEW c \in 0..(w - 1), NEW g \in Nat, NEW n \in Nat,
         g + n < w
  PROVE  /\ (((c + n) % w) - (g + n)) % w = (c - g) % w
         /\ (c + n) % w = (((c - g) % w) + (g + n)) % w
  <1> DEFINE b == (c - g) % w
             e == (c + n) % w
  <1>1. b = IF g <= c THEN c - g ELSE c - g + w
    <2> DEFINE x == c - g
    <2>1. x \in Int /\ (x \in 0..(w - 1) \/ x \in (-w)..(-1))
      OBVIOUS
    <2> HIDE DEF x
    <2>2. CASE x \in 0..(w - 1)
      <3>1. x % w = x
        BY <2>1, <2>2, Remainder
      <3> QED BY <2>2, <3>1 DEF x
    <2>3. CASE x \in (-w)..(-1)
      <3>1. x % w = x + w
        BY <2>1, <2>3, Remainder
      <3> QED BY <2>3, <3>1 DEF x
    <2> QED BY <2>1, <2>2, <2>3
  <1>2. e = IF c + n < w THEN c + n ELSE c + n - w
    <2> DEFINE x == c + n
    <2>1. x \in Int /\ (x \in 0..(w - 1) \/ x \in w..(2 * w - 1))
      OBVIOUS
    <2> HIDE DEF x
    <2>2. CASE x \in 0..(w - 1)
      <3>1. x % w = x
        BY <2>1, <2>2, Remainder
      <3> QED BY <2>2, <3>1 DEF x
    <2>3. CASE x \in w..(2 * w - 1)
      <3>1. x % w = x - w
        BY <2>1, <2>3, Remainder
      <3> QED BY <2>3, <3>1 DEF x
    <2> QED BY <2>1, <2>2, <2>3
  <1>3. b \in 0..(w - 1) /\ e \in 0..(w - 1)
    BY <1>1, <1>2
  <1> HIDE DEF b, e
  <1>4. (e - (g + n)) % w = b
    <2> DEFINE x == e - (g + n)
    <2>1. x \in Int /\ (x = b \/ x = b - w)
      BY <1>1, <1>2, <1>3
    <2> HIDE DEF x
    <2>2. x % w = b
      BY <1>3, <2>1, Remainder
    <2> QED BY <2>2 DEF x
  <1>5. (b + (g + n)) % w = e
    <2> DEFINE x == b + (g + n)
    <2>1. x \in Int /\ (x = e \/ x = e + w)
      BY <1>1, <1>2, <1>3
    <2> HIDE DEF x
    <2>2. x % w = e
      BY <1>3, <2>1, Remainder
    <2> QED BY <2>2 DEF x
  <1> QED BY <1>4, <1>5 DEF b, e

\* The time of a reading d cycles after one at c, if it comes out longer
\* than nothing, is no shorter than d.
LEMMA IntervalNotShort ==
  ASSUME NEW w \in Nat \ {0}, NEW k \in Nat \ {0}, NEW c \in 0..(w - 1), NEW d \in 0..(w - 1)
  PROVE  LET interval == (((c + d) % w) \div k - c \div k) % w
         IN  interval > 0 => interval >= d \div k
  <1> DEFINE e == (c + d) % w
             C == c \div k
             E == e \div k
             D == d \div k
  <1>1. C \in 0..(w - 1) /\ D \in 0..(w - 1)
    BY QuotientShrinks
  <1>2. CASE c + d < w
    <2>0. c + d \in Int /\ c + d \in 0..(w - 1)
      BY <1>2
    <2>1. e = c + d
      BY <2>0, Remainder
    <2>2. C + D <= E
      BY <2>1, SumsQuotient
    <2>3. E \in 0..(w - 1)
      <3>1. (c + d) \div k \in 0..(w - 1)
        BY <2>0, QuotientShrinks
      <3> QED BY <2>1, <3>1
    <2> HIDE DEF C, D, E
    <2>4. E - C \in Int /\ E - C \in 0..(w - 1) /\ E - C >= D
      BY <1>1, <2>2, <2>3
    <2>5. (E - C) % w = E - C
      BY <2>4, Remainder
    <2>6. (E - C) % w >= D
      BY <2>4, <2>5
    <2> QED BY <2>6 DEF C, D, E
  <1>3. CASE c + d >= w
    <2> DEFINE r == c + d - w
    <2>0. c + d \in Int /\ c + d \in w..(2 * w - 1)
      BY <1>3
    <2>1. e = r
      <3> DEFINE s == c + d
      <3>1. s \in Int /\ s \in w..(2 * w - 1)
        BY <2>0
      <3> HIDE DEF s
      <3>2. s % w = s - w
        BY <3>1, Remainder
      <3> QED BY <3>2 DEF s
    <2>2. r \in 0..(w - 1) /\ c - r \in Nat /\ c = r + (c - r) /\ c + d = r + w
      BY <1>3
    <2>3. E \in 0..(w - 1)
      BY <2>1, <2>2, QuotientShrinks
    <2>4. E <= C
      BY <2>1, <2>2, QuotientGrows
    <2>5. C + D <= (c + d) \div k
      BY SumsQuotient
    <2>6. (c + d) \div k <= E + w
      BY <2>1, <2>2, QuotientAdds
    <2>7. (c + d) \div k \in Nat
      BY Quotient
    <2> HIDE DEF C, D, E, r
    <2>8. C + D <= E + w
      BY <1>1, <2>3, <2>5, <2>6, <2>7
    <2>9. CASE E = C
      <3>1. (E - C) % w = 0
        BY <1>1, <2>9, Remainder
      <3> QED BY <3>1 DEF C, E
    <2>10. CASE E < C
      <3>1. E - C \in Int /\ E - C \in (-w)..(-1) /\ E - C + w >= D
        BY <1>1, <2>3, <2>8, <2>10
      <3>2. (E - C) % w = E - C + w
        BY <3>1, Remainder
      <3>3. (E - C) % w >= D
        BY <3>1, <3>2
      <3> QED BY <3>3 DEF C, D, E
    <2> QED BY <1>1, <2>3, <2>4, <2>9, <2>10
  <1> QED BY <1>2, <1>3

-------------------------------------------------------------------------------
(* The sampling thread. *)
LEMMA InitEncoderInv == Encoder!Init => Encoder!EncoderInv
  <1> SUFFICES ASSUME Encoder!Init PROVE Encoder!EncoderInv
    OBVIOUS
  <1> USE EncoderAssumed DEF Encoder!EncoderAssumption, Encoder!Init
  <1>1. Encoder!TypeOK
    <2>1. 0 \in 0..(Word - 1) /\ 0 \in 0..Word
      OBVIOUS
    <2> QED BY <2>1 DEF Encoder!TypeOK
  <1>2. Encoder!ReadingTimed
    BY DEF Encoder!ReadingTimed
  <1>3. Encoder!MailboxFresh
    BY DEF Encoder!MailboxFresh
  <1>4. Encoder!DtNeverShort
    <2>1. 0 \div CyclesPerUs = 0
      BY Quotient
    <2> QED BY <2>1 DEF Encoder!DtNeverShort
  <1> QED BY <1>1, <1>2, <1>3, <1>4 DEF Encoder!EncoderInv

LEMMA CounterShifted ==
  ASSUME Word \in Nat \ {0}, cycle \in 0..(Word - 1), gap \in Nat, NEW n \in Nat, gap + n < Word
  PROVE  /\ (((cycle + n) % Word) - (gap + n)) % Word = (cycle - gap) % Word
         /\ (cycle + n) % Word = (((cycle - gap) % Word) + (gap + n)) % Word
  BY Shifted

\* Time that passes moves the counter and the real gap alike.
LEMMA PassKeepsTime ==
  ASSUME Encoder!TypeOK, Encoder!ReadingTimed, thread # "calibrate",
         NEW n \in Nat, Encoder!Pass(n), thread' # "calibrate", prev_time_us' = prev_time_us
  PROVE  /\ cycle' \in 0..(Word - 1) /\ gap' \in 0..Word
         /\ Encoder!ReadingTimed'
  <1> USE EncoderAssumed DEF Encoder!EncoderAssumption
  <1>1. cycle' \in 0..(Word - 1) /\ gap' \in 0..Word
    <2>1. cycle + n \in Int
      BY DEF Encoder!TypeOK
    <2>2. (cycle + n) % Word \in 0..(Word - 1)
      BY <2>1, Remainder
    <2> QED BY <2>2 DEF Encoder!Pass, Encoder!CapGap, Encoder!TypeOK
  <1>2. ASSUME gap' < Word
        PROVE  prev_time_us' = Encoder!k_cyc_to_us_floor32((cycle' - gap') % Word)
    <2>1. gap + n < Word /\ gap' = gap + n /\ gap \in Nat /\ gap < Word
      BY <1>2 DEF Encoder!Pass, Encoder!CapGap, Encoder!TypeOK
    <2>2. (cycle' - gap') % Word = (cycle - gap) % Word
      <3>1. cycle \in 0..(Word - 1) /\ Word \in Nat \ {0}
        BY DEF Encoder!TypeOK
      <3>2. (((cycle + n) % Word) - (gap + n)) % Word = (cycle - gap) % Word
        BY <2>1, <3>1, Shifted
      <3> QED BY <2>1, <3>2 DEF Encoder!Pass
    <2> QED BY <2>1, <2>2 DEF Encoder!ReadingTimed
  <1> QED BY <1>1, <1>2 DEF Encoder!ReadingTimed

\* The steps that let time pass, but for a reading.
LEMMA PassStep ==
  ASSUME Encoder!EncoderInv, Encoder!ReadFails \/ Encoder!Sleep
  PROVE  Encoder!EncoderInv'
  <1> USE EncoderAssumed DEF Encoder!EncoderAssumption
  <1>1. PICK n \in Nat : Encoder!Pass(n)
    <2>1. CASE Encoder!ReadFails
      BY <2>1 DEF Encoder!ReadFails
    <2>2. CASE Encoder!Sleep
      <3> DEFINE elapsed == Encoder!Minus(Encoder!Now, loop_start_us)
                 us == Encoder!SleepUs(elapsed)
      <3>1. Encoder!Now \in 0..(Word - 1)
        BY QuotientShrinks
           DEF Encoder!EncoderInv, Encoder!TypeOK, Encoder!Now, Encoder!k_cyc_to_us_floor32
      <3>2. elapsed \in 0..(Word - 1)
        <4>1. Encoder!Now - loop_start_us \in Int
          BY <3>1 DEF Encoder!EncoderInv, Encoder!TypeOK
        <4> QED BY <4>1, Remainder DEF Encoder!Minus
      <3> HIDE DEF elapsed
      <3>3. us \in Nat
        BY <3>2 DEF Encoder!SleepUs
      <3> HIDE DEF us
      <3>4. us * CyclesPerUs \in Nat
        BY <3>3
      <3> QED BY <2>2, <3>4 DEF Encoder!Sleep, us, elapsed
    <2> QED BY <2>1, <2>2
  <1>2. /\ thread # "calibrate" /\ thread' \in {"sleep", "turn"}
        /\ thread \notin {"put", "drop"}
        /\ UNCHANGED <<loop_start_us, Encoder!sampleVars, mailbox, g_pendulum_ready, main>>
    BY DEF Encoder!ReadFails, Encoder!Sleep
  <1>3. cycle' \in 0..(Word - 1) /\ gap' \in 0..Word /\ Encoder!ReadingTimed'
    BY <1>1, <1>2, PassKeepsTime DEF Encoder!EncoderInv, Encoder!sampleVars
  <1>4. Encoder!TypeOK'
    BY <1>2, <1>3 DEF Encoder!EncoderInv, Encoder!TypeOK, Encoder!sampleVars
  <1>5. Encoder!MailboxFresh' /\ Encoder!DtNeverShort'
    BY <1>2 DEF Encoder!EncoderInv, Encoder!MailboxFresh, Encoder!DtNeverShort, Encoder!sampleVars
  <1> QED BY <1>3, <1>4, <1>5 DEF Encoder!EncoderInv

\* The first reading, which fills prev_time_us with the time of that moment.
LEMMA CalibrateStep ==
  ASSUME Encoder!EncoderInv, Encoder!Calibrate \/ Encoder!CalibrateFails
  PROVE  Encoder!EncoderInv'
  <1> USE EncoderAssumed DEF Encoder!EncoderAssumption
  <1>1. CASE Encoder!Calibrate
    <2> USE <1>1 DEF Encoder!Calibrate, Encoder!clockVars
    <2>1. prev_time_us' = cycle \div CyclesPerUs /\ prev_time_us' \in 0..(Word - 1)
      BY QuotientShrinks
         DEF Encoder!EncoderInv, Encoder!TypeOK, Encoder!Now, Encoder!k_cyc_to_us_floor32
    <2>2. gap' = 0 /\ cycle' = cycle /\ cycle \in 0..(Word - 1)
      BY DEF Encoder!EncoderInv, Encoder!TypeOK, Encoder!ReadingTimed
    <2>3. (cycle' - gap') % Word = cycle
      <3>1. cycle' - gap' = cycle /\ cycle \in Int
        BY <2>2
      <3>2. cycle % Word = cycle
        BY <2>2, <3>1, Remainder
      <3> QED BY <3>1, <3>2
    <2>4. Encoder!TypeOK'
      BY <2>1 DEF Encoder!EncoderInv, Encoder!TypeOK
    <2>5. Encoder!ReadingTimed'
      BY <2>1, <2>2, <2>3 DEF Encoder!ReadingTimed, Encoder!k_cyc_to_us_floor32
    <2>6. Encoder!MailboxFresh' /\ Encoder!DtNeverShort'
      BY DEF Encoder!EncoderInv, Encoder!MailboxFresh, Encoder!DtNeverShort
    <2> QED BY <2>4, <2>5, <2>6 DEF Encoder!EncoderInv
  <1>2. CASE Encoder!CalibrateFails
    <2> USE <1>2 DEF Encoder!CalibrateFails, Encoder!sampleVars
    <2>1. cycle' \in 0..(Word - 1)
      <3>1. PICK n \in ReadCycles : cycle' = (cycle + n) % Word
        OBVIOUS
      <3>2. cycle + n \in Int
        BY DEF Encoder!EncoderInv, Encoder!TypeOK
      <3> QED BY <3>1, <3>2, Remainder
    <2>2. Encoder!TypeOK'
      BY <2>1 DEF Encoder!EncoderInv, Encoder!TypeOK
    <2>3. Encoder!ReadingTimed'
      BY DEF Encoder!EncoderInv, Encoder!ReadingTimed
    <2>4. Encoder!MailboxFresh' /\ Encoder!DtNeverShort'
      BY DEF Encoder!EncoderInv, Encoder!MailboxFresh, Encoder!DtNeverShort
    <2> QED BY <2>2, <2>3, <2>4 DEF Encoder!EncoderInv
  <1> QED BY <1>1, <1>2

\* A reading within a wrap of the last one: the time that the thread derives
\* is that of a real distance, or too long.
LEMMA ReadSensorStep ==
  ASSUME Encoder!EncoderInv, Encoder!ReadSensor
  PROVE  Encoder!EncoderInv'
  <1> USE EncoderAssumed DEF Encoder!EncoderAssumption
  <1> DEFINE Sample(n) ==
        LET real == Encoder!CapGap(gap + n)
            now_us == Encoder!k_cyc_to_us_floor32(cycle')
            interval == Encoder!Minus(now_us, prev_time_us) IN
        /\ cycle' = (cycle + n) % Word /\ gap' = 0
        /\ prev_time_us' = now_us
        /\ IF have_prev /\ interval > 0
           THEN /\ dt' = interval /\ dt_gap' = real
                /\ signaled_ready' = TRUE
                /\ g_pendulum_ready' = (g_pendulum_ready \/ ~signaled_ready)
           ELSE UNCHANGED <<dt, dt_gap, signaled_ready, g_pendulum_ready>>
  <1>1. PICK n \in ReadCycles : Sample(n)
    BY DEF Encoder!ReadSensor
  <1> DEFINE real == Encoder!CapGap(gap + n)
             interval == Encoder!Minus(prev_time_us', prev_time_us)
  <1>2. /\ cycle' = (cycle + n) % Word /\ gap' = 0
        /\ prev_time_us' = cycle' \div CyclesPerUs
    BY <1>1 DEF Encoder!k_cyc_to_us_floor32
  <1>3. \/ interval > 0 /\ dt' = interval /\ dt_gap' = real
        \/ UNCHANGED <<dt, dt_gap>>
    BY <1>1
  <1>4. {signaled_ready', g_pendulum_ready'} \subseteq BOOLEAN
    BY <1>1 DEF Encoder!EncoderInv, Encoder!TypeOK
  <1> HIDE <1>1 DEF Sample
  <1>5. /\ thread = "read" /\ thread' = "put" /\ have_prev' = TRUE
        /\ mailbox' = IF mailbox \in {0, 1} THEN mailbox + 1 ELSE mailbox
        /\ UNCHANGED <<loop_start_us, main>>
    BY DEF Encoder!ReadSensor
  <1>6. /\ cycle \in 0..(Word - 1) /\ gap \in 0..Word /\ prev_time_us \in 0..(Word - 1)
        /\ Word \in Nat \ {0} /\ CyclesPerUs \in Nat \ {0} /\ n \in Nat
    BY DEF Encoder!EncoderInv, Encoder!TypeOK
  <1>7. cycle' \in 0..(Word - 1)
    <2>1. cycle + n \in Int
      BY <1>6
    <2> QED BY <1>2, <1>6, <2>1, Remainder
  <1>8. prev_time_us' \in 0..(Word - 1)
    BY <1>2, <1>6, <1>7, QuotientShrinks
  <1>9. real \in 0..Word
    BY <1>6 DEF Encoder!CapGap
  <1>10. interval \in 0..(Word - 1)
    <2>1. prev_time_us' - prev_time_us \in Int
      BY <1>6, <1>8
    <2> QED BY <1>6, <2>1, Remainder DEF Encoder!Minus
  <1>11. real < Word /\ interval > 0 => interval >= real \div CyclesPerUs
    <2> SUFFICES ASSUME real < Word, interval > 0 PROVE interval >= real \div CyclesPerUs
      OBVIOUS
    <2> DEFINE c == (cycle - gap) % Word
               d == gap + n
    <2>1. real = d /\ d \in 0..(Word - 1) /\ gap \in Nat /\ d < Word /\ gap < Word
      BY <1>6 DEF Encoder!CapGap
    <2>2. prev_time_us = c \div CyclesPerUs
      BY <1>5, <1>6, <2>1
         DEF Encoder!EncoderInv, Encoder!ReadingTimed, Encoder!k_cyc_to_us_floor32
    <2>3. c \in 0..(Word - 1)
      <3>1. cycle - gap \in Int
        BY <1>6
      <3> QED BY <1>6, <3>1, Remainder
    <2>4. cycle' = (c + d) % Word
      <3>1. gap + n < Word
        BY <2>1
      <3>2. cycle \in 0..(Word - 1) /\ gap \in Nat /\ n \in Nat /\ Word \in Nat \ {0}
        BY <1>6, <2>1
      <3>3. (cycle + n) % Word = (((cycle - gap) % Word) + (gap + n)) % Word
        BY <3>1, <3>2, CounterShifted
      <3> QED BY <1>2, <3>3
    <2> HIDE DEF c, d, real
    <2>5. interval = (((c + d) % Word) \div CyclesPerUs - c \div CyclesPerUs) % Word
      BY <1>2, <2>2, <2>4 DEF Encoder!Minus
    <2> HIDE DEF interval
    <2>6. (((c + d) % Word) \div CyclesPerUs - c \div CyclesPerUs) % Word > 0
            => (((c + d) % Word) \div CyclesPerUs - c \div CyclesPerUs) % Word >= d \div CyclesPerUs
      BY <1>6, <2>1, <2>3, IntervalNotShort
    <2> QED BY <2>1, <2>5, <2>6
  <1> HIDE DEF real, interval
  <1>12. Encoder!TypeOK'
    <2>1. dt' \in 0..(Word - 1) /\ dt_gap' \in 0..Word
      BY <1>3, <1>9, <1>10 DEF Encoder!EncoderInv, Encoder!TypeOK
    <2>2. mailbox' \in {Empty, 0, 1, 2}
      BY <1>5 DEF Encoder!EncoderInv, Encoder!TypeOK, Encoder!MailboxFresh
    <2>3. gap' \in 0..Word /\ loop_start_us' \in 0..(Word - 1)
      BY <1>2, <1>5, <1>6 DEF Encoder!EncoderInv, Encoder!TypeOK
    <2> QED BY <1>4, <1>5, <1>7, <1>8, <2>1, <2>2, <2>3 DEF Encoder!EncoderInv, Encoder!TypeOK
  <1>13. Encoder!ReadingTimed'
    <2>1. cycle' - gap' = cycle' /\ cycle' \in Int
      BY <1>2, <1>7
    <2>2. cycle' % Word = cycle'
      BY <1>6, <1>7, <2>1, Remainder
    <2> QED BY <1>2, <1>5, <2>1, <2>2 DEF Encoder!ReadingTimed, Encoder!k_cyc_to_us_floor32
  <1>14. Encoder!MailboxFresh'
    BY <1>5 DEF Encoder!EncoderInv, Encoder!MailboxFresh, Encoder!TypeOK
  <1>15. Encoder!DtNeverShort'
    BY <1>3, <1>11 DEF Encoder!EncoderInv, Encoder!DtNeverShort
  <1> QED BY <1>12, <1>13, <1>14, <1>15 DEF Encoder!EncoderInv

\* The steps about the mailbox and the loop: no time passes.
LEMMA MailboxStep ==
  ASSUME Encoder!EncoderInv, Encoder!Put \/ Encoder!DropOld \/ Encoder!Main
  PROVE  Encoder!EncoderInv'
  <1> USE EncoderAssumed DEF Encoder!EncoderAssumption
  <1>1. /\ UNCHANGED <<Encoder!clockVars, loop_start_us, Encoder!sampleVars>>
        /\ thread' = "calibrate" <=> thread = "calibrate"
    BY DEF Encoder!Put, Encoder!PutEmpty, Encoder!PutFull, Encoder!PutSame, Encoder!DropOld,
           Encoder!Main, Encoder!TakeReady, Encoder!TakeSample, Encoder!NextCycle
  <1>2. Encoder!ReadingTimed' /\ Encoder!DtNeverShort'
    BY <1>1 DEF Encoder!EncoderInv, Encoder!ReadingTimed, Encoder!DtNeverShort,
                Encoder!clockVars, Encoder!sampleVars
  <1>3. /\ thread' \in {"calibrate", "turn", "read", "put", "drop", "sleep"}
        /\ g_pendulum_ready' \in BOOLEAN
        /\ mailbox' \in {Empty, 0, 1, 2}
        /\ main' \in {"start", "get", "pending", "work"}
        /\ Encoder!MailboxFresh'
    <2> USE DEF Encoder!EncoderInv, Encoder!TypeOK, Encoder!MailboxFresh
    <2>1. CASE Encoder!Put
      BY <2>1 DEF Encoder!Put, Encoder!PutEmpty, Encoder!PutFull, Encoder!PutSame
    <2>2. CASE Encoder!DropOld
      BY <2>2 DEF Encoder!DropOld
    <2>3. CASE Encoder!Main
      BY <2>3 DEF Encoder!Main, Encoder!TakeReady, Encoder!TakeSample, Encoder!NextCycle
    <2> QED BY <2>1, <2>2, <2>3
  <1>4. Encoder!TypeOK'
    BY <1>1, <1>3 DEF Encoder!EncoderInv, Encoder!TypeOK, Encoder!clockVars, Encoder!sampleVars
  <1> QED BY <1>2, <1>3, <1>4 DEF Encoder!EncoderInv

LEMMA TurnStep ==
  ASSUME Encoder!EncoderInv, Encoder!TurnStarts
  PROVE  Encoder!EncoderInv'
  <1> USE EncoderAssumed DEF Encoder!EncoderAssumption, Encoder!TurnStarts,
                             Encoder!clockVars, Encoder!sampleVars
  <1>1. loop_start_us' \in 0..(Word - 1)
    BY QuotientShrinks
       DEF Encoder!EncoderInv, Encoder!TypeOK, Encoder!Now, Encoder!k_cyc_to_us_floor32
  <1>2. Encoder!TypeOK'
    BY <1>1 DEF Encoder!EncoderInv, Encoder!TypeOK
  <1>3. Encoder!ReadingTimed' /\ Encoder!MailboxFresh' /\ Encoder!DtNeverShort'
    BY DEF Encoder!EncoderInv, Encoder!ReadingTimed, Encoder!MailboxFresh, Encoder!DtNeverShort
  <1> QED BY <1>2, <1>3 DEF Encoder!EncoderInv

LEMMA NextEncoderInv == Encoder!EncoderInv /\ [Encoder!Next]_Encoder!vars => Encoder!EncoderInv'
  <1>1. ASSUME Encoder!EncoderInv, UNCHANGED Encoder!vars PROVE Encoder!EncoderInv'
    BY <1>1 DEF Encoder!vars, Encoder!clockVars, Encoder!sampleVars, Encoder!EncoderInv, Encoder!TypeOK, Encoder!ReadingTimed,
                Encoder!MailboxFresh, Encoder!DtNeverShort
  <1> QED BY <1>1, PassStep, CalibrateStep, ReadSensorStep, MailboxStep, TurnStep
          DEF Encoder!Next, Encoder!Thread

(* The readings are timed as ReadingTimed says, wherever the counter wraps. *)
THEOREM EncoderInvariant == Encoder!Spec => []Encoder!EncoderInv
  BY InitEncoderInv, NextEncoderInv, PTL DEF Encoder!Spec

(* The loop never fetches an old sample while there is a newer one: what is *)
(* in the queue is the newest reading, or the thread is replacing it.       *)
THEOREM LoopFetchesNewest == Encoder!Spec => []MailboxFresh
  <1>1. Encoder!EncoderInv => MailboxFresh
    BY DEF Encoder!EncoderInv, MailboxFresh
  <1> QED BY <1>1, EncoderInvariant, PTL

(* A velocity is never taken over less time than has passed between its two *)
(* readings, for every clock, word size, period and duration of a reading.  *)
THEOREM IntervalsNeverShort == Encoder!Spec => []DtNeverShort
  <1>1. Encoder!EncoderInv => DtNeverShort
    BY DEF Encoder!EncoderInv, DtNeverShort
  <1> QED BY <1>1, EncoderInvariant, PTL

-------------------------------------------------------------------------------
(* The loop as the end of PendulumSystem: what the host and the network may *)
(* do reaches it as commands only, and these are numbers.                   *)

\* The host has neither published nor commanded anything.
LEMMA InitSystemInv ==
  System!Init => System!SystemInv /\ Init
  <1> SUFFICES ASSUME System!Init PROVE System!SystemInv /\ Init
    OBVIOUS
  <1> USE Tier2Assumption, SystemAssumed DEF System!SystemAssumption
  <1>1. Init /\ link = Nothing
    BY DEF System!Init, System!Firmware!Init, Init
  <1>2. /\ hw_commands = [f \in CommandFields |-> NaN] /\ command_if = [f \in CommandFields |-> 0]
        /\ command_pub = FALSE /\ life = "new" /\ host_cycle = "idle"
    BY DEF System!Init, System!Host!Init
  <1>3. hw_commands \in System!CommandValues /\ command_if \in System!CommandValues
    BY <1>2 DEF System!CommandValues
  <1>4. System!SendsNumbers
    BY <1>1, <1>2, <1>3 DEF Init, System!SendsNumbers
  <1>5. System!LoopGetsNumbers
    BY <1>1 DEF Init, System!LoopGetsNumbers
  <1> QED BY <1>1, <1>4, <1>5 DEF System!SystemInv

\* Activation readies the commands, and write() takes numbers only.
LEMMA HostSends ==
  ASSUME System!SendsNumbers,
         \/ System!HostLifeCycle \/ System!ControllerStarts \/ System!ControllerStops
         \/ System!HostCrashes \/ System!Read \/ System!Update \/ System!Write
  PROVE  System!SendsNumbers' /\ UNCHANGED vars
  <1> USE Tier2Assumption, SystemAssumed DEF System!SystemAssumption
  <1>1. UNCHANGED <<System!firmwareVars>>
    BY DEF System!HostLifeCycle, System!ControllerStarts, System!ControllerStops,
           System!HostCrashes, System!Read, System!Update, System!Write
  <1>2. UNCHANGED vars /\ inbox' = inbox /\ silent' = silent
    BY <1>1 DEF System!firmwareVars, vars, driverVars, peerVars, controlVars
  <1>3. /\ hw_commands' \in System!CommandValues /\ command_if' \in System!CommandValues
        /\ command_pub' => hw_commands'[Field] # NaN
        /\ life' = "active" \/ host_cycle' # "idle" => command_pub'
        /\ link' \in Accelerations \cup {Nothing}
    <2> USE DEF System!SendsNumbers
    <2>1. CASE System!HostLifeCycle
      <3>1. link' = link
        BY <2>1 DEF System!HostLifeCycle
      <3>2. CASE System!Host!OnActivate
        <4>1. /\ hw_commands' = [f \in DOMAIN hw_commands |->
                                  IF hw_commands[f] = NaN THEN 0 ELSE hw_commands[f]]
              /\ command_pub'
          BY <3>2 DEF System!Host!OnActivate, System!Host!ReadyCommands, System!Host!NaNToZero
        <4>2. DOMAIN hw_commands = CommandFields
          BY DEF System!CommandValues
        <4>3. hw_commands' \in System!CommandValues /\ hw_commands'[Field] # NaN
          BY <4>1, <4>2 DEF System!CommandValues
        <4>4. PICK free \in SUBSET CommandFields :
                command_if' = [f \in CommandFields |->
                                IF f \in free THEN hw_commands'[f] ELSE command_if[f]]
          BY <3>2 DEF System!Host!OnActivate
        <4>5. command_if' \in System!CommandValues
          BY <4>3, <4>4 DEF System!CommandValues
        <4> QED BY <3>1, <4>1, <4>3, <4>5
      <3>3. CASE System!Host!OnInit \/ System!Host!ConfigureOrCleanup
        <4>1. /\ UNCHANGED <<hw_commands, command_if, command_pub, host_cycle>>
              /\ life' # "active"
          BY <3>3 DEF System!Host!OnInit, System!Host!ConfigureOrCleanup,
                      System!Host!zenohVars, System!Host!commandVars
        <4> QED BY <3>1, <4>1
      <3>4. CASE System!Host!OnDeactivate
        <4>1. /\ UNCHANGED <<hw_commands, command_if>>
              /\ ~command_pub' /\ life' # "active" /\ host_cycle' = "idle"
          BY <3>4 DEF System!Host!OnDeactivate, System!Host!commandVars
        <4> QED BY <3>1, <4>1
      <3> QED BY <2>1, <3>2, <3>3, <3>4 DEF System!HostLifeCycle
    <2>2. CASE System!ControllerStarts
      BY <2>2 DEF System!ControllerStarts, System!hostVars
    <2>3. CASE System!ControllerStops
      <3>1. [f \in CommandFields |-> 0] \in System!CommandValues
        BY DEF System!CommandValues
      <3> QED BY <2>3, <3>1 DEF System!ControllerStops
    <2>4. CASE System!HostCrashes
      <3>1. /\ [f \in CommandFields |-> 0] \in System!CommandValues
            /\ [f \in CommandFields |-> NaN] \in System!CommandValues
        BY DEF System!CommandValues
      <3> QED BY <2>4, <3>1 DEF System!HostCrashes
    <2>5. CASE System!Read
      BY <2>5 DEF System!Read
    <2>6. CASE System!Update
      <3>1. /\ UNCHANGED <<link, life, hw_commands, command_pub>>
            /\ host_cycle # "idle"
        BY <2>6 DEF System!Update, System!Host!Update, System!Host!zenohVars
      <3>2. command_if' \in System!CommandValues
        BY <2>6 DEF System!Update, System!Host!Update, System!Host!Numbers, System!CommandValues
      <3> QED BY <3>1, <3>2
    <2>7. CASE System!Write
      <3>1. /\ UNCHANGED <<life, command_if, command_pub>>
            /\ host_cycle = "write" /\ link' \in {wire'[Field], link}
        BY <2>7 DEF System!Write, System!Host!Write, System!Host!zenohVars
      <3>2. command_pub
        BY <3>1
      <3>3. PICK free \in SUBSET CommandFields :
              /\ hw_commands' = [f \in CommandFields |-> System!Host!Command(f, f \in free)]
              /\ wire' = hw_commands'
        BY <2>7, <3>2 DEF System!Write, System!Host!Write
      <3>4. \A f \in CommandFields :
              /\ System!Host!Command(f, f \in free) \in Accelerations \cup {NaN}
              /\ System!Host!Command(f, f \in free) # NaN
        BY <3>2 DEF System!Host!Command, System!CommandValues
      <3>5. hw_commands' \in System!CommandValues /\ hw_commands'[Field] # NaN
            /\ wire'[Field] = hw_commands'[Field] /\ hw_commands'[Field] \in Accelerations
        BY <3>3, <3>4 DEF System!CommandValues
      <3> QED BY <3>1, <3>2, <3>5
    <2> QED BY <2>1, <2>2, <2>3, <2>4, <2>5, <2>6, <2>7
  <1> QED BY <1>2, <1>3 DEF System!SendsNumbers

\* What arrives is a command of the loop's own environment.
LEMMA DeliverStep ==
  ASSUME System!SystemInv, System!Deliver
  PROVE  System!SystemInv' /\ CommandArrives
  <1> USE Tier2Assumption
  <1>1. link \in Accelerations /\ inbox' = link /\ link' = Nothing /\ ~silent
    BY DEF System!Deliver, System!SystemInv, System!SendsNumbers
  <1>2. UNCHANGED <<driverVars, silent, mail, encoder_dead, pc, controlVars>>
    BY DEF System!Deliver, driverVars, controlVars
  <1>3. CommandArrives
    BY <1>1, <1>2 DEF CommandArrives
  <1>4. System!SendsNumbers'
    BY <1>1, <1>2 DEF System!Deliver, System!hostVars, System!SystemInv, System!SendsNumbers,
                      System!CommandValues
  <1>5. System!LoopGetsNumbers'
    BY <1>1, <1>2 DEF System!SystemInv, System!LoopGetsNumbers, controlVars
  <1> QED BY <1>3, <1>4, <1>5 DEF System!SystemInv

\* The threads of the firmware: steps of the loop's module, on numbers only.
LEMMA FirmwareStep ==
  ASSUME System!SystemInv, Tier2Inv,
         System!EncoderSample \/ System!DriverStep \/ System!Loop
  PROVE  System!SystemInv' /\ Next
  <1> USE Tier2Assumption
  <1>1. EncoderSample \/ DriverStep \/ Loop
    <2>1. CASE System!EncoderSample
      <3>1. EncoderSample
        BY <2>1 DEF System!EncoderSample, System!Firmware!EncoderSample, EncoderSample,
                    System!Firmware!driverVars, driverVars, System!Firmware!controlVars, controlVars
      <3> QED BY <3>1
    <2>2. CASE System!DriverStep
      <3>1. DriverStep
        BY <2>2 DEF System!DriverStep, System!Firmware!DriverStep, DriverStep,
                    System!Firmware!peerVars, peerVars, System!Firmware!controlVars, controlVars
      <3> QED BY <3>1
    <2>3. CASE System!Loop
      <3> USE DEF System!Firmware!driverVars, driverVars, System!Firmware!peerVars, peerVars,
                  System!Firmware!controlVars, controlVars
      <3>1. CASE System!Firmware!ReadPosition
        <4>1. ReadPosition
          BY <3>1 DEF System!Firmware!ReadPosition, ReadPosition
        <4> QED BY <4>1 DEF Loop
      <3>2. CASE System!Firmware!WaitEncoder
        <4>1. WaitEncoder
          BY <3>2 DEF System!Firmware!WaitEncoder, WaitEncoder
        <4> QED BY <4>1 DEF Loop
      <3>3. CASE System!Firmware!Watchdog
        <4>1. Watchdog
          BY <3>3 DEF System!Firmware!Watchdog, System!Firmware!InWatchdog, System!Firmware!NewCommand,
                      System!Firmware!NoCommand, System!Firmware!Waiting, System!Firmware!TimedOut,
                      Watchdog, InWatchdog, NewCommand, NoCommand, Waiting, TimedOut
        <4> QED BY <4>1 DEF Loop
      <3>4. CASE System!Firmware!Integrate
        <4>1. Integrate
          BY <3>4 DEF System!Firmware!Integrate, System!Firmware!IntegrateTo, System!Firmware!Integrated,
                      System!Firmware!Clamp, Integrate, IntegrateTo, Integrated, Clamp
        <4> QED BY <4>1 DEF Loop
      <3>5. CASE System!Firmware!InDrive /\ (System!Firmware!StopStepper \/ System!Firmware!Retarget(position))
        <4>1. Drive
          BY <3>5 DEF System!Firmware!InDrive, System!Firmware!StopStepper, System!Firmware!Retarget,
                      System!Firmware!Stops, System!Firmware!Clamp,
                      System!Firmware!stepper_min_position, System!Firmware!stepper_max_position,
                      Drive, InDrive, StopStepper, Retarget, Stops, Clamp,
                      stepper_min_position, stepper_max_position
        <4> QED BY <4>1 DEF Loop
      <3> QED BY <2>3, <3>1, <3>2, <3>3, <3>4, <3>5 DEF System!Loop, System!Turn
    <2> QED BY <2>1, <2>2, <2>3
  <1>2. UNCHANGED <<hw_commands, command_if, command_pub, life, host_cycle, link>>
    BY DEF System!EncoderSample, System!DriverStep, System!Loop, System!outside, System!hostVars
  <1>3. /\ silent' = silent
        /\ inbox' \in Accelerations \cup {Nothing}
        /\ acceleration' \in {acceleration, 0} \cup Accelerations
        /\ velocity' \in {velocity, 0, Integrated}
    <2> USE DEF System!SystemInv, System!SendsNumbers
    <2>1. CASE EncoderSample
      BY <2>1 DEF EncoderSample, controlVars
    <2>2. CASE DriverStep
      BY <2>2 DEF DriverStep, peerVars, controlVars
    <2>3. CASE ReadPosition
      BY <2>3 DEF ReadPosition, peerVars
    <2>4. CASE WaitEncoder
      BY <2>4 DEF WaitEncoder, controlVars
    <2>5. CASE Watchdog
      BY <2>5 DEF Watchdog, InWatchdog, NewCommand, NoCommand, Waiting, TimedOut
    <2>6. CASE Integrate
      BY <2>6 DEF Integrate, IntegrateTo, peerVars
    <2>7. CASE Drive
      BY <2>7 DEF Drive, InDrive, peerVars, controlVars
    <2> QED BY <1>1, <2>1, <2>2, <2>3, <2>4, <2>5, <2>6, <2>7 DEF Loop
  <1>4. Integrated # NaN
    <2>1. {velocity, velocity + acceleration, -MaxVelocity, MaxVelocity} \subseteq Int
      BY DEF System!SystemInv, System!LoopGetsNumbers, Tier2Inv, TypeOK
    <2>2. Clamp(velocity + acceleration, -MaxVelocity, MaxVelocity) \in Int
      BY <2>1 DEF Clamp
    <2> QED BY <2>2 DEF Integrated, System!SystemInv, System!LoopGetsNumbers
  <1>5. System!LoopGetsNumbers'
    <2>1. NaN # 0 /\ NaN # Nothing /\ NaN \notin Accelerations
      <3>1. NaN \notin Int /\ Accelerations \subseteq Int /\ 0 \in Int /\ NaN # Nothing
        OBVIOUS
      <3> QED BY <3>1
    <2>2. acceleration # NaN /\ velocity # NaN
      BY DEF System!SystemInv, System!LoopGetsNumbers
    <2> QED BY <1>3, <1>4, <2>1, <2>2 DEF System!LoopGetsNumbers
  <1>6. System!SendsNumbers'
    BY <1>2, <1>3 DEF System!SystemInv, System!SendsNumbers, System!CommandValues
  <1> QED BY <1>1, <1>5, <1>6 DEF System!SystemInv, Next

\* A step of the system is one of the loop's module, or none of its own.
LEMMA SystemStep ==
  System!SystemInv /\ Tier2Inv /\ [System!Next]_System!vars
           => System!SystemInv' /\ [Next]_vars
  <1> SUFFICES ASSUME System!SystemInv, Tier2Inv, [System!Next]_System!vars
               PROVE  System!SystemInv' /\ [Next]_vars
    OBVIOUS
  <1>1. CASE UNCHANGED System!vars
    <2>1. UNCHANGED <<System!hostVars, System!firmwareVars, link>>
      BY <1>1 DEF System!vars
    <2>2. UNCHANGED vars
      BY <2>1 DEF System!firmwareVars, vars, driverVars, peerVars, controlVars
    <2>3. System!SystemInv'
      BY <2>1 DEF System!firmwareVars, System!hostVars, System!SystemInv, System!SendsNumbers,
                  System!CommandValues, System!LoopGetsNumbers
    <2> QED BY <2>2, <2>3
  <1>2. CASE \/ System!HostLifeCycle \/ System!ControllerStarts \/ System!ControllerStops
             \/ System!HostCrashes \/ System!Read \/ System!Update \/ System!Write
    <2>1. System!SendsNumbers' /\ UNCHANGED vars
      BY <1>2, HostSends DEF System!SystemInv
    <2>2. System!LoopGetsNumbers'
      BY <2>1 DEF System!SystemInv, System!LoopGetsNumbers, vars, peerVars, controlVars
    <2> QED BY <2>1, <2>2 DEF System!SystemInv
  <1>3. CASE System!Deliver
    BY <1>3, DeliverStep DEF Next
  <1>4. CASE System!EncoderSample \/ System!DriverStep \/ System!Loop
    BY <1>4, FirmwareStep
  <1> QED BY <1>1, <1>2, <1>3, <1>4 DEF System!Next

(* A publisher sends numbers only, and nothing but a number gets to the     *)
(* loop, after activations, deactivations and crashes in any order.         *)
THEOREM SystemInvariant == System!Spec => [](System!SystemInv /\ Tier2Inv)
  <1>1. System!Init => System!SystemInv /\ Tier2Inv
    BY InitSystemInv, InitTier2Inv
  <1>2. System!SystemInv /\ Tier2Inv /\ [System!Next]_System!vars
          => System!SystemInv' /\ Tier2Inv'
    BY SystemStep, NextTier2Inv
  <1> QED BY <1>1, <1>2, PTL DEF System!Spec

(* The loop of the whole system implements the loop with the environment    *)
(* that PendulumTier2 gives it: its theorems hold in the system.            *)
THEOREM SystemRunsLoop == System!Spec => Spec
  <1>1. System!Init => Init
    BY InitSystemInv
  <1>2. System!SystemInv /\ Tier2Inv /\ [System!Next]_System!vars => [Next]_vars
    BY SystemStep
  <1> QED BY <1>1, <1>2, SystemInvariant, PTL DEF System!Spec, Spec

(* Whatever the controllers command and whenever the host crashes, the loop *)
(* is never given a NaN.                                                    *)
THEOREM LoopComputesWithNumbers == System!Spec => []LoopGetsNumbers
  <1>1. System!SystemInv => LoopGetsNumbers
    BY DEF System!SystemInv, LoopGetsNumbers
  <1> QED BY <1>1, SystemInvariant, PTL

(* End to end the stepper stays within its travel, with the loop stepping,  *)
(* the driver moving and the host crashing at any time.                     *)
THEOREM SystemWithinTravel == System!Spec => []WithinTravel
  BY SystemRunsLoop, TravelLimited, PTL
===============================================================================
