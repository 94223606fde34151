--------------------------- MODULE NetworkInitProofs ---------------------------
(* Proofs about NetworkInit, and in the second part about FirmwareStartup as *)
(* MCNetworkInit instantiates it, for every modulus and every timeout that   *)
(* fits into it.                                                             *)
EXTENDS MCNetworkInit, Sequences, SequenceTheorems, TLAPS

(* In modular arithmetic the difference to a start that lies t back is t,    *)
(* and stays it when both move on by d, as long as t + d is representable.   *)
LEMMA DifferenceExact ==
  ASSUME NEW a \in 0..(Modulus - 1), NEW b \in 0..(Modulus - 1), NEW d \in Nat, NEW t \in Nat,
         Minus(a, b) = t, t + d < Modulus
  PROVE  Plus(a, d) \in 0..(Modulus - 1) /\ Minus(Plus(a, d), b) = t + d
  BY NetworkAssumption DEF Plus, Minus

(* The timeout of every wait, with a sleep on top, fits into the uptime.     *)
LEMMA TimeoutFits ==
  ASSUME NEW p
  PROVE  TimeoutOf(p) \in Nat /\ TimeoutOf(p) + MaxSleep < Modulus
  BY NetworkAssumption DEF TimeoutOf

(* Initially nothing has been waited for or seen.                            *)
LEMMA InitInv == Init => NetworkInv
  BY NetworkAssumption DEF Init, NetworkInv, TypeOK, WaitsBounded, TimerExact, ResultsSoFar,
     Waits, Results, Interfaces

(* A sleep within a wait that is not overdue keeps the timer exact.          *)
LEMMA SleepInv ==
  ASSUME NetworkInv, pc \in Waits, Elapsed <= TimeoutOf(pc), Sleep
  PROVE  NetworkInv'
<1>1. PICK d \in 1..MaxSleep : clock' = Plus(clock, d) /\ waited' = waited + d
  BY DEF Sleep
<1>2. /\ clock \in 0..(Modulus - 1) /\ timer \in 0..(Modulus - 1) /\ waited \in Nat
      /\ Minus(clock, timer) = waited /\ waited <= TimeoutOf(pc)
  BY DEF NetworkInv, TypeOK, TimerExact, Elapsed
<1>3. /\ TimeoutOf(pc) \in Nat /\ TimeoutOf(pc) + MaxSleep < Modulus
      /\ MaxSleep \in Nat /\ Modulus \in Nat
  BY TimeoutFits, NetworkAssumption
<1>4. waited + d < Modulus /\ waited + d <= TimeoutOf(pc) + MaxSleep
  BY <1>2, <1>3
<1>5. clock' \in 0..(Modulus - 1) /\ Minus(clock', timer) = waited'
  BY <1>1, <1>2, <1>4, DifferenceExact
<1>6. TypeOK'
  BY <1>1, <1>2, <1>5 DEF Sleep, linkVars, resultVars, NetworkInv, TypeOK
<1>7. pc' = pc /\ timer' = timer
  BY DEF Sleep
<1>8. WaitsBounded'
  BY <1>1, <1>4, <1>7 DEF WaitsBounded, TimeoutOf
<1>9. TimerExact'
  BY <1>5, <1>7 DEF TimerExact, Elapsed, Minus
<1>10. ResultsSoFar'
  BY DEF Sleep, resultVars, NetworkInv, ResultsSoFar
<1> QED BY <1>6, <1>8, <1>9, <1>10 DEF NetworkInv

(* A wait that begins has lasted no time.                                    *)
LEMMA BeginExact ==
  ASSUME NetworkInv, NEW p \in Waits, BeginWait(p), UNCHANGED clock
  PROVE  /\ pc' = p /\ timer' \in 0..(Modulus - 1) /\ waited' = 0
         /\ WaitsBounded' /\ TimerExact'
<1>1. TimeoutOf(p) + MaxSleep \in Nat
  BY TimeoutFits, NetworkAssumption
<1>2. WaitsBounded'
  BY <1>1 DEF BeginWait, WaitsBounded, TimeoutOf
<1>3. TimerExact'
  BY DEF BeginWait, TimerExact, Elapsed, Minus, NetworkInv, TypeOK
<1> QED BY <1>2, <1>3 DEF BeginWait, NetworkInv, TypeOK

(* Every step of init_network and of the links preserves the invariant.      *)
LEMMA NextInv == NetworkInv /\ [Next]_vars => NetworkInv'
<1> SUFFICES ASSUME NetworkInv, [Next]_vars PROVE NetworkInv'
  OBVIOUS
<1> USE DEF linkVars, resultVars
<1>1. CASE UsbEnable
  <2>1. CASE BeginWait("usb_carrier") /\ UNCHANGED usb_ret
    <3>1. pc' = "usb_carrier" /\ timer' \in 0..(Modulus - 1) /\ waited' = 0
          /\ WaitsBounded' /\ TimerExact'
      BY <1>1, <2>1, BeginExact DEF UsbEnable, Waits
    <3>2. TypeOK' /\ ResultsSoFar'
      BY <1>1, <2>1, <3>1 DEF UsbEnable, NetworkInv, TypeOK, ResultsSoFar, Waits
    <3> QED BY <3>1, <3>2 DEF NetworkInv
  <2>2. CASE NoWait("wifi_request") /\ usb_ret' = "failed"
    BY <1>1, <2>2 DEF UsbEnable, NoWait, NetworkInv, TypeOK, WaitsBounded, TimerExact,
       ResultsSoFar, Waits, Results
  <2> QED BY <1>1, <2>1, <2>2 DEF UsbEnable
<1>2. CASE UsbCarrier
  <2>1. CASE KeepWaiting("usb_carrier", carrier)
    BY <2>1, SleepInv DEF KeepWaiting, Waits
  <2>2. CASE /\ GiveUp("usb_carrier", carrier)
             /\ NoWait("wifi_request")
             /\ UsbReturns("timeout")
             /\ UNCHANGED <<clock, linkVars, seen>>
    BY <2>2 DEF GiveUp, UsbReturns, NoWait, NetworkInv, TypeOK, WaitsBounded, TimerExact,
       ResultsSoFar, Waits, Results
  <2>3. CASE /\ pc = "usb_carrier" /\ carrier
             /\ BeginWait("usb_address")
             /\ UNCHANGED <<clock, linkVars, resultVars>>
    <3>1. pc' = "usb_address" /\ timer' \in 0..(Modulus - 1) /\ waited' = 0
          /\ WaitsBounded' /\ TimerExact'
      BY <2>3, BeginExact DEF Waits
    <3>2. TypeOK' /\ ResultsSoFar'
      BY <2>3, <3>1 DEF NetworkInv, TypeOK, ResultsSoFar, Waits
    <3> QED BY <3>1, <3>2 DEF NetworkInv
  <2> QED BY <1>2, <2>1, <2>2, <2>3 DEF UsbCarrier
<1>3. CASE UsbAddress
  <2>1. CASE KeepWaiting("usb_address", address["usb"])
    BY <2>1, SleepInv DEF KeepWaiting, Waits
  <2>2. CASE /\ GiveUp("usb_address", address["usb"])
             /\ NoWait("wifi_request")
             /\ UsbReturns("timeout")
             /\ UNCHANGED <<clock, linkVars, seen>>
    BY <2>2 DEF GiveUp, UsbReturns, NoWait, NetworkInv, TypeOK, WaitsBounded, TimerExact,
       ResultsSoFar, Waits, Results
  <2>3. CASE /\ pc = "usb_address" /\ address["usb"]
             /\ BeginWait("usb_lease")
             /\ seen' = seen \cup {"usb"}
             /\ UNCHANGED <<clock, linkVars, usb_ret, wifi_ret>>
    <3>1. pc' = "usb_lease" /\ timer' \in 0..(Modulus - 1) /\ waited' = 0
          /\ WaitsBounded' /\ TimerExact'
      BY <2>3, BeginExact DEF Waits
    <3>2. TypeOK' /\ ResultsSoFar'
      BY <2>3, <3>1 DEF NetworkInv, TypeOK, ResultsSoFar, Waits, Interfaces
    <3> QED BY <3>1, <3>2 DEF NetworkInv
  <2> QED BY <1>3, <2>1, <2>2, <2>3 DEF UsbAddress
<1>4. CASE UsbLease
  <2>1. CASE Elapsed < LeaseTimeout /\ Sleep
    <3>1. pc \in Waits /\ TimeoutOf(pc) = LeaseTimeout /\ Elapsed \in Nat
      BY <1>4 DEF UsbLease, Waits, TimeoutOf, NetworkInv, TimerExact, TypeOK
    <3>2. Elapsed <= TimeoutOf(pc)
      BY <2>1, <3>1, NetworkAssumption
    <3> QED BY <2>1, <3>1, <3>2, SleepInv
  <2>2. CASE /\ NoWait("wifi_request")
             /\ UsbReturns("ok")
             /\ UNCHANGED <<clock, linkVars, seen>>
    BY <1>4, <2>2 DEF UsbLease, UsbReturns, NoWait, NetworkInv, TypeOK, WaitsBounded,
       TimerExact, ResultsSoFar, Waits, Results
  <2> QED BY <1>4, <2>1, <2>2 DEF UsbLease
<1>5. CASE WifiRequest
  <2>1. CASE BeginWait("wifi_address") /\ UNCHANGED wifi_ret
    <3>1. pc' = "wifi_address" /\ timer' \in 0..(Modulus - 1) /\ waited' = 0
          /\ WaitsBounded' /\ TimerExact'
      BY <1>5, <2>1, BeginExact DEF WifiRequest, Waits
    <3>2. TypeOK' /\ ResultsSoFar'
      BY <1>5, <2>1, <3>1 DEF WifiRequest, NetworkInv, TypeOK, ResultsSoFar, Waits
    <3> QED BY <3>1, <3>2 DEF NetworkInv
  <2>2. CASE NoWait("done") /\ wifi_ret' = "failed"
    BY <1>5, <2>2 DEF WifiRequest, NoWait, NetworkInv, TypeOK, WaitsBounded, TimerExact,
       ResultsSoFar, Waits, Results
  <2> QED BY <1>5, <2>1, <2>2 DEF WifiRequest
<1>6. CASE WifiAddress
  <2>1. CASE KeepWaiting("wifi_address", address["wifi"])
    BY <2>1, SleepInv DEF KeepWaiting, Waits
  <2>2. CASE /\ GiveUp("wifi_address", address["wifi"])
             /\ NoWait("done")
             /\ wifi_ret' = "timeout"
             /\ UNCHANGED <<clock, linkVars, usb_ret, seen>>
    BY <2>2 DEF GiveUp, NoWait, NetworkInv, TypeOK, WaitsBounded, TimerExact,
       ResultsSoFar, Waits, Results
  <2>3. CASE /\ pc = "wifi_address" /\ address["wifi"]
             /\ NoWait("done")
             /\ wifi_ret' = "ok"
             /\ seen' = seen \cup {"wifi"}
             /\ UNCHANGED <<clock, linkVars, usb_ret>>
    BY <2>3 DEF NoWait, NetworkInv, TypeOK, WaitsBounded, TimerExact,
       ResultsSoFar, Waits, Results, Interfaces
  <2> QED BY <1>6, <2>1, <2>2, <2>3 DEF WifiAddress
<1>7. CASE LinkChanges
  <2>1. TypeOK'
    BY <1>7 DEF LinkChanges, NetworkInv, TypeOK
  <2>2. WaitsBounded' /\ TimerExact' /\ ResultsSoFar'
    BY <1>7 DEF LinkChanges, NetworkInv, WaitsBounded, TimeoutOf, TimerExact, Elapsed, Minus,
       ResultsSoFar
  <2> QED BY <2>1, <2>2 DEF NetworkInv
<1>8. CASE UNCHANGED vars
  BY <1>8 DEF vars, NetworkInv, TypeOK, WaitsBounded, TimeoutOf, TimerExact, Elapsed, Minus,
     ResultsSoFar
<1> QED BY <1>1, <1>2, <1>3, <1>4, <1>5, <1>6, <1>7, <1>8 DEF Next, Code

-------------------------------------------------------------------------------
(* The inductive invariant holds: every timer of network.cpp measures the    *)
(* time that has passed, and the results go with the addresses seen.         *)
THEOREM NetworkInvariant == Spec => []NetworkInv
<1> QED BY InitInv, NextInv, PTL DEF Spec

(* Every wait ends within its timeout and one sleep, for every uptime at     *)
(* which it begins.                                                          *)
THEOREM BoundedWaits == Spec => []WaitsBounded
<1>1. NetworkInv => WaitsBounded
  BY DEF NetworkInv
<1> QED BY <1>1, NetworkInvariant, PTL

(* init_network returns 0 exactly when an address was seen.                  *)
THEOREM ResultCorrect == Spec => []SuccessMeansAddress
<1>1. NetworkInv => SuccessMeansAddress
  BY DEF NetworkInv, TypeOK, ResultsSoFar, SuccessMeansAddress, Succeeds, Interfaces
<1> QED BY <1>1, NetworkInvariant, PTL

(* No wait is given up before its timeout is over.                           *)
THEOREM TimeoutsAreReal == Spec => NoEarlyTimeout
<1>1. NetworkInv /\ [Next]_vars =>
        [(usb_ret' = "timeout" /\ usb_ret # "timeout") \/ (wifi_ret' = "timeout" /\ wifi_ret # "timeout")
           => waited > TimeoutOf(pc)]_vars
  <2> SUFFICES ASSUME NetworkInv, Next,
                      (usb_ret' = "timeout" /\ usb_ret # "timeout")
                        \/ (wifi_ret' = "timeout" /\ wifi_ret # "timeout")
               PROVE  waited > TimeoutOf(pc)
    OBVIOUS
  <2>1. pc \in Waits /\ Elapsed > TimeoutOf(pc)
    BY DEF Next, Code, UsbEnable, UsbCarrier, UsbAddress, UsbLease, WifiRequest, WifiAddress,
       LinkChanges, KeepWaiting, GiveUp, Sleep, UsbReturns, linkVars, resultVars, Waits
  <2> QED BY <2>1 DEF NetworkInv, TimerExact
<1> QED BY <1>1, NetworkInvariant, PTL DEF Spec, NoEarlyTimeout

-------------------------------------------------------------------------------
(* FirmwareStartup: the steps of main() before its loop.                     *)

(* The wait has lasted what its timer says, until it has lasted so long that *)
(* it has outlived every timeout.                                            *)
WaitExact == lasted < Modulus => Startup!Elapsed = lasted

(* The steps still to do are the last ones of the program, and those before  *)
(* them succeeded, the ones main() does without excepted.                    *)
Optional == {"ntp", "usb_lease"}
StepsInOrder ==
  LET steps == Startup!Steps[program] IN
  \E k \in 0..Len(steps) :
    /\ Len(todo) = Len(steps) - k
    /\ \A i \in 1..Len(todo) : todo[i] = steps[k + i]
    /\ \A i \in 1..k : steps[i] \in done \cup Optional

StartupInv == Startup!TypeOK /\ WaitExact /\ StepsInOrder /\ (returned => failed)

(* Every program is a sequence of steps.                                     *)
LEMMA StepsAreSequences ==
  ASSUME NEW p \in DOMAIN Startup!Steps
  PROVE  Startup!Steps[p] \in Seq(Startup!ToSet(Startup!Steps[p]))
<1> DEFINE Names == {"devices", "ready", "wifi_request", "wifi_address", "usb_enable",
                     "usb_address", "usb_lease", "client", "stepper", "position", "ntp",
                     "calibrate"}
<1>1. Startup!Steps[p] \in Seq(Names)
  <2>1. <<"devices">> \in Seq(Names) /\ <<"devices", "ready">> \in Seq(Names)
    OBVIOUS
  <2>2. <<"wifi_request", "wifi_address">> \in Seq(Names)
    OBVIOUS
  <2>3. <<"usb_enable", "usb_address", "usb_lease">> \in Seq(Names)
    OBVIOUS
  <2>4. <<"client", "stepper", "position">> \in Seq(Names) /\ <<"client">> \in Seq(Names)
    OBVIOUS
  <2>5. <<"ntp", "client", "stepper", "position", "calibrate">> \in Seq(Names)
    OBVIOUS
  <2> HIDE DEF Names
  <2>6. ASSUME NEW s \in Seq(Names), NEW t \in Seq(Names)
        PROVE  s \o t \in Seq(Names)
    BY <2>6, ConcatProperties
  <2>7. CASE p = "tier1"
    <3>1. Startup!Steps[p] = <<"devices">> \o <<"wifi_request", "wifi_address">> \o
                               <<"ntp", "client", "stepper", "position", "calibrate">>
      BY <2>7 DEF Startup!Steps
    <3> QED BY <3>1, <2>1, <2>2, <2>5, <2>6
  <2>8. CASE p = "tier2_wifi"
    <3>1. Startup!Steps[p] = <<"devices", "ready">> \o <<"wifi_request", "wifi_address">> \o
                               <<"client", "stepper", "position">>
      BY <2>8 DEF Startup!Steps
    <3> QED BY <3>1, <2>1, <2>2, <2>4, <2>6
  <2>9. CASE p = "tier2_usb"
    <3>1. Startup!Steps[p] = <<"devices", "ready">> \o
                               <<"usb_enable", "usb_address", "usb_lease">> \o
                               <<"client", "stepper", "position">>
      BY <2>9 DEF Startup!Steps
    <3> QED BY <3>1, <2>1, <2>3, <2>4, <2>6
  <2>10. CASE p = "tier2_plain"
    <3>1. Startup!Steps[p] = <<"devices", "ready">> \o <<"client", "stepper", "position">>
      BY <2>10 DEF Startup!Steps
    <3> QED BY <3>1, <2>1, <2>4, <2>6
  <2>11. CASE p = "sine_wave"
    <3>1. Startup!Steps[p] = <<"wifi_request", "wifi_address">> \o <<"client">>
      BY <2>11 DEF Startup!Steps
    <3> QED BY <3>1, <2>2, <2>4, <2>6
  <2>12. p \in {"tier1", "tier2_wifi", "tier2_usb", "tier2_plain", "sine_wave"}
    BY DEF Startup!Steps
  <2> QED BY <2>7, <2>8, <2>9, <2>10, <2>11, <2>12
<1> HIDE DEF Names
<1>2. ASSUME NEW s \in Seq(Names) PROVE s \in Seq(Startup!ToSet(s))
  <2>1. \A i \in 1..Len(s) : s[i] \in Startup!ToSet(s)
    BY DEF Startup!ToSet
  <2> QED BY <2>1, ElementOfSeq
<1> QED BY <1>1, <1>2

(* Initially the wait has lasted no time and all steps are still to do.      *)
LEMMA StartupInit == Startup!Init => StartupInv
<1> SUFFICES ASSUME Startup!Init PROVE StartupInv
  OBVIOUS
<1> DEFINE steps == Startup!Steps[program]
<1>1. steps \in Seq(Startup!ToSet(steps))
  BY StepsAreSequences DEF Startup!Init
<1>2. Startup!TypeOK
  <2>1. todo \in Seq(Startup!ToSet(steps))
    BY <1>1 DEF Startup!Init
  <2>2. Modulus \in Nat /\ lasted = 0
    BY StartupAssumed DEF Startup!Init, Startup!StartupAssumption
  <2>3. lasted \in 0..Modulus
    BY <2>2
  <2> QED BY <2>1, <2>3 DEF Startup!Init, Startup!TypeOK
<1>3. WaitExact
  BY StartupAssumed DEF Startup!Init, WaitExact, Startup!Elapsed, Startup!StartupAssumption
<1>4. StepsInOrder
  <2>1. Len(steps) \in Nat /\ todo = steps
    BY <1>1, LenProperties DEF Startup!Init
  <2>2. Len(todo) = Len(steps) - 0 /\ \A i \in 1..Len(todo) : todo[i] = steps[0 + i]
    BY <2>1
  <2> QED BY <2>1, <2>2 DEF StepsInOrder
<1> QED BY <1>2, <1>3, <1>4 DEF StartupInv, Startup!Init

(* A poll moves the clock and the length of the wait by the same time.       *)
LEMMA PollInv ==
  ASSUME StartupInv, Startup!Poll
  PROVE  StartupInv'
<1>1. PICK t \in 1..MaxSleep :
        /\ uptime' = (uptime + t) % Modulus
        /\ lasted' = IF lasted + t < Modulus THEN lasted + t ELSE Modulus
  BY DEF Startup!Poll
<1>2. /\ Modulus \in Nat /\ Modulus > 0 /\ t \in Nat
      /\ uptime \in 0..(Modulus - 1) /\ start \in 0..(Modulus - 1) /\ lasted \in 0..Modulus
  BY StartupAssumed DEF StartupInv, Startup!TypeOK, Startup!StartupAssumption
<1>3. /\ UNCHANGED <<program, todo, returned, start, done, failed, sensor, reachable>>
  BY DEF Startup!Poll, Startup!worldVars
<1>4. uptime' \in 0..(Modulus - 1) /\ lasted' \in 0..Modulus
  BY <1>1, <1>2
<1>5. Startup!TypeOK'
  BY <1>3, <1>4 DEF StartupInv, Startup!TypeOK
<1>6. WaitExact'
  <2> SUFFICES ASSUME lasted' < Modulus PROVE (uptime' - start) % Modulus = lasted'
    BY <1>3 DEF WaitExact, Startup!Elapsed
  <2>1. lasted' = lasted + t /\ lasted + t < Modulus /\ (uptime - start) % Modulus = lasted
    BY <1>1, <1>2 DEF StartupInv, WaitExact, Startup!Elapsed
  <2> QED BY <1>1, <1>2, <2>1
<1>7. StepsInOrder'
  BY <1>3 DEF StartupInv, StepsInOrder
<1> QED BY <1>3, <1>5, <1>6, <1>7 DEF StartupInv

(* main() returns for a reason.                                              *)
LEMMA ReturnInv ==
  ASSUME StartupInv, Startup!Return(TRUE)
  PROVE  StartupInv'
  BY DEF Startup!Return, Startup!timeVars, Startup!worldVars, StartupInv, Startup!TypeOK,
     WaitExact, Startup!Elapsed, StepsInOrder

(* A timer that shows a timeout tells the truth.                             *)
LEMMA ExpiryIsReal ==
  ASSUME StartupInv, NEW t \in {CarrierTimeout, AddressTimeout, LeaseTimeout, ClientTimeout}
  PROVE  (Startup!Elapsed > t => lasted > t) /\ (Startup!Elapsed >= t => lasted >= t)
<1>1. t \in Nat /\ t < Modulus /\ Modulus \in Nat
  BY StartupAssumed DEF Startup!StartupAssumption
<1>2. lasted \in 0..Modulus /\ (lasted < Modulus => Startup!Elapsed = lasted)
  BY DEF StartupInv, Startup!TypeOK, WaitExact
<1> QED BY <1>1, <1>2

(* The next step begins with a timer of its own, the one before it is done   *)
(* or was one main() does without.                                           *)
LEMMA GoOnInv ==
  ASSUME StartupInv, todo # <<>>, Startup!GoOn,
         \/ done' = done \cup {Head(todo)}
         \/ done' = done /\ Head(todo) \in Optional,
         UNCHANGED <<failed, program, sensor, reachable>>
  PROVE  StartupInv'
<1> DEFINE steps == Startup!Steps[program]
           S == Startup!ToSet(steps)
<1>1. /\ todo' = Tail(todo) /\ start' = uptime /\ lasted' = 0
      /\ UNCHANGED <<returned, uptime>>
  BY DEF Startup!GoOn
<1>2. /\ todo \in Seq(S) /\ program \in DOMAIN Startup!Steps /\ done \subseteq S
      /\ uptime \in 0..(Modulus - 1)
  BY DEF StartupInv, Startup!TypeOK
<1>3. steps \in Seq(S)
  BY <1>2, StepsAreSequences
<1>4. steps' = steps /\ S' = S
  OBVIOUS
<1> HIDE DEF steps, S
<1>5. /\ Head(todo) \in S /\ Tail(todo) \in Seq(S)
      /\ Len(todo) \in Nat \ {0} /\ Len(steps) \in Nat
      /\ Head(todo) = todo[1] /\ Len(Tail(todo)) = Len(todo) - 1
      /\ \A i \in 1..Len(Tail(todo)) : Tail(todo)[i] = todo[i + 1]
  BY <1>2, <1>3, HeadTailProperties, EmptySeq, LenProperties
<1>6. Startup!TypeOK'
  <2>1. todo' \in Seq(S) /\ done' \subseteq S
    BY <1>1, <1>2, <1>5
  <2>2. todo' \in Seq(S') /\ done' \subseteq S'
    BY <2>1, <1>4
  <2>3. Modulus \in Nat
    BY StartupAssumed DEF Startup!StartupAssumption
  <2> QED BY <1>1, <2>2, <2>3 DEF StartupInv, Startup!TypeOK, S, steps
<1>7. WaitExact'
  <2>1. Modulus \in Nat /\ Modulus > 0
    BY StartupAssumed DEF Startup!StartupAssumption
  <2> QED BY <1>1, <1>2, <2>1 DEF WaitExact, Startup!Elapsed
<1>8. StepsInOrder'
  <2>1. PICK k \in 0..Len(steps) :
          /\ Len(todo) = Len(steps) - k
          /\ \A i \in 1..Len(todo) : todo[i] = steps[k + i]
          /\ \A i \in 1..k : steps[i] \in done \cup Optional
    BY DEF StartupInv, StepsInOrder, steps
  <2>2. k + 1 \in 0..Len(steps) /\ Len(todo') = Len(steps) - (k + 1)
    BY <1>1, <1>5, <2>1
  <2>3. \A i \in 1..Len(todo') : todo'[i] = steps[(k + 1) + i]
    BY <1>1, <1>5, <2>1
  <2>4. steps[k + 1] = Head(todo)
    BY <1>5, <2>1
  <2>5. \A i \in 1..(k + 1) : steps[i] \in done' \cup Optional
    <3> SUFFICES ASSUME NEW i \in 1..(k + 1) PROVE steps[i] \in done' \cup Optional
      OBVIOUS
    <3>1. i \in 1..k \/ i = k + 1
      BY <2>1
    <3>2. done \subseteq done' /\ Head(todo) \in done' \cup Optional
      OBVIOUS
    <3> QED BY <2>1, <2>4, <3>1, <3>2
  <2>6. \E j \in 0..Len(steps') :
          /\ Len(todo') = Len(steps') - j
          /\ \A i \in 1..Len(todo') : todo'[i] = steps'[j + i]
          /\ \A i \in 1..j : steps'[i] \in done' \cup Optional
    BY <1>4, <2>2, <2>3, <2>5
  <2> QED BY <2>6 DEF StepsInOrder, steps
<1>9. (returned => failed)'
  BY <1>1 DEF StartupInv
<1> QED BY <1>6, <1>7, <1>8, <1>9 DEF StartupInv

(* A step that succeeds is done.                                             *)
LEMMA SucceedInv ==
  ASSUME StartupInv, todo # <<>>, Startup!Succeed
  PROVE  StartupInv'
  BY GoOnInv DEF Startup!Succeed, Startup!worldVars

(* Every step of main() preserves the invariant.                             *)
LEMMA StartupStep == StartupInv /\ [Startup!Main]_(Startup!vars) => StartupInv'
<1> SUFFICES ASSUME StartupInv, [Startup!Main]_(Startup!vars) PROVE StartupInv'
  OBVIOUS
<1>1. ASSUME NEW t \in {CarrierTimeout, AddressTimeout, LeaseTimeout, ClientTimeout},
             Startup!Elapsed > t, Startup!Return(lasted > t)
      PROVE  StartupInv'
  <2>1. (lasted > t) = TRUE
    BY <1>1, ExpiryIsReal
  <2>2. Startup!Return(TRUE)
    BY <1>1, <2>1 DEF Startup!Return
  <2> QED BY <2>2, ReturnInv
<1>2. ASSUME Startup!Elapsed >= ClientTimeout, Startup!Return(lasted >= ClientTimeout)
      PROVE  StartupInv'
  <2>1. (lasted >= ClientTimeout) = TRUE
    BY <1>2, ExpiryIsReal
  <2>2. Startup!Return(TRUE)
    BY <1>2, <2>1 DEF Startup!Return
  <2> QED BY <2>2, ReturnInv
<1>3. ASSUME NEW step, Startup!At(step)
      PROVE  todo # <<>> /\ Head(todo) = step
  BY <1>3 DEF Startup!At
<1>4. CASE Startup!Devices
  BY <1>4, <1>3, SucceedInv, ReturnInv DEF Startup!Devices
<1>5. CASE Startup!Ready
  BY <1>5, <1>3, SucceedInv DEF Startup!Ready
<1>6. CASE Startup!WifiRequest
  BY <1>6, <1>1, <1>3, SucceedInv, PollInv DEF Startup!WifiRequest
<1>7. CASE Startup!UsbEnable
  BY <1>7, <1>3, SucceedInv, ReturnInv DEF Startup!UsbEnable
<1>8. CASE Startup!GotAddress
  BY <1>8, <1>3, SucceedInv DEF Startup!GotAddress
<1>9. CASE Startup!NoAddress
  BY <1>9, <1>1, PollInv DEF Startup!NoAddress
<1>10. CASE Startup!UsbLease
  BY <1>10, <1>3, SucceedInv, PollInv, GoOnInv
     DEF Startup!UsbLease, Startup!worldVars, Optional
<1>11. CASE Startup!Ntp
  BY <1>11, <1>3, SucceedInv, GoOnInv DEF Startup!Ntp, Startup!worldVars, Optional
<1>12. CASE Startup!ClientInit
  BY <1>12, <1>2, <1>3, SucceedInv, PollInv, ReturnInv DEF Startup!ClientInit
<1>13. CASE Startup!StepperEnable
  BY <1>13, <1>3, SucceedInv, ReturnInv DEF Startup!StepperEnable
<1>14. CASE Startup!InitialPosition
  BY <1>14, <1>3, SucceedInv, ReturnInv DEF Startup!InitialPosition
<1>15. CASE Startup!Calibrate
  BY <1>15, <1>3, SucceedInv, ReturnInv DEF Startup!Calibrate
<1>16. CASE UNCHANGED Startup!vars
  BY <1>16 DEF Startup!vars, Startup!timeVars, Startup!worldVars, StartupInv, Startup!TypeOK,
     WaitExact, Startup!Elapsed, StepsInOrder
<1> QED BY <1>4, <1>5, <1>6, <1>7, <1>8, <1>9, <1>10, <1>11, <1>12, <1>13, <1>14, <1>15, <1>16
        DEF Startup!Main

(* The timers of the start-up measure the time that has passed, and the      *)
(* steps are taken in their order.                                           *)
THEOREM StartupInvariant == Startup!Spec => []StartupInv
<1> QED BY StartupInit, StartupStep, PTL DEF Startup!Spec

(* In every behaviour of MCNetworkInit the firmware starts up as             *)
(* FirmwareStartup says, or not at all.                                      *)
LEMMA StartsUp == MCSpec => Startup!Spec
<1>1. MCInit => Startup!Init
  BY DEF MCInit
<1>2. [MCNext]_allVars => [Startup!Main]_(Startup!vars)
  BY DEF MCNext, OfNetwork, OfStartup, allVars, startupVars, Startup!vars, Startup!timeVars,
     Startup!worldVars
<1> QED BY <1>1, <1>2, PTL DEF MCSpec, Startup!Spec

(* The loop finds everything set up, and main() returns only after a call    *)
(* failed or a wait really lasted its timeout.                               *)
THEOREM StartupIsSound == MCSpec => []StartupSound
<1>1. StartupInv => StartupSound
  <2> SUFFICES ASSUME StartupInv, todo = <<>> PROVE Startup!SetUp
    BY DEF StartupInv, StartupSound, Startup!StartupSound
  <2> DEFINE steps == Startup!Steps[program]
  <2>1. steps \in Seq(Startup!ToSet(steps))
    BY StepsAreSequences DEF StartupInv, Startup!TypeOK
  <2>2. Len(steps) \in Nat /\ DOMAIN steps = 1..Len(steps) /\ Len(todo) = 0
    BY <2>1, LenProperties, EmptySeq
  <2>3. \A i \in 1..Len(steps) : steps[i] \in done \cup Optional
    BY <2>2 DEF StartupInv, StepsInOrder
  <2> QED BY <2>2, <2>3 DEF Startup!SetUp, Startup!ToSet, Optional
<1> QED BY <1>1, StartsUp, StartupInvariant, PTL
===============================================================================
