----------------------------- MODULE NetworkInit -----------------------------
(***************************************************************************)
(* init_network of zenbedded_common/src/network.cpp with both transports   *)
(* enabled: USB CDC first (enable, carrier, IPv4 address, DHCP lease of    *)
(* the host), then Wi-Fi (connect request, IPv4 address).  Every wait      *)
(* polls a condition and measures its age as k_uptime_get_32() - timer in  *)
(* uint32_t arithmetic; the uptime wraps after 2^32 ms, and a wait may     *)
(* begin at any uptime.  The time that passes between two waits, where no  *)
(* timer is read (500 ms for the radio, net_config_init_app), is left out. *)
(***************************************************************************)
EXTENDS Integers

CONSTANTS
  Modulus,          \* 2^32
  CarrierTimeout,   \* 2000 ms
  AddressTimeout,   \* kIpv4AcquireTimeout
  LeaseTimeout,     \* 5000 ms
  MaxSleep          \* the longest a poll's k_sleep takes, scheduling included

ASSUME NetworkAssumption ==
  /\ Modulus \in Nat /\ MaxSleep \in Nat \ {0}
  /\ CarrierTimeout \in Nat /\ AddressTimeout \in Nat /\ LeaseTimeout \in Nat
  /\ CarrierTimeout + MaxSleep < Modulus
  /\ AddressTimeout + MaxSleep < Modulus
  /\ LeaseTimeout + MaxSleep < Modulus

VARIABLES
  pc,         \* where init_network is
  clock,      \* k_uptime_get_32()
  timer,      \* the start of the present wait
  carrier,    \* the USB cable is plugged in
  address,    \* per interface: it has a preferred IPv4 address
  usb_ret, wifi_ret,  \* what init_usbd and init_wifi returned
  waited,     \* history: how long the present wait really lasts
  seen        \* history: interfaces whose address the code has seen

vars == <<pc, clock, timer, carrier, address, usb_ret, wifi_ret, waited, seen>>
linkVars == <<carrier, address>>
resultVars == <<usb_ret, wifi_ret, seen>>

Interfaces == {"usb", "wifi"}
Waits == {"usb_carrier", "usb_address", "usb_lease", "wifi_address"}
Results == {"none", "ok", "failed", "timeout"}
TimeoutOf(p) ==
  CASE p = "usb_carrier" -> CarrierTimeout
    [] p = "usb_lease" -> LeaseTimeout
    [] OTHER -> AddressTimeout

TypeOK ==
  /\ pc \in Waits \cup {"usb_enable", "wifi_request", "done"}
  /\ clock \in 0..(Modulus - 1) /\ timer \in 0..(Modulus - 1)
  /\ carrier \in BOOLEAN
  /\ address \in [Interfaces -> BOOLEAN]
  /\ usb_ret \in Results /\ wifi_ret \in Results
  /\ waited \in Nat
  /\ seen \in SUBSET Interfaces

Init ==
  /\ pc = "usb_enable"
  /\ clock \in 0..(Modulus - 1) /\ timer = clock
  /\ carrier \in BOOLEAN
  /\ address = [i \in Interfaces |-> FALSE]
  /\ usb_ret = "none" /\ wifi_ret = "none"
  /\ waited = 0
  /\ seen = {}

\* uint32_t arithmetic, for sums and differences that wrap at most once.
Plus(a, b) == IF a + b < Modulus THEN a + b ELSE a + b - Modulus
Minus(a, b) == IF b <= a THEN a - b ELSE a - b + Modulus
Elapsed == Minus(clock, timer)

-------------------------------------------------------------------------------
\* timer = k_uptime_get_32(), at the head of a wait
BeginWait(p) == pc' = p /\ timer' = clock /\ waited' = 0
NoWait(p) == pc' = p /\ UNCHANGED <<timer, waited>>

Sleep ==
  /\ \E d \in 1..MaxSleep : clock' = Plus(clock, d) /\ waited' = waited + d
  /\ UNCHANGED <<pc, timer, linkVars, resultVars>>

\* Faulty variant: the uptime is compared with the end of the wait.
GiveUpDeadline(p, ready) == pc = p /\ ~ready /\ clock > Plus(timer, TimeoutOf(p))

\* while (!ready) { if (elapsed > timeout) return an error; k_sleep }
KeepWaiting(p, ready) == pc = p /\ ~ready /\ Elapsed <= TimeoutOf(p) /\ Sleep
GiveUp(p, ready) == pc = p /\ ~ready /\ Elapsed > TimeoutOf(p)

UsbReturns(r) == usb_ret' = r /\ UNCHANGED wifi_ret

UsbEnable ==
  /\ pc = "usb_enable"
  /\ \/ BeginWait("usb_carrier") /\ UNCHANGED usb_ret
     \/ NoWait("wifi_request") /\ usb_ret' = "failed"
  /\ UNCHANGED <<clock, linkVars, wifi_ret, seen>>

\* -ENOTCONN: the cable is not plugged in.
UsbCarrier ==
  \/ KeepWaiting("usb_carrier", carrier)
  \/ /\ GiveUp("usb_carrier", carrier)
     /\ NoWait("wifi_request")
     /\ UsbReturns("timeout")
     /\ UNCHANGED <<clock, linkVars, seen>>
  \/ /\ pc = "usb_carrier" /\ carrier
     /\ BeginWait("usb_address")
     /\ UNCHANGED <<clock, linkVars, resultVars>>

UsbAddress ==
  \/ KeepWaiting("usb_address", address["usb"])
  \/ /\ GiveUp("usb_address", address["usb"])
     /\ NoWait("wifi_request")
     /\ UsbReturns("timeout")
     /\ UNCHANGED <<clock, linkVars, seen>>
  \/ /\ pc = "usb_address" /\ address["usb"]
     /\ BeginWait("usb_lease")
     /\ seen' = seen \cup {"usb"}
     /\ UNCHANGED <<clock, linkVars, usb_ret, wifi_ret>>

\* while (elapsed < timeout) { break on a lease; k_sleep }: not an error.
UsbLease ==
  /\ pc = "usb_lease"
  /\ \/ Elapsed < LeaseTimeout /\ Sleep
     \/ /\ NoWait("wifi_request")
        /\ UsbReturns("ok")
        /\ UNCHANGED <<clock, linkVars, seen>>

WifiRequest ==
  /\ pc = "wifi_request"
  /\ \/ BeginWait("wifi_address") /\ UNCHANGED wifi_ret
     \/ NoWait("done") /\ wifi_ret' = "failed"
  /\ UNCHANGED <<clock, linkVars, usb_ret, seen>>

WifiAddress ==
  \/ KeepWaiting("wifi_address", address["wifi"])
  \/ /\ GiveUp("wifi_address", address["wifi"])
     /\ NoWait("done")
     /\ wifi_ret' = "timeout"
     /\ UNCHANGED <<clock, linkVars, usb_ret, seen>>
  \/ /\ pc = "wifi_address" /\ address["wifi"]
     /\ NoWait("done")
     /\ wifi_ret' = "ok"
     /\ seen' = seen \cup {"wifi"}
     /\ UNCHANGED <<clock, linkVars, usb_ret>>

\* The environment: the cable and the addresses come and go.
LinkChanges ==
  /\ pc # "done"
  /\ \/ carrier' = ~carrier /\ UNCHANGED address
     \/ /\ \E i \in Interfaces : address' = [address EXCEPT ![i] = ~@]
        /\ UNCHANGED carrier
  /\ UNCHANGED <<pc, clock, timer, resultVars, waited>>

Code == UsbEnable \/ UsbCarrier \/ UsbAddress \/ UsbLease \/ WifiRequest \/ WifiAddress
Next == Code \/ LinkChanges

(* The thread that runs init_network is scheduled. *)
Fairness == WF_vars(Code)
Spec == Init /\ [][Next]_vars
FairSpec == Spec /\ Fairness

\* Faulty variant: both transports have to be up.
SucceedsBoth == usb_ret = "ok" /\ wifi_ret = "ok"

\* The return value of init_network: 0, or -ENETDOWN.
Succeeds == usb_ret = "ok" \/ wifi_ret = "ok"

-------------------------------------------------------------------------------
(* Each wait lasts at most its timeout and one sleep, also when the uptime  *)
(* wraps in the middle of it.                                               *)
WaitsBounded == pc \in Waits => waited <= TimeoutOf(pc) + MaxSleep

(* A timeout is never reported early: whoever gives up has really waited    *)
(* longer than the timeout.                                                 *)
NoEarlyTimeout ==
  [][ (usb_ret' = "timeout" /\ usb_ret # "timeout") \/ (wifi_ret' = "timeout" /\ wifi_ret # "timeout")
      => waited > TimeoutOf(pc) ]_vars

(* init_network reports success exactly when it has seen an IPv4 address on *)
(* at least one of the interfaces.                                          *)
SuccessMeansAddress == pc = "done" => (Succeeds <=> seen # {})

(* init_network returns, whatever the links do. *)
Returns == <>(pc = "done")

(* The inductive invariant: in a wait the modular difference is the time    *)
(* that has really passed, and the results go with the addresses seen.      *)
TimerExact == pc \in Waits => Elapsed = waited
ResultsSoFar ==
  /\ pc \in {"usb_enable", "usb_carrier", "usb_address", "usb_lease"} => usb_ret = "none"
  /\ pc # "done" => wifi_ret = "none"
  /\ pc = "usb_lease" => "usb" \in seen
  /\ pc # "usb_lease" => (usb_ret = "ok" <=> "usb" \in seen)
  /\ wifi_ret = "ok" <=> "wifi" \in seen
NetworkInv == TypeOK /\ WaitsBounded /\ TimerExact /\ ResultsSoFar
===============================================================================
