---------------------------- MODULE MCNetworkInit ----------------------------
(* NetworkInit for TLC: an uptime that wraps at 12, so that every wait is   *)
(* met with a wrap before, in and after it.  In behaviours of their own the *)
(* start-up of the firmwares of FirmwareStartup.  The two share no state;   *)
(* part says which of them a behaviour is about, the other one does not     *)
(* start or is over.                                                        *)
EXTENDS NetworkInit

CONSTANT ClientTimeout

VARIABLES
  part,
  program, todo, returned, uptime, start, lasted,   \* of FirmwareStartup
  sensor, reachable, done, failed

Startup == INSTANCE FirmwareStartup WITH
             WifiTimeout <- CarrierTimeout, clock <- uptime, timer <- start, waited <- lasted
startupVars == <<program, todo, returned, uptime, start, lasted, sensor, reachable, done, failed>>
allVars == <<part, vars, startupVars>>

ASSUME StartupAssumed == Startup!StartupAssumption

NetworkIsDown ==
  /\ pc = "done" /\ usb_ret = "failed" /\ wifi_ret = "failed" /\ seen = {}
  /\ clock = 0 /\ timer = 0 /\ waited = 0
  /\ carrier = FALSE /\ address = [i \in Interfaces |-> FALSE]

MCInit ==
  /\ Startup!Init
  /\ \/ /\ part = "network" /\ Init
        /\ uptime = 0 /\ program = "sine_wave" /\ sensor = FALSE /\ reachable = FALSE
     \/ part = "startup" /\ NetworkIsDown
OfNetwork(A) == part = "network" /\ A /\ UNCHANGED <<part, startupVars>>
OfStartup(A) == part = "startup" /\ A /\ UNCHANGED <<part, vars>>
MCNext == OfNetwork(Next) \/ OfStartup(Startup!Main)

\* The fairness of the two modules, each in its own behaviours.
MCFairness ==
  /\ WF_allVars(OfNetwork(Code))
  /\ WF_allVars(OfStartup(Startup!Main)) /\ SF_allVars(OfStartup(Startup!GotAddress))
MCSpec == MCInit /\ [][MCNext]_allVars /\ MCFairness

(* The loop finds everything set up, and main() returns only after a real   *)
(* failure, see FirmwareStartup.                                            *)
StartupSound == Startup!StartupSound

(* Start-up comes to an end, see FirmwareStartup.                           *)
StartupEnds == part = "startup" => Startup!StartupEnds
===============================================================================
