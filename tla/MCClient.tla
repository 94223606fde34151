------------------------------- MODULE MCClient -------------------------------
(* Client for TLC, two of them.  In one part of the behaviours the second   *)
(* makes no calls, so that the first is alone; in the other the two share   *)
(* the transport and get no command that they would accept: destroy()       *)
(* leaves a subscription declared while the other client is there, and      *)
(* where a callback leads then is shown with Client itself.  Frequency 0,   *)
(* which makes start_thread refuse, is for the one that is alone.           *)
EXTENDS Client

CONSTANT Other

VARIABLE part

allVars == <<part, vars>>

MCInit == Init /\ part \in {"alone", "pair"}
InPart(A) ==
  /\ A
  /\ \/ part = "alone" /\ UNCHANGED apc[Other]
     \/ /\ part = "pair" /\ hpc' # "count"
        /\ \A c \in Clients : apc'[c] = "idle" \/ request'[c] # 0
  /\ UNCHANGED part
MCNext == InPart(Next)

\* The fairness of Client.  Of two that want transport_mutex nobody waits for
\* ever: k_mutex_unlock hands it to the one that waits.
MCFairness ==
  /\ \A c \in Clients : SF_allVars(InPart(CallStep(c))) /\ WF_allVars(InPart(ThreadStep(c)))
  /\ WF_allVars(InPart(HandlerStep))
MCSpec == MCInit /\ [][MCNext]_allVars /\ MCFairness
===============================================================================
