--------------------------- MODULE MCPendulumTier1 ---------------------------
(* Tier 1 for TLC: the control loop of PendulumTier1, and in behaviours of  *)
(* their own the messages of JointCdr.  The two share no state; part says   *)
(* which of them a behaviour is about, the other one does not start.        *)
EXTENDS PendulumTier1, JointCdr

\* Two velocities; the timeout and the counter's modulus are in the cfg.
MCVelocities == {"left", "right"}

\* Strings whose ends fall on different alignments, one or two joints, clients
\* with a string too long for the state template or the command layout, or
\* just for the doubles behind them, and commands of senders that use other
\* strings and counts.
S1 == <<1, 1>>
S4 == <<4, 1>>
S6 == <<6, 1>>
S15 == <<15, 1>>
S60 == <<60, 1>>
S120 == <<120, 1>>

MCParams ==
  {[frame_id |-> f, joint_names |-> n, interface_name |-> IF f = Null THEN S4 ELSE Null] :
     f \in {Null, S6}, n \in {<<S1>>, <<S4, S6>>}}
  \cup {[frame_id |-> f, joint_names |-> <<S1, S4>>, interface_name |-> i] :
            f \in {S60, S120}, i \in {S4, S60}}
MCCommands ==
  {[stamp |-> 1, frame_id |-> f, joint_names |-> n, interface_name |-> i,
    values |-> [j \in 1..v |-> <<v, "command", j>>]] :
     f \in {S1, S6}, n \in {<<S1>>, <<S6, S4>>, <<S15>>}, i \in {EmptyString, S4}, v \in 1..2}

VARIABLE part
allVars == <<part, vars, cdrVars>>

MCInit ==
  \/ part = "loop" /\ Init
     /\ CdrInit /\ params = [frame_id |-> Null, joint_names |-> <<S1>>, interface_name |-> S4]
  \/ part = "cdr" /\ CdrInit
     /\ Init /\ buffer = Zero /\ accepted = 0 /\ hpc = "idle"
OfLoop(A) == part = "loop" /\ A /\ UNCHANGED <<part, cdrVars>>
OfCdr(A) == part = "cdr" /\ A /\ UNCHANGED <<part, vars>>
MCNext == OfLoop(Next) \/ OfCdr(CdrNext)

\* The fairness of PendulumTier1, in its own behaviours.
MCFairness ==
  /\ WF_allVars(OfLoop(Loop)) /\ WF_allVars(OfLoop(CountCommand))
  /\ SF_allVars(OfLoop(Drive /\ StopStepper))
MCSpec == MCInit /\ [][MCNext]_allVars /\ MCFairness
===============================================================================
