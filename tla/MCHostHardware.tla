---------------------------- MODULE MCHostHardware ----------------------------
(* HostHardware for TLC: two fields in each direction, three messages.  In  *)
(* behaviours of their own the schemas and bytes of InterfaceSchema: one    *)
(* section of up to three fields of every type and an unknown one, the      *)
(* other of one field, missing or without a value.  The two share no state; *)
(* part says which of them a behaviour is about, the other does not start.  *)
EXTENDS HostHardware

CONSTANTS Documents, Missing, Empty, Doubles, Garbage   \* of InterfaceSchema

MCNames == {"float32", "float64", "double", "int32", "uint64", "int16", "uint8", "bool"}
MCAny == UNION {[1..n -> MCNames] : n \in 0..2}
         \cup [1..3 -> {"double", "int16", "uint8"}] \cup {Missing, Empty}
MCFew == {<<"int16">>, Missing, Empty}
MCDocuments == {[state |-> s, command |-> c] : s \in MCAny, c \in MCFew}
               \cup {[state |-> s, command |-> c] : s \in MCFew, c \in MCAny}
\* 0, -1.5 and 300, which a uint8 cannot hold.
MCDoubles == {0, -3, 600}

VARIABLES
  part,
  document, host_at, fields, buffer_size, generator_at,   \* of InterfaceSchema
  members, byte_size, bytes, encoded

Schema == INSTANCE InterfaceSchema WITH Values <- Doubles, sent <- encoded
schemaVars == <<document, host_at, fields, buffer_size, generator_at,
                members, byte_size, bytes, encoded>>
allVars == <<part, vars, schemaVars>>

ASSUME SchemaAssumed == Schema!SchemaAssumption

MCInit ==
  /\ Init /\ Schema!Init
  /\ part \in {"host", "schema"}
  /\ part = "host" => document = [s \in {"state", "command"} |-> Missing]
OfHost(A) == part = "host" /\ A /\ UNCHANGED <<part, schemaVars>>
OfSchema(A) == part = "schema" /\ A /\ UNCHANGED <<part, vars>>
MCNext == OfHost(Next) \/ OfSchema(Schema!Next)

\* The fairness of HostHardware, in its own behaviours.
MCFairness ==
  /\ WF_allVars(OfHost(RealTime)) /\ WF_allVars(OfHost(CallbackReturn))
  /\ SF_allVars(OfHost(CallbackLock))
MCSpec == MCInit /\ [][MCNext]_allVars /\ MCFairness

(* Both ends agree about every message and its fields, see InterfaceSchema. *)
FieldsArrive == Schema!FieldsArrive
===============================================================================
