-------------------------- MODULE HostHardwareProofs --------------------------
(* Proofs about HostHardware, for any fields, values and number of messages, *)
(* and in the second part about InterfaceSchema, whose constants are those   *)
(* of MCHostHardware, for any set of schemas and of doubles.                 *)
EXTENDS MCHostHardware, Sequences, TLAPS

(* Neither loop of on_activate leaves a NaN or changes a number.             *)
LEMMA StatesReady ==
  ASSUME NEW v \in [StateFields -> 0..MaxSample \cup {NaN}]
  PROVE  /\ ReadyStates(v) \in [StateFields -> 0..MaxSample \cup {NaN}]
         /\ \A f \in StateFields : ReadyStates(v)[f] = IF v[f] = NaN THEN 0 ELSE v[f]
  BY HostAssumption DEF ReadyStates, NaNToZero
LEMMA CommandsReadied ==
  ASSUME NEW v \in [CommandFields -> Numbers]
  PROVE  /\ ReadyCommands(v) \in [CommandFields -> Numbers]
         /\ \A f \in CommandFields : /\ ReadyCommands(v)[f] # NaN
                                     /\ ReadyCommands(v)[f] = IF v[f] = NaN THEN 0 ELSE v[f]
  BY HostAssumption DEF ReadyCommands, NaNToZero, Numbers

(* After on_init the box holds zeros, and nothing is published.              *)
LEMMA InitInv == Init => HostInv
<1> SUFFICES ASSUME Init PROVE HostInv
  OBVIOUS
<1>1. TypeOK
  <2>1. hw_states \in [StateFields -> 0..MaxSample \cup {NaN}]
    BY DEF Init
  <2>2. hw_commands \in [CommandFields -> Numbers] /\ command_if \in [CommandFields -> Numbers]
    BY HostAssumption DEF Init, Numbers
  <2>3. wire \in [CommandFields -> Numbers] \cup {<<>>}
    BY DEF Init
  <2>4. state_buffer \in 0..MaxSample /\ sent \in 0..MaxSample
    BY HostAssumption DEF Init
  <2> QED BY <2>1, <2>2, <2>3, <2>4, Zenon DEF Init, TypeOK
<1>2. NoMixedSample /\ CopiedSoFar /\ BoxHeld /\ InOrder
  BY DEF Init, NoMixedSample, CopiedSoFar, BoxHeld, InOrder
<1>3. NoNaNOnWire /\ CommandsReady
  BY DEF Init, NoNaNOnWire, CommandsReady
<1> QED BY <1>1, <1>2, <1>3 DEF HostInv

(* What the calls of one thread leave alone, the parts of the invariant that *)
(* do not mention their variables keep.                                      *)
LEMMA StatesUntouched ==
  ASSUME HostInv, UNCHANGED <<hw_states, boxVars, cycle, copied, sent>>
  PROVE  NoMixedSample' /\ CopiedSoFar' /\ InOrder'
  BY DEF boxVars, HostInv, NoMixedSample, CopiedSoFar, InOrder
LEMMA CommandsUntouched ==
  ASSUME HostInv, UNCHANGED <<life, zenohVars, commandVars>>
  PROVE  NoNaNOnWire' /\ CommandsReady'
  BY DEF zenohVars, commandVars, HostInv, NoNaNOnWire, CommandsReady

(* The life-cycle callbacks preserve the invariant.                          *)
LEMMA LifeCycleInv == HostInv /\ LifeCycle => HostInv'
<1> SUFFICES ASSUME HostInv, LifeCycle PROVE HostInv'
  OBVIOUS
<1> USE DEF zenohVars, boxVars, commandVars
<1>1. CASE OnInit
  <2>1. TypeOK' /\ BoxHeld'
    BY <1>1 DEF OnInit, HostInv, TypeOK, BoxHeld
  <2>2. NoNaNOnWire' /\ CommandsReady'
    BY <1>1 DEF OnInit, HostInv, NoNaNOnWire, CommandsReady
  <2> QED BY <1>1, <2>1, <2>2, StatesUntouched DEF OnInit, HostInv
<1>2. CASE ConfigureOrCleanup
  <2>1. TypeOK' /\ BoxHeld'
    BY <1>2 DEF ConfigureOrCleanup, HostInv, TypeOK, BoxHeld
  <2>2. NoNaNOnWire' /\ CommandsReady'
    BY <1>2 DEF ConfigureOrCleanup, HostInv, NoNaNOnWire, CommandsReady
  <2> QED BY <1>2, <2>1, <2>2, StatesUntouched DEF ConfigureOrCleanup, HostInv
<1>3. CASE OnActivate
  <2>1. /\ hw_states' \in [StateFields -> 0..MaxSample \cup {NaN}]
        /\ \A f \in StateFields : hw_states'[f] = IF hw_states[f] = NaN THEN 0 ELSE hw_states[f]
    BY <1>3, StatesReady DEF OnActivate, HostInv, TypeOK
  <2>2. /\ hw_commands' \in [CommandFields -> Numbers]
        /\ \A f \in CommandFields :
             /\ hw_commands'[f] # NaN
             /\ hw_commands'[f] = IF hw_commands[f] = NaN THEN 0 ELSE hw_commands[f]
    BY <1>3, CommandsReadied DEF OnActivate, HostInv, TypeOK
  <2>3. TypeOK'
    BY <1>3, <2>1, <2>2 DEF OnActivate, HostInv, TypeOK
  <2>4. NoMixedSample' /\ BoxHeld' /\ CopiedSoFar'
    BY <1>3, <2>1 DEF OnActivate, HostInv, NoMixedSample, BoxHeld, CopiedSoFar
  <2>5. InOrder'
    BY <1>3, <2>1, HostAssumption DEF OnActivate, HostInv, TypeOK, InOrder
  <2>6. NoNaNOnWire'
    BY <1>3 DEF OnActivate, HostInv, NoNaNOnWire
  <2>7. ASSUME wire # <<>> PROVE hw_commands' = hw_commands
    BY <2>2, <2>7 DEF HostInv, TypeOK, NoNaNOnWire, CommandsReady
  <2>8. CommandsReady'
    BY <1>3, <2>2, <2>7 DEF OnActivate, HostInv, CommandsReady
  <2> QED BY <2>3, <2>4, <2>5, <2>6, <2>8 DEF HostInv
<1>4. CASE OnActivateFails
  <2>1. TypeOK' /\ BoxHeld'
    BY <1>4 DEF OnActivateFails, HostInv, TypeOK, BoxHeld
  <2>2. NoNaNOnWire' /\ CommandsReady'
    BY <1>4 DEF OnActivateFails, HostInv, NoNaNOnWire, CommandsReady
  <2> QED BY <1>4, <2>1, <2>2, StatesUntouched DEF OnActivateFails, HostInv
<1>5. CASE OnDeactivate
  <2>1. TypeOK' /\ BoxHeld'
    BY <1>5 DEF OnDeactivate, HostInv, TypeOK, BoxHeld
  <2>2. NoNaNOnWire' /\ CommandsReady'
    BY <1>5 DEF OnDeactivate, HostInv, NoNaNOnWire, CommandsReady
  <2> QED BY <1>5, <2>1, <2>2, StatesUntouched DEF OnDeactivate, HostInv
<1> QED BY <1>1, <1>2, <1>3, <1>4, <1>5 DEF LifeCycle

(* The subscriber callback preserves the invariant.                          *)
LEMMA CallbackInv == HostInv /\ (CallbackBegin \/ Zenoh) => HostInv'
<1> SUFFICES ASSUME HostInv, CallbackBegin \/ Zenoh PROVE HostInv'
  OBVIOUS
<1> USE DEF zenohVars, boxVars, commandVars
<1>1. CASE CallbackBegin
  <2>1. TypeOK' /\ InOrder'
    BY <1>1, HostAssumption DEF CallbackBegin, HostInv, TypeOK, InOrder
  <2>2. NoMixedSample' /\ CopiedSoFar' /\ BoxHeld'
    BY <1>1, HostAssumption DEF CallbackBegin, HostInv, TypeOK, NoMixedSample, CopiedSoFar, BoxHeld
  <2> QED BY <1>1, <2>1, <2>2, CommandsUntouched DEF CallbackBegin, HostInv
<1>2. CASE CallbackLock
  <2>1. TypeOK' /\ InOrder'
    BY <1>2, HostAssumption DEF CallbackLock, HostInv, TypeOK, InOrder
  <2>2. NoMixedSample' /\ CopiedSoFar' /\ BoxHeld'
    BY <1>2 DEF CallbackLock, HostInv, NoMixedSample, CopiedSoFar, BoxHeld
  <2> QED BY <1>2, <2>1, <2>2, CommandsUntouched DEF CallbackLock, HostInv
<1>3. CASE CallbackReturn
  <2>1. TypeOK' /\ InOrder'
    BY <1>3 DEF CallbackReturn, HostInv, TypeOK, InOrder
  <2>2. NoMixedSample' /\ CopiedSoFar' /\ BoxHeld'
    BY <1>3 DEF CallbackReturn, HostInv, NoMixedSample, CopiedSoFar, BoxHeld
  <2> QED BY <1>3, <2>1, <2>2, CommandsUntouched DEF CallbackReturn, HostInv
<1> QED BY <1>1, <1>2, <1>3 DEF Zenoh

(* read(), the controllers and write() preserve the invariant.               *)
LEMMA RealTimeInv == HostInv /\ RealTime => HostInv'
<1> SUFFICES ASSUME HostInv, RealTime PROVE HostInv'
  OBVIOUS
<1> USE DEF zenohVars, boxVars, commandVars, readUnchanged
<1>1. CASE ReadTry
  <2>1. TypeOK' /\ InOrder' /\ BoxHeld'
    BY <1>1 DEF ReadTry, HostInv, TypeOK, InOrder, BoxHeld
  <2>2. NoMixedSample' /\ CopiedSoFar'
    BY <1>1 DEF ReadTry, HostInv, NoMixedSample, CopiedSoFar
  <2> QED BY <1>1, <2>1, <2>2, CommandsUntouched DEF ReadTry, HostInv
<1>2. ASSUME NEW f \in StateFields, ReadField(f) PROVE HostInv'
  <2>1. \A g \in StateFields : hw_states'[g] = IF g = f THEN state_buffer ELSE hw_states[g]
    BY <1>2 DEF ReadField, HostInv, TypeOK
  <2>2. TypeOK' /\ BoxHeld'
    BY <1>2 DEF ReadField, HostInv, TypeOK, BoxHeld
  <2>3. InOrder'
    BY <1>2, <2>1 DEF ReadField, HostInv, TypeOK, InOrder
  <2>4. NoMixedSample' /\ CopiedSoFar'
    BY <1>2, <2>1 DEF ReadField, HostInv, TypeOK, NoMixedSample, CopiedSoFar
  <2> QED BY <1>2, <2>2, <2>3, <2>4, CommandsUntouched DEF ReadField, HostInv
<1>3. CASE ReadReturn
  <2>1. TypeOK' /\ InOrder' /\ BoxHeld'
    BY <1>3 DEF ReadReturn, HostInv, TypeOK, InOrder, BoxHeld
  <2>2. NoMixedSample' /\ CopiedSoFar'
    BY <1>3 DEF ReadReturn, HostInv, NoMixedSample, CopiedSoFar
  <2> QED BY <1>3, <2>1, <2>2, CommandsUntouched DEF ReadReturn, HostInv
<1>4. CASE Update
  <2>1. TypeOK' /\ BoxHeld'
    BY <1>4 DEF Update, HostInv, TypeOK, BoxHeld
  <2>2. NoMixedSample' /\ CopiedSoFar' /\ InOrder'
    BY <1>4 DEF Update, HostInv, NoMixedSample, CopiedSoFar, InOrder
  <2>3. NoNaNOnWire' /\ CommandsReady'
    BY <1>4 DEF Update, HostInv, NoNaNOnWire, CommandsReady
  <2> QED BY <2>1, <2>2, <2>3 DEF HostInv
<1>5. CASE Write
  <2>1. BoxHeld' /\ NoMixedSample' /\ CopiedSoFar' /\ InOrder'
    BY <1>5 DEF Write, HostInv, BoxHeld, NoMixedSample, CopiedSoFar, InOrder
  <2>2. CASE command_pub
    <3>1. PICK free \in SUBSET CommandFields :
            /\ hw_commands' = [f \in CommandFields |-> Command(f, f \in free)]
            /\ wire' = hw_commands'
      BY <1>5, <2>2 DEF Write
    <3>2. \A f \in CommandFields : Command(f, f \in free) \in Values
      BY <2>2 DEF Command, HostInv, TypeOK, CommandsReady, Numbers
    <3>3. hw_commands' \in [CommandFields -> Values]
      BY <3>1, <3>2
    <3>4. TypeOK'
      BY <1>5, <3>1, <3>3 DEF Write, HostInv, TypeOK, Numbers
    <3>5. \A f \in CommandFields : hw_commands'[f] # NaN
      BY <3>3, HostAssumption
    <3>6. NoNaNOnWire' /\ CommandsReady'
      BY <1>5, <3>1, <3>5 DEF Write, HostInv, NoNaNOnWire, CommandsReady
    <3> QED BY <2>1, <3>4, <3>6 DEF HostInv
  <2>3. CASE ~command_pub
    <3>1. TypeOK' /\ NoNaNOnWire' /\ CommandsReady'
      BY <1>5, <2>3 DEF Write, HostInv, TypeOK, NoNaNOnWire, CommandsReady
    <3> QED BY <2>1, <3>1 DEF HostInv
  <2> QED BY <2>2, <2>3
<1> QED BY <1>1, <1>2, <1>3, <1>4, <1>5 DEF RealTime

(* Every step preserves the invariant.                                       *)
LEMMA NextInv == HostInv /\ [Next]_vars => HostInv'
<1>1. HostInv /\ UNCHANGED vars => HostInv'
  BY DEF vars, zenohVars, boxVars, commandVars, HostInv, TypeOK, NoNaNOnWire, NoMixedSample,
     BoxHeld, CopiedSoFar, InOrder, CommandsReady
<1> QED BY <1>1, LifeCycleInv, CallbackInv, RealTimeInv DEF Next

-------------------------------------------------------------------------------
(* The inductive invariant of the host component holds.                      *)
THEOREM HostInvariant == Spec => []HostInv
<1> QED BY InitInv, NextInv, PTL DEF Spec

(* No NaN is ever published, whatever the controllers command.               *)
THEOREM CommandsAreNumbers == Spec => []NoNaNOnWire
<1>1. HostInv => NoNaNOnWire
  BY DEF HostInv
<1> QED BY <1>1, HostInvariant, PTL

(* Between two reads all fields come from one message, for any number of     *)
(* fields.                                                                   *)
THEOREM SamplesAreWhole == Spec => []NoMixedSample
<1>1. HostInv => NoMixedSample
  BY DEF HostInv
<1> QED BY <1>1, HostInvariant, PTL

(* No field goes back to an older message.                                   *)
THEOREM SamplesInOrder == Spec => SamplesForward
<1>1. HostInv /\ [Next]_vars =>
        [\A f \in StateFields : hw_states[f] # NaN =>
           hw_states'[f] # NaN /\ hw_states'[f] >= hw_states[f]]_vars
  <2> SUFFICES ASSUME HostInv, Next, NEW f \in StateFields, hw_states[f] # NaN
               PROVE  hw_states'[f] # NaN /\ hw_states'[f] >= hw_states[f]
    OBVIOUS
  <2>1. hw_states[f] \in 0..MaxSample /\ hw_states[f] # NaN /\ hw_states[f] <= state_buffer
        /\ state_buffer \in 0..MaxSample /\ MaxSample \in Nat /\ NaN \notin Int
    BY HostAssumption DEF HostInv, TypeOK, InOrder
  <2>2. CASE OnActivate
    <3>1. hw_states'[f] = hw_states[f]
      BY <2>2, StatesReady DEF OnActivate, HostInv, TypeOK
    <3> QED BY <2>1, <3>1
  <2>3. ASSUME NEW g \in StateFields, ReadField(g)
        PROVE  hw_states'[f] # NaN /\ hw_states'[f] >= hw_states[f]
    <3>1. hw_states'[f] = IF f = g THEN state_buffer ELSE hw_states[f]
      BY <2>3 DEF ReadField, HostInv, TypeOK
    <3> QED BY <2>1, <3>1
  <2>4. CASE UNCHANGED hw_states
    BY <2>1, <2>4
  <2> QED
    BY <2>2, <2>3, <2>4 DEF Next, LifeCycle, OnInit, ConfigureOrCleanup, OnActivateFails,
       OnDeactivate, CallbackBegin, Zenoh, CallbackLock, CallbackReturn, RealTime, ReadTry,
       ReadReturn, Update, Write
<1> QED BY <1>1, HostInvariant, PTL DEF Spec, SamplesForward

(* A field that nobody commands repeats the last command.                    *)
THEOREM CommandHeld == Spec => HoldsLastCommand
<1>1. HostInv /\ [Next]_vars =>
        [wire # <<>> /\ wire' # wire =>
           \A f \in CommandFields : command_if[f] = NaN => wire'[f] = wire[f]]_vars
  <2> SUFFICES ASSUME HostInv, Next, wire # <<>>, wire' # wire,
                      NEW f \in CommandFields, command_if[f] = NaN
               PROVE  wire'[f] = wire[f]
    OBVIOUS
  <2>1. Write /\ command_pub
    BY DEF Next, LifeCycle, OnInit, ConfigureOrCleanup, OnActivate, OnActivateFails,
       OnDeactivate, CallbackBegin, Zenoh, CallbackLock, CallbackReturn, RealTime, ReadTry,
       ReadField, ReadReturn, Update, Write, commandVars, readUnchanged
  <2>2. wire'[f] = hw_commands[f]
    BY <2>1 DEF Write, Command
  <2> QED BY <2>2 DEF HostInv, CommandsReady
<1> QED BY <1>1, HostInvariant, PTL DEF Spec, HoldsLastCommand

-------------------------------------------------------------------------------
(* The messages: both ends' layouts of a schema and the bytes of a field,   *)
(* for every schema and all values.                                         *)

LEMMA TypeTables ==
  /\ \A c \in DOMAIN Schema!SizeOf : Schema!SizeOf[c] \in Nat \ {0}
  /\ \A t \in Schema!FieldType :
       /\ Schema!field_type_to_c_type[t] \in DOMAIN Schema!SizeOf
       /\ Schema!field_byte_size(t) = Schema!SizeOf[Schema!field_type_to_c_type[t]]
  /\ DOMAIN Schema!TYPE_MAP = DOMAIN Schema!parse_field_type
  /\ \A n \in DOMAIN Schema!TYPE_MAP :
       /\ Schema!parse_field_type[n] \in Schema!FieldType
       /\ Schema!TYPE_MAP[n].ctype = Schema!field_type_to_c_type[Schema!parse_field_type[n]]
       /\ Schema!TYPE_MAP[n].size = Schema!SizeOf[Schema!TYPE_MAP[n].ctype]
  <1>1. \A c \in DOMAIN Schema!SizeOf : Schema!SizeOf[c] \in Nat \ {0}
    BY DEF Schema!SizeOf
  <1>2. \A t \in Schema!FieldType :
          /\ Schema!field_type_to_c_type[t] \in DOMAIN Schema!SizeOf
          /\ Schema!field_byte_size(t) = Schema!SizeOf[Schema!field_type_to_c_type[t]]
    BY DEF Schema!FieldType, Schema!field_type_to_c_type, Schema!field_byte_size, Schema!SizeOf
  <1>3. /\ DOMAIN Schema!TYPE_MAP = DOMAIN Schema!parse_field_type
        /\ \A n \in DOMAIN Schema!TYPE_MAP :
             /\ Schema!parse_field_type[n] \in Schema!FieldType
             /\ Schema!TYPE_MAP[n].ctype = Schema!field_type_to_c_type[Schema!parse_field_type[n]]
    BY DEF Schema!TYPE_MAP, Schema!parse_field_type, Schema!field_type_to_c_type, Schema!FieldType
  <1>4. \A n \in DOMAIN Schema!TYPE_MAP :
          Schema!TYPE_MAP[n].size = Schema!SizeOf[Schema!TYPE_MAP[n].ctype]
    BY DEF Schema!TYPE_MAP, Schema!SizeOf
  <1> QED BY <1>1, <1>2, <1>3, <1>4

LEMMA Elements ==
  ASSUME NEW S, NEW q \in Seq(S)
  PROVE  /\ Len(q) \in Nat /\ DOMAIN q = 1..Len(q)
         /\ \A i \in 1..Len(q) : q[i] \in S
  OBVIOUS

LEMMA Appended ==
  ASSUME NEW S, NEW q \in Seq(S), NEW e \in S
  PROVE  /\ Append(q, e) \in Seq(S)
         /\ Len(q) \in Nat /\ Len(Append(q, e)) = Len(q) + 1
         /\ \A i \in 1..Len(q) : Append(q, e)[i] = q[i]
         /\ Append(q, e)[Len(q) + 1] = e
  OBVIOUS

\* Fields with places and known types.
Field == [ctype : DOMAIN Schema!SizeOf, offset : Nat]

\* A field at the end of a packed layout.
LEMMA PackedGrows ==
  ASSUME NEW n \in Nat, NEW size \in Nat, NEW layout, NEW longer, NEW larger,
         Schema!Packed(layout, n, size),
         \A i \in 1..n : longer[i] = layout[i],
         \A i \in 1..(n + 1) : longer[i] \in Field,
         longer[n + 1].offset = size,
         larger = Schema!End(longer[n + 1])
  PROVE  Schema!Packed(longer, n + 1, larger) /\ larger \in Nat
  <1>1. \A i \in 1..(n + 1) : /\ longer[i].offset \in Nat
                              /\ Schema!End(longer[i]) \in Nat
                              /\ longer[i].offset <= Schema!End(longer[i])
    BY TypeTables DEF Field, Schema!End
  <1>2. \A i \in 1..n : /\ Schema!End(longer[i]) = Schema!End(layout[i])
                        /\ longer[i].offset = layout[i].offset
                        /\ Schema!End(longer[i]) <= size
    BY DEF Schema!Packed
  <1>3. larger \in Nat /\ size <= larger
    BY <1>1
  <1>4. longer[1].offset = 0
    BY DEF Schema!Packed
  <1>5. ASSUME NEW i \in 1..((n + 1) - 1) PROVE Schema!End(longer[i]) = longer[i + 1].offset
    <2>1. CASE i = n
      <3>1. Schema!End(layout[n]) = size
        BY <2>1 DEF Schema!Packed
      <3> QED BY <1>2, <2>1, <3>1
    <2>2. CASE i \in 1..(n - 1)
      <3>1. Schema!End(layout[i]) = layout[i + 1].offset
        BY <2>2 DEF Schema!Packed
      <3>2. i + 1 \in 1..n
        BY <2>2
      <3> QED BY <1>2, <2>2, <3>1, <3>2
    <2> QED BY <2>1, <2>2
  <1>6. ASSUME NEW i \in 1..(n + 1) PROVE Schema!End(longer[i]) <= larger
    BY <1>1, <1>2, <1>3
  <1>7. ASSUME NEW i \in 1..(n + 1), NEW j \in 1..(n + 1), i < j
        PROVE  Schema!End(longer[i]) <= longer[j].offset
    <2>1. CASE j = n + 1
      BY <1>2, <1>7, <2>1
    <2>2. CASE j \in 1..n
      <3>1. Schema!End(layout[i]) <= layout[j].offset
        BY <1>7, <2>2 DEF Schema!Packed
      <3> QED BY <1>2, <1>7, <2>2, <3>1
    <2> QED BY <2>1, <2>2
  <1> QED BY <1>3, <1>4, <1>5, <1>6, <1>7 DEF Schema!Packed

\* The parser's fields, in a state or in the next one.
Parsed == [type : Schema!FieldType, byte_offset : Nat]
LEMMA LayoutType ==
  ASSUME NEW q \in Seq(Parsed), NEW layout,
         layout = [i \in DOMAIN q |-> [ctype |-> Schema!field_type_to_c_type[q[i].type],
                                       offset |-> q[i].byte_offset]]
  PROVE  /\ Len(q) \in Nat /\ DOMAIN q = 1..Len(q)
         /\ \A i \in 1..Len(q) :
              /\ layout[i] \in Field
              /\ layout[i].offset = q[i].byte_offset
              /\ layout[i].ctype = Schema!field_type_to_c_type[q[i].type]
  <1>1. Len(q) \in Nat /\ DOMAIN q = 1..Len(q) /\ \A i \in 1..Len(q) : q[i] \in Parsed
    BY Elements
  <1>2. \A i \in 1..Len(q) : q[i].type \in Schema!FieldType /\ q[i].byte_offset \in Nat
    BY <1>1 DEF Parsed
  <1>3. \A i \in 1..Len(q) :
          layout[i] = [ctype |-> Schema!field_type_to_c_type[q[i].type], offset |-> q[i].byte_offset]
    BY <1>1
  <1> QED BY <1>1, <1>2, <1>3, TypeTables DEF Field

LEMMA HostLayoutType ==
  ASSUME Schema!TypeOK, NEW s \in Schema!Sections
  PROVE  /\ Len(fields[s]) \in Nat /\ DOMAIN fields[s] = 1..Len(fields[s])
         /\ \A i \in 1..Len(fields[s]) :
              /\ Schema!HostLayout(s)[i] \in Field
              /\ Schema!HostLayout(s)[i].offset = fields[s][i].byte_offset
              /\ Schema!HostLayout(s)[i].ctype = Schema!field_type_to_c_type[fields[s][i].type]
  <1>1. fields[s] \in Seq(Parsed)
    BY DEF Schema!TypeOK, Parsed
  <1> QED BY <1>1, LayoutType DEF Schema!HostLayout

LEMMA MembersType ==
  ASSUME Schema!TypeOK, NEW s \in Schema!Sections
  PROVE  /\ Len(members[s]) \in Nat /\ DOMAIN members[s] = 1..Len(members[s])
         /\ \A i \in 1..Len(members[s]) : members[s][i] \in Field
  <1>1. members[s] \in Seq(Field)
    BY DEF Schema!TypeOK, Field
  <1> QED BY <1>1

LEMMA FieldsEqual ==
  ASSUME NEW f \in Field, NEW g \in Field, f.ctype = g.ctype, f.offset = g.offset
  PROVE  f = g
  BY DEF Field

\* Where both ends have come, their fields are the same.
LEMMA SameFields ==
  ASSUME Schema!LayoutInv, NEW s \in Schema!Sections,
         NEW i \in 1..Len(fields[s]), i <= Len(members[s])
  PROVE  Schema!HostLayout(s)[i] = members[s][i]
  <1>1. /\ Schema!TypeOK /\ Schema!ParsedSoFar(s) /\ Schema!GeneratedSoFar(s) /\ Schema!SamePlaces(s)
    BY DEF Schema!LayoutInv
  <1>2. i \in 1..Len(members[s])
    BY <1>1, HostLayoutType
  <1>3. Schema!HostLayout(s)[i] \in Field /\ members[s][i] \in Field
    BY <1>1, <1>2, HostLayoutType, MembersType
  <1>4. Schema!HostLayout(s)[i].offset = members[s][i].offset
    BY <1>1, HostLayoutType DEF Schema!SamePlaces
  <1>5. Schema!HostLayout(s)[i].ctype = members[s][i].ctype
    <2> DEFINE name == Schema!Names(s)[i]
    <2>1. name \in DOMAIN Schema!parse_field_type /\ fields[s][i].type = Schema!parse_field_type[name]
      BY <1>1 DEF Schema!ParsedSoFar
    <2>2. name \in DOMAIN Schema!TYPE_MAP /\ members[s][i].ctype = Schema!TYPE_MAP[name].ctype
      BY <1>1, <1>2 DEF Schema!GeneratedSoFar
    <2>3. Schema!HostLayout(s)[i].ctype = Schema!field_type_to_c_type[fields[s][i].type]
      BY <1>1, HostLayoutType
    <2> HIDE DEF name
    <2> QED BY <2>1, <2>2, <2>3, TypeTables
  <1> QED BY <1>3, <1>4, <1>5, FieldsEqual

\* One more field is as far away for both ends.
LEMMA NextPlace ==
  ASSUME Schema!LayoutInv, NEW s \in Schema!Sections
  PROVE  /\ Len(fields[s]) < Len(members[s]) => members[s][Len(fields[s]) + 1].offset = buffer_size[s]
         /\ Len(members[s]) < Len(fields[s]) => fields[s][Len(members[s]) + 1].byte_offset = byte_size[s]
         /\ Len(members[s]) = Len(fields[s]) => byte_size[s] = buffer_size[s]
  <1> DEFINE n == Len(fields[s])
             m == Len(members[s])
             layout == Schema!HostLayout(s)
  <1>1. /\ Schema!TypeOK
        /\ Schema!Packed(layout, n, buffer_size[s])
        /\ Schema!Packed(members[s], m, byte_size[s])
    BY DEF Schema!LayoutInv, Schema!ParsedSoFar, Schema!GeneratedSoFar
  <1>2. n \in Nat /\ m \in Nat
    BY <1>1, HostLayoutType, MembersType
  <1>3. ASSUME NEW i \in 1..n, i <= m PROVE layout[i] = members[s][i]
    BY <1>3, SameFields
  <1>4. ASSUME NEW i \in 1..n PROVE layout[i].offset = fields[s][i].byte_offset
    BY <1>1, HostLayoutType
  <1> HIDE DEF n, m, layout
  <1>5. ASSUME n < m PROVE members[s][n + 1].offset = buffer_size[s]
    <2>1. CASE n = 0
      BY <1>1, <1>2, <1>5, <2>1 DEF Schema!Packed
    <2>2. CASE n > 0
      <3>1. n \in 1..n /\ n \in 1..(m - 1)
        BY <1>2, <1>5, <2>2
      <3>2. layout[n] = members[s][n]
        BY <1>2, <1>3, <1>5, <3>1
      <3>3. Schema!End(layout[n]) = buffer_size[s]
        BY <1>1, <2>2 DEF Schema!Packed
      <3>4. Schema!End(members[s][n]) = members[s][n + 1].offset
        BY <1>1, <3>1 DEF Schema!Packed
      <3> QED BY <3>2, <3>3, <3>4
    <2> QED BY <1>2, <2>1, <2>2
  <1>6. ASSUME m < n PROVE layout[m + 1].offset = byte_size[s]
    <2>1. CASE m = 0
      BY <1>1, <1>2, <1>6, <2>1 DEF Schema!Packed
    <2>2. CASE m > 0
      <3>1. m \in 1..n /\ m \in 1..(n - 1) /\ m <= m
        BY <1>2, <1>6, <2>2
      <3>2. layout[m] = members[s][m]
        BY <1>3, <3>1
      <3>3. Schema!End(members[s][m]) = byte_size[s]
        BY <1>1, <2>2 DEF Schema!Packed
      <3>4. Schema!End(layout[m]) = layout[m + 1].offset
        BY <1>1, <3>1 DEF Schema!Packed
      <3> QED BY <3>2, <3>3, <3>4
    <2> QED BY <1>2, <2>1, <2>2
  <1>7. ASSUME m = n PROVE byte_size[s] = buffer_size[s]
    <2>1. CASE n = 0
      BY <1>1, <1>7, <2>1 DEF Schema!Packed
    <2>2. CASE n > 0
      <3>1. layout[n] = members[s][n]
        BY <1>2, <1>3, <1>7, <2>2
      <3>2. Schema!End(layout[n]) = buffer_size[s] /\ Schema!End(members[s][n]) = byte_size[s]
        BY <1>1, <1>7, <2>2 DEF Schema!Packed
      <3> QED BY <3>1, <3>2
    <2> QED BY <1>2, <2>1, <2>2
  <1>8. ASSUME m < n PROVE fields[s][m + 1].byte_offset = byte_size[s]
    BY <1>2, <1>4, <1>6, <1>8
  <1> QED BY <1>5, <1>7, <1>8 DEF n, m

LEMMA SectionKept ==
  ASSUME Schema!LayoutInv, NEW s \in Schema!Sections, document' = document,
         fields'[s] = fields[s], buffer_size'[s] = buffer_size[s],
         members'[s] = members[s], byte_size'[s] = byte_size[s]
  PROVE  Schema!ParsedSoFar(s)' /\ Schema!GeneratedSoFar(s)' /\ Schema!SamePlaces(s)'
  <1>1. /\ Schema!ParsedSoFar(s) /\ Schema!GeneratedSoFar(s) /\ Schema!SamePlaces(s)
    BY DEF Schema!LayoutInv
  <1>2. Schema!Names(s)' = Schema!Names(s)
    BY DEF Schema!Names
  <1>3. Schema!HostLayout(s)' = Schema!HostLayout(s)
    BY DEF Schema!HostLayout
  <1> QED BY <1>1, <1>2, <1>3 DEF Schema!ParsedSoFar, Schema!GeneratedSoFar, Schema!SamePlaces

LEMMA InitLayoutInv == Schema!Init => Schema!LayoutInv
  <1> SUFFICES ASSUME Schema!Init PROVE Schema!LayoutInv
    OBVIOUS
  <1> USE DEF Schema!Init
  <1>1. Schema!TypeOK
    <2>1. /\ document \in Documents
          /\ host_at \in Schema!Sections \cup {"start", "valid", "error"}
          /\ generator_at \in Schema!Sections \cup {"written", "failed"}
      BY DEF Schema!Sections
    <2>2. buffer_size \in [Schema!Sections -> Nat] /\ byte_size \in [Schema!Sections -> Nat]
      OBVIOUS
    <2>3. /\ fields \in [Schema!Sections -> Seq(Parsed)]
          /\ members \in [Schema!Sections -> Seq([ctype : DOMAIN Schema!SizeOf, offset : Nat])]
      OBVIOUS
    <2> QED BY <2>1, <2>2, <2>3 DEF Schema!TypeOK, Parsed
  <1>2. ASSUME NEW s \in Schema!Sections
        PROVE  Schema!ParsedSoFar(s) /\ Schema!GeneratedSoFar(s) /\ Schema!SamePlaces(s) /\ Schema!Sizes(s)
    <2>1. Len(Schema!Names(s)) \in Nat
      BY SchemaAssumed DEF Schema!SchemaAssumption, Schema!Names
    <2>2. Len(fields[s]) = 0 /\ Len(members[s]) = 0 /\ buffer_size[s] = 0 /\ byte_size[s] = 0
      OBVIOUS
    <2>3. Schema!ParsedSoFar(s) /\ Schema!GeneratedSoFar(s)
      BY <2>1, <2>2 DEF Schema!ParsedSoFar, Schema!GeneratedSoFar, Schema!Packed
    <2>4. Schema!SamePlaces(s) /\ Schema!Sizes(s)
      BY <2>2 DEF Schema!SamePlaces, Schema!Sizes, Schema!Sections
    <2> QED BY <2>3, <2>4
  <1> QED BY <1>1, <1>2 DEF Schema!LayoutInv

LEMMA NamesType ==
  ASSUME Schema!TypeOK, NEW s \in Schema!Sections
  PROVE  Len(Schema!Names(s)) \in Nat
  BY SchemaAssumed DEF Schema!SchemaAssumption, Schema!Names, Schema!TypeOK

\* The steps that only move on, to a section whose fields are complete.
LEMMA MoveStep ==
  ASSUME Schema!LayoutInv,
         \/ Schema!FromYaml
         \/ \E s \in Schema!Sections : Schema!EndSection(s) \/ Schema!GenerateEnd(s)
         \/ Schema!WriteCommand \/ Schema!WriteState
  PROVE  Schema!LayoutInv'
  <1> USE DEF Schema!hostVars, Schema!generatorVars, Schema!wireVars
  <1>1. UNCHANGED <<document, fields, buffer_size, members, byte_size>>
    BY DEF Schema!FromYaml, Schema!EndSection, Schema!GenerateEnd, Schema!WriteCommand, Schema!WriteState
  <1>2. \A s \in Schema!Sections : Schema!Names(s)' = Schema!Names(s)
    BY <1>1 DEF Schema!Names
  <1>3. /\ \/ host_at' \in {host_at, "error"}
           \/ host_at' = "state"
           \/ \E s \in Schema!Sections :
                /\ host_at = s /\ Len(fields[s]) = Len(Schema!Names(s))
                /\ host_at' = Schema!After(s, "valid")
        /\ \/ generator_at' \in {generator_at, "failed"}
           \/ \E s \in Schema!Sections :
                /\ generator_at = s /\ Len(members[s]) = Len(Schema!Names(s))
                /\ generator_at' = Schema!After(s, "written")
    BY DEF Schema!FromYaml, Schema!EndSection, Schema!GenerateEnd, Schema!WriteCommand, Schema!WriteState
  <1>4. /\ host_at' \in Schema!Sections \cup {"start", "valid", "error"}
        /\ generator_at' \in Schema!Sections \cup {"written", "failed"}
    BY <1>3 DEF Schema!After, Schema!LayoutInv, Schema!TypeOK, Schema!Sections
  <1>5. ASSUME NEW t \in Schema!Sections PROVE Schema!Sizes(t)'
    <2>1. ASSUME host_at' = "valid" \/ (t = "state" /\ host_at' = "command")
          PROVE  Len(fields[t]) = Len(Schema!Names(t))
      BY <1>3, <2>1 DEF Schema!After, Schema!LayoutInv, Schema!Sizes, Schema!Sections
    <2>2. ASSUME generator_at' = "written" \/ (t = "state" /\ generator_at' = "command")
          PROVE  Len(members[t]) = Len(Schema!Names(t))
      BY <1>3, <2>2 DEF Schema!After, Schema!LayoutInv, Schema!Sizes, Schema!Sections
    <2> QED BY <1>1, <1>2, <2>1, <2>2 DEF Schema!Sizes
  <1>6. Schema!TypeOK'
    BY <1>1, <1>4 DEF Schema!LayoutInv, Schema!TypeOK
  <1> QED BY <1>1, <1>5, <1>6, SectionKept DEF Schema!LayoutInv

\* from_yaml accepts a field, or ends with an error.
LEMMA ParseStep ==
  ASSUME Schema!LayoutInv, NEW s \in Schema!Sections, Schema!ParseField(s)
  PROVE  Schema!LayoutInv'
  <1> DEFINE n == Len(fields[s])
             name == Schema!Names(s)[n + 1]
  <1>1. /\ UNCHANGED <<document, generator_at, members, byte_size>>
        /\ host_at = s /\ n < Len(Schema!Names(s))
    BY DEF Schema!ParseField, Schema!generatorVars
  <1>2. \A t \in Schema!Sections : Schema!Names(t)' = Schema!Names(t)
    BY <1>1 DEF Schema!Names
  <1>3. CASE name \notin DOMAIN Schema!parse_field_type
    <2>1. host_at' = "error" /\ UNCHANGED <<fields, buffer_size>>
      BY <1>3 DEF Schema!ParseField
    <2>2. Schema!TypeOK'
      BY <1>1, <2>1 DEF Schema!LayoutInv, Schema!TypeOK
    <2>3. ASSUME NEW t \in Schema!Sections PROVE Schema!Sizes(t)'
      BY <1>1, <1>2, <2>1 DEF Schema!LayoutInv, Schema!Sizes
    <2> QED BY <1>1, <2>1, <2>2, <2>3, SectionKept DEF Schema!LayoutInv
  <1>4. CASE name \in DOMAIN Schema!parse_field_type
    <2> DEFINE type == Schema!parse_field_type[name]
               entry == [type |-> type, byte_offset |-> buffer_size[s]]
               larger == buffer_size[s] + Schema!field_byte_size(type)
    <2>1. /\ fields' = [fields EXCEPT ![s] = Append(@, entry)]
          /\ buffer_size' = [buffer_size EXCEPT ![s] = larger]
          /\ host_at' = host_at
      BY <1>4 DEF Schema!ParseField
    <2>2. /\ Schema!TypeOK /\ Schema!ParsedSoFar(s) /\ Schema!GeneratedSoFar(s)
          /\ Schema!SamePlaces(s)
          /\ \A t \in Schema!Sections : Schema!Sizes(t)
      BY DEF Schema!LayoutInv
    <2>3. /\ buffer_size \in [Schema!Sections -> Nat]
          /\ fields \in [Schema!Sections -> Seq(Parsed)]
      BY <2>2 DEF Schema!TypeOK, Parsed
    <2>4. type \in Schema!FieldType /\ entry \in Parsed
      BY <1>4, <2>3, TypeTables DEF Parsed
    <2>5. larger \in Nat /\ larger = buffer_size[s] + Schema!SizeOf[Schema!field_type_to_c_type[type]]
      <3> HIDE DEF type
      <3>1. /\ Schema!field_byte_size(type) = Schema!SizeOf[Schema!field_type_to_c_type[type]]
            /\ Schema!SizeOf[Schema!field_type_to_c_type[type]] \in Nat
        BY <2>4, TypeTables
      <3>2. buffer_size[s] \in Nat
        BY <2>3
      <3> QED BY <3>1, <3>2
    <2>6. fields[s] \in Seq(Parsed) /\ entry.type = type /\ entry.byte_offset = buffer_size[s]
      BY <2>3
    <2> HIDE DEF entry, larger, type
    <2>7. /\ fields'[s] \in Seq(Parsed)
          /\ n \in Nat /\ Len(fields'[s]) = n + 1
          /\ \A i \in 1..n : fields'[s][i] = fields[s][i]
          /\ fields'[s][n + 1] = entry
      <3>1. fields'[s] = Append(fields[s], entry)
        BY <2>1, <2>3
      <3> QED BY <2>4, <2>6, <3>1, Appended
    <2>8. Schema!TypeOK'
      <3>1. fields' \in [Schema!Sections -> Seq(Parsed)]
        BY <2>1, <2>3, <2>7
      <3>2. buffer_size' \in [Schema!Sections -> Nat]
        BY <2>1, <2>3, <2>5
      <3> QED BY <1>1, <2>1, <2>2, <3>1, <3>2 DEF Schema!TypeOK, Parsed
    <2>9. ASSUME NEW t \in Schema!Sections, t # s
          PROVE  Schema!ParsedSoFar(t)' /\ Schema!GeneratedSoFar(t)' /\ Schema!SamePlaces(t)' /\ Schema!Sizes(t)'
      <3>1. fields'[t] = fields[t] /\ buffer_size'[t] = buffer_size[t]
        BY <2>1, <2>3, <2>9
      <3>2. Schema!Sizes(t)'
        BY <1>1, <1>2, <2>1, <2>2, <3>1 DEF Schema!Sizes
      <3> QED BY <1>1, <3>1, <3>2, SectionKept
    <2>10. Schema!ParsedSoFar(s)'
      <3> DEFINE layout == Schema!HostLayout(s)
                 longer == Schema!HostLayout(s)'
      <3>1. \A i \in 1..n : layout[i] \in Field /\ layout[i].offset = fields[s][i].byte_offset
                           /\ layout[i].ctype = Schema!field_type_to_c_type[fields[s][i].type]
        BY <2>2, HostLayoutType
      <3>2. \A i \in 1..(n + 1) :
              /\ longer[i] \in Field /\ longer[i].offset = fields'[s][i].byte_offset
              /\ longer[i].ctype = Schema!field_type_to_c_type[fields'[s][i].type]
        BY <2>7, LayoutType DEF Schema!HostLayout
      <3>3. Schema!Packed(layout, n, buffer_size[s])
        BY <2>2 DEF Schema!ParsedSoFar
      <3> HIDE DEF layout, longer
      <3>4. \A i \in 1..n : longer[i] = layout[i]
        <4> SUFFICES ASSUME NEW i \in 1..n PROVE longer[i] = layout[i]
          OBVIOUS
        <4>1. i \in 1..(n + 1) /\ fields'[s][i] = fields[s][i]
          BY <2>7
        <4> QED BY <3>1, <3>2, <4>1, FieldsEqual
      <3>5. longer[n + 1].offset = buffer_size[s] /\ larger = Schema!End(longer[n + 1])
        <4>1. n + 1 \in 1..(n + 1)
          BY <2>7
        <4>2. /\ longer[n + 1].offset = buffer_size[s]
              /\ longer[n + 1].ctype = Schema!field_type_to_c_type[type]
          BY <2>6, <2>7, <3>2, <4>1
        <4> QED BY <2>5, <4>2 DEF Schema!End
      <3>6. Schema!Packed(longer, n + 1, larger)
        BY <2>3, <2>7, <3>2, <3>3, <3>4, <3>5, PackedGrows
      <3>7. n + 1 <= Len(Schema!Names(s))
        BY <1>1, <2>2, <2>7, NamesType
      <3>8. ASSUME NEW i \in 1..(n + 1)
            PROVE  /\ Schema!Names(s)[i] \in DOMAIN Schema!parse_field_type
                   /\ fields'[s][i].type = Schema!parse_field_type[Schema!Names(s)[i]]
        <4>1. CASE i \in 1..n
          BY <2>2, <2>7, <4>1 DEF Schema!ParsedSoFar
        <4>2. CASE i = n + 1
          BY <1>4, <2>6, <2>7, <4>2 DEF type
        <4> QED BY <2>7, <4>1, <4>2
      <3>9. buffer_size'[s] = larger
        BY <2>1, <2>3
      <3> QED BY <1>2, <2>7, <3>6, <3>7, <3>8, <3>9 DEF Schema!ParsedSoFar, longer
    <2>11. Schema!GeneratedSoFar(s)'
      BY <1>1, <1>2, <2>2 DEF Schema!GeneratedSoFar
    <2>12. Schema!SamePlaces(s)'
      <3>1. n < Len(members[s]) => members[s][n + 1].offset = buffer_size[s]
        BY NextPlace
      <3>2. Len(members[s]) \in Nat
        BY <2>2, MembersType
      <3>3. ASSUME NEW i \in 1..(n + 1), i <= Len(members[s])
            PROVE  fields'[s][i].byte_offset = members[s][i].offset
        <4>1. CASE i \in 1..n
          BY <2>2, <2>7, <3>3, <4>1 DEF Schema!SamePlaces
        <4>2. CASE i = n + 1
          BY <2>6, <2>7, <3>1, <3>2, <3>3, <4>2
        <4> QED BY <2>7, <4>1, <4>2
      <3> QED BY <1>1, <2>7, <3>3 DEF Schema!SamePlaces
    <2>13. Schema!Sizes(s)'
      <3>1. host_at' = s
        BY <1>1, <2>1
      <3> QED BY <1>1, <1>2, <2>2, <3>1 DEF Schema!Sizes, Schema!Sections
    <2> QED BY <2>8, <2>9, <2>10, <2>11, <2>12, <2>13 DEF Schema!LayoutInv
  <1> QED BY <1>3, <1>4

\* The generator writes a member of the struct, or fails.
LEMMA GenerateStep ==
  ASSUME Schema!LayoutInv, NEW s \in Schema!Sections, Schema!GenerateField(s)
  PROVE  Schema!LayoutInv'
  <1> DEFINE n == Len(members[s])
             name == Schema!Names(s)[n + 1]
  <1>1. /\ UNCHANGED <<document, host_at, fields, buffer_size>>
        /\ generator_at = s /\ n < Len(Schema!Names(s))
    BY DEF Schema!GenerateField, Schema!hostVars
  <1>2. /\ \A t \in Schema!Sections : Schema!Names(t)' = Schema!Names(t)
        /\ Schema!HostLayout(s)' = Schema!HostLayout(s)
    BY <1>1 DEF Schema!Names, Schema!HostLayout
  <1>3. CASE name \notin DOMAIN Schema!TYPE_MAP
    <2>1. generator_at' = "failed" /\ UNCHANGED <<members, byte_size>>
      BY <1>3 DEF Schema!GenerateField
    <2>2. Schema!TypeOK'
      BY <1>1, <2>1 DEF Schema!LayoutInv, Schema!TypeOK
    <2>3. ASSUME NEW t \in Schema!Sections PROVE Schema!Sizes(t)'
      BY <1>1, <1>2, <2>1 DEF Schema!LayoutInv, Schema!Sizes
    <2> QED BY <1>1, <2>1, <2>2, <2>3, SectionKept DEF Schema!LayoutInv
  <1>4. CASE name \in DOMAIN Schema!TYPE_MAP
    <2> DEFINE ctype == Schema!TYPE_MAP[name].ctype
               place == IF n = 0 THEN 0
                        ELSE members[s][n].offset + Schema!SizeOf[members[s][n].ctype]
               entry == [ctype |-> ctype, offset |-> place]
               larger == byte_size[s] + Schema!TYPE_MAP[name].size
    <2>1. /\ members' = [members EXCEPT ![s] = Append(members[s], entry)]
          /\ byte_size' = [byte_size EXCEPT ![s] = larger]
          /\ generator_at' = generator_at
      BY <1>4 DEF Schema!GenerateField
    <2>2. /\ Schema!TypeOK /\ Schema!ParsedSoFar(s) /\ Schema!GeneratedSoFar(s)
          /\ Schema!SamePlaces(s)
          /\ \A t \in Schema!Sections : Schema!Sizes(t)
      BY DEF Schema!LayoutInv
    <2>3. /\ byte_size \in [Schema!Sections -> Nat]
          /\ members \in [Schema!Sections -> Seq(Field)]
      BY <2>2 DEF Schema!TypeOK, Field
    <2>4. n \in Nat /\ members[s] \in Seq(Field) /\ byte_size[s] \in Nat
      BY <2>3
    <2>5. Schema!Packed(members[s], n, byte_size[s])
      BY <2>2 DEF Schema!GeneratedSoFar
    <2>6. place = byte_size[s]
      BY <2>4, <2>5 DEF Schema!Packed, Schema!End
    <2>7. ctype \in DOMAIN Schema!SizeOf /\ larger = byte_size[s] + Schema!SizeOf[ctype]
      BY <1>4, TypeTables
    <2> HIDE DEF ctype, place, larger
    <2>8. entry \in Field /\ entry.ctype = ctype /\ entry.offset = byte_size[s]
      BY <2>4, <2>6, <2>7 DEF Field
    <2>9. larger = Schema!End(entry)
      BY <2>7, <2>8 DEF Schema!End
    <2> HIDE DEF entry
    <2>10. /\ members'[s] \in Seq(Field) /\ Len(members'[s]) = n + 1
           /\ \A i \in 1..n : members'[s][i] = members[s][i]
           /\ members'[s][n + 1] = entry
           /\ \A i \in 1..(n + 1) : members'[s][i] \in Field
      <3>1. members'[s] = Append(members[s], entry)
        BY <2>1, <2>3
      <3>2. /\ members'[s] \in Seq(Field) /\ Len(members'[s]) = n + 1
            /\ \A i \in 1..n : members'[s][i] = members[s][i]
            /\ members'[s][n + 1] = entry
        BY <2>4, <2>8, <3>1, Appended
      <3> QED BY <3>2, Elements
    <2>11. Schema!Packed(members'[s], n + 1, larger) /\ larger \in Nat
      BY <2>4, <2>5, <2>8, <2>9, <2>10, PackedGrows
    <2>12. Schema!TypeOK'
      <3>1. members' \in [Schema!Sections -> Seq(Field)]
        BY <2>1, <2>3, <2>10
      <3>2. byte_size' \in [Schema!Sections -> Nat]
        BY <2>1, <2>3, <2>11
      <3> QED BY <1>1, <2>1, <2>2, <3>1, <3>2 DEF Schema!TypeOK, Field
    <2>13. ASSUME NEW t \in Schema!Sections, t # s
          PROVE  Schema!ParsedSoFar(t)' /\ Schema!GeneratedSoFar(t)' /\ Schema!SamePlaces(t)' /\ Schema!Sizes(t)'
      <3>1. members'[t] = members[t] /\ byte_size'[t] = byte_size[t]
        BY <2>1, <2>3, <2>13
      <3>2. Schema!Sizes(t)'
        BY <1>1, <1>2, <2>1, <2>2, <3>1 DEF Schema!Sizes
      <3> QED BY <1>1, <3>1, <3>2, SectionKept
    <2>14. Schema!ParsedSoFar(s)'
      BY <1>1, <1>2, <2>2 DEF Schema!ParsedSoFar
    <2>15. Schema!GeneratedSoFar(s)'
      <3>1. n + 1 <= Len(Schema!Names(s))
        BY <1>1, <2>2, <2>4, NamesType
      <3>2. ASSUME NEW i \in 1..(n + 1)
            PROVE  /\ Schema!Names(s)[i] \in DOMAIN Schema!TYPE_MAP
                   /\ members'[s][i].ctype = Schema!TYPE_MAP[Schema!Names(s)[i]].ctype
        <4>1. CASE i \in 1..n
          BY <2>2, <2>10, <4>1 DEF Schema!GeneratedSoFar
        <4>2. CASE i = n + 1
          BY <1>4, <2>8, <2>10, <4>2 DEF ctype
        <4> QED BY <2>4, <4>1, <4>2
      <3>3. byte_size'[s] = larger
        BY <2>1, <2>3
      <3> QED BY <1>2, <2>10, <2>11, <3>1, <3>2, <3>3 DEF Schema!GeneratedSoFar
    <2>16. Schema!SamePlaces(s)'
      <3>1. n < Len(fields[s]) => fields[s][n + 1].byte_offset = byte_size[s]
        BY NextPlace
      <3>2. Len(fields[s]) \in Nat
        BY <2>2, HostLayoutType
      <3>3. ASSUME NEW i \in 1..Len(fields[s]), i <= n + 1
            PROVE  fields[s][i].byte_offset = members'[s][i].offset
        <4>1. CASE i \in 1..n
          BY <2>2, <2>4, <2>10, <4>1 DEF Schema!SamePlaces
        <4>2. CASE i = n + 1
          BY <2>4, <2>8, <2>10, <3>1, <3>2, <4>2
        <4> QED BY <2>4, <3>2, <3>3, <4>1, <4>2
      <3> QED BY <1>1, <2>10, <3>3 DEF Schema!SamePlaces
    <2>17. Schema!Sizes(s)'
      <3>1. generator_at' = s
        BY <1>1, <2>1
      <3> QED BY <1>1, <1>2, <2>2, <3>1 DEF Schema!Sizes, Schema!Sections
    <2> QED BY <2>12, <2>13, <2>14, <2>15, <2>16, <2>17 DEF Schema!LayoutInv
  <1> QED BY <1>3, <1>4

LEMMA NextLayoutInv == Schema!LayoutInv /\ [Schema!Next]_Schema!vars => Schema!LayoutInv'
  <1> SUFFICES ASSUME Schema!LayoutInv, [Schema!Next]_Schema!vars PROVE Schema!LayoutInv'
    OBVIOUS
  <1>1. CASE UNCHANGED Schema!vars
    <2>1. UNCHANGED <<document, host_at, generator_at, fields, buffer_size, members, byte_size>>
      BY <1>1 DEF Schema!vars, Schema!hostVars, Schema!generatorVars
    <2>2. \A s \in Schema!Sections : Schema!Sizes(s)'
      BY <2>1 DEF Schema!LayoutInv, Schema!Sizes, Schema!Names
    <2>3. Schema!TypeOK'
      BY <2>1 DEF Schema!LayoutInv, Schema!TypeOK
    <2> QED BY <2>1, <2>2, <2>3, SectionKept DEF Schema!LayoutInv
  <1> QED BY <1>1, MoveStep, ParseStep, GenerateStep DEF Schema!Next

\* static_cast keeps a floating-point value, rounds one that an integer type
\* can hold towards zero, and makes a number of every other.
LEMMA CastFacts ==
  ASSUME NEW c \in DOMAIN Schema!SizeOf, NEW v \in Int
  PROVE  /\ Schema!Cast(c, v) \subseteq Int
         /\ v = 0 => v \in Schema!Cast(c, v)
         /\ c \in {"float", "double"} => Schema!Cast(c, v) = {v}
         /\ c \in DOMAIN Schema!Bits /\ Schema!Representable(c, Schema!Truncate(v)) =>
              Schema!Cast(c, v) \subseteq IF v < 0 THEN {v, v + 1} ELSE {v, v - 1}
  <1> DEFINE t == Schema!Truncate(v)
  <1>1. t \in Int /\ 2 * t \in (IF v < 0 THEN {v, v + 1} ELSE {v, v - 1}) /\ (v = 0 => t = 0)
    BY DEF Schema!Truncate
  <1> HIDE DEF t
  <1>2. ASSUME c \in DOMAIN Schema!Bits
        PROVE  /\ Schema!Bits[c][1] \in Int /\ Schema!Bits[c][2] \in Nat
               /\ Schema!Bits[c][1] <= 0
               /\ c \notin {"float", "double"}
    BY <1>2 DEF Schema!Bits
  <1>3. c \in {"float", "double"} \/ c \in DOMAIN Schema!Bits
    BY DEF Schema!SizeOf, Schema!Bits
  <1>4. CASE c \in {"float", "double"}
    BY <1>2, <1>4 DEF Schema!Cast
  <1>5. CASE c \in DOMAIN Schema!Bits
    <2> DEFINE low == Schema!Bits[c][1]
               high == Schema!Bits[c][2]
    <2>1. low \in Int /\ high \in Nat /\ low <= 0 /\ c \notin {"float", "double"}
      BY <1>2, <1>5
    <2>2. Schema!Cast(c, v) = IF t \in low..high THEN {2 * t}
                              ELSE {0, 2 * low, 2 * high, 2 * (t % (high + 1))}
      BY <2>1 DEF Schema!Cast, Schema!Representable, t
    <2>3. Schema!Representable(c, t) <=> t \in low..high
      BY DEF Schema!Representable
    <2> HIDE DEF low, high
    <2>4. t % (high + 1) \in Int
      BY <1>1, <2>1
    <2>5. Schema!Cast(c, v) \subseteq Int
      BY <1>1, <2>1, <2>2, <2>4
    <2>6. v = 0 => v \in Schema!Cast(c, v)
      BY <1>1, <2>1, <2>2
    <2>7. Schema!Representable(c, t) => Schema!Cast(c, v) \subseteq IF v < 0 THEN {v, v + 1} ELSE {v, v - 1}
      BY <1>1, <2>2, <2>3
    <2> QED BY <2>1, <2>5, <2>6, <2>7 DEF t
  <1> QED BY <1>3, <1>4, <1>5

\* What is stored by a packed layout is there, field by field.
LEMMA StoreHolds ==
  ASSUME NEW n \in Nat, NEW size \in Nat, NEW layout, NEW memory, NEW values,
         DOMAIN layout = 1..n, \A i \in 1..n : layout[i] \in Field,
         Schema!Packed(layout, n, size), DOMAIN memory = 0..(size - 1)
  PROVE  /\ DOMAIN Schema!Store(memory, layout, values) = DOMAIN memory
         /\ \A i \in 1..n : Schema!Holds(Schema!Store(memory, layout, values), layout[i], values[i])
  <1>1. \A i \in 1..n : /\ layout[i].offset \in Nat
                        /\ Schema!SizeOf[layout[i].ctype] \in Nat \ {0}
                        /\ Schema!End(layout[i]) = layout[i].offset + Schema!SizeOf[layout[i].ctype]
    BY TypeTables DEF Field, Schema!End
  <1>2. \A i \in 1..n : layout[i].offset \in Int /\ Schema!End(layout[i]) \in Int
    <2> SUFFICES ASSUME NEW i \in 1..n
                 PROVE  layout[i].offset \in Int /\ Schema!End(layout[i]) \in Int
      OBVIOUS
    <2> QED BY <1>1
  <1>3. DOMAIN Schema!Store(memory, layout, values) = DOMAIN memory
    BY DEF Schema!Store
  <1>4. ASSUME NEW i \in 1..n, NEW k \in 0..(Schema!SizeOf[layout[i].ctype] - 1)
        PROVE  Schema!Store(memory, layout, values)[layout[i].offset + k]
                 = Schema!Byte(layout[i].ctype, values[i], k)
    <2> DEFINE b == layout[i].offset + k
               here == {j \in DOMAIN layout :
                          b \in layout[j].offset..(layout[j].offset + Schema!SizeOf[layout[j].ctype] - 1)}
    <2>1. b \in 0..(size - 1)
      <3>1. Schema!End(layout[i]) <= size
        BY DEF Schema!Packed
      <3> QED BY <1>1, <3>1
    <2>2. i \in here
      BY <1>1
    <2>3. ASSUME NEW j \in here PROVE j = i
      <3>1. j \in 1..n /\ b \in layout[j].offset..(layout[j].offset + Schema!SizeOf[layout[j].ctype] - 1)
        OBVIOUS
      <3>2. b \in Int /\ layout[i].offset <= b /\ b < Schema!End(layout[i])
        <4>1. /\ layout[i].offset \in Nat /\ Schema!SizeOf[layout[i].ctype] \in Nat
              /\ Schema!End(layout[i]) = layout[i].offset + Schema!SizeOf[layout[i].ctype]
          BY <1>1
        <4> HIDE DEF here
        <4> QED BY <4>1
      <3> HIDE DEF b
      <3>3. layout[j].offset <= b /\ b < Schema!End(layout[j])
        <4>1. /\ layout[j].offset \in Nat /\ Schema!SizeOf[layout[j].ctype] \in Nat
              /\ Schema!End(layout[j]) = layout[j].offset + Schema!SizeOf[layout[j].ctype]
          BY <1>1, <3>1
        <4> QED BY <3>1, <3>2, <4>1
      <3>4. /\ layout[i].offset \in Int /\ Schema!End(layout[i]) \in Int
            /\ layout[j].offset \in Int /\ Schema!End(layout[j]) \in Int
        BY <1>2, <3>1
      <3>5. j < i => Schema!End(layout[j]) <= layout[i].offset
        BY <3>1 DEF Schema!Packed
      <3>6. i < j => Schema!End(layout[i]) <= layout[j].offset
        BY <3>1 DEF Schema!Packed
      <3>7. ~(j < i) /\ ~(i < j)
        BY <3>2, <3>3, <3>4, <3>5, <3>6
      <3> QED BY <3>1, <3>7
    <2>4. here = {i}
      BY <2>2, <2>3
    <2>5. Schema!Max(here) = i
      <3> HIDE DEF here
      <3> QED BY <2>4 DEF Schema!Max
    <2>6. b - layout[i].offset = k
      BY <1>1
    <2>7. Schema!Store(memory, layout, values)[b] =
            IF here = {} THEN memory[b]
            ELSE Schema!Byte(layout[Schema!Max(here)].ctype, values[Schema!Max(here)],
                             b - layout[Schema!Max(here)].offset)
      BY <2>1 DEF Schema!Store
    <2> HIDE DEF here, b
    <2>8. Schema!Store(memory, layout, values)[b] = Schema!Byte(layout[i].ctype, values[i], k)
      BY <2>2, <2>5, <2>6, <2>7
    <2> QED BY <2>8 DEF b
  <1> QED BY <1>3, <1>4 DEF Schema!Holds

\* And what is there is read.
LEMMA LoadFinds ==
  ASSUME NEW memory, NEW field \in Field, NEW v \in Int,
         Schema!Holds(memory, field, v),
         field.offset..(Schema!End(field) - 1) \subseteq DOMAIN memory
  PROVE  Schema!Load(memory, field.offset, field.ctype) = v
  <1> DEFINE size == Schema!SizeOf[field.ctype]
             Fits(w) == \A k \in 0..(size - 1) :
                          /\ field.offset + k \in DOMAIN memory
                          /\ memory[field.offset + k] = Schema!Byte(field.ctype, w, k)
             Stored == {0} \cup {memory[b][2] : b \in DOMAIN memory}
  <1>1. size \in Nat \ {0} /\ field.offset \in Nat /\ Schema!End(field) = field.offset + size
    BY TypeTables DEF Field, Schema!End
  <1>2. \A k \in 0..(size - 1) : field.offset + k \in DOMAIN memory
    BY <1>1
  <1>3. Fits(v)
    BY <1>2 DEF Schema!Holds
  <1>4. field.offset \in DOMAIN memory
        /\ \A w : Fits(w) => memory[field.offset] = Schema!Byte(field.ctype, w, 0)
    <2>1. 0 \in 0..(size - 1) /\ field.offset + 0 = field.offset
      BY <1>1
    <2> QED BY <1>2, <2>1
  <1>5. memory[field.offset] = Schema!Byte(field.ctype, v, 0)
    BY <1>3, <1>4
  <1>6. v \in Stored
    <2>1. v # 0 => memory[field.offset][2] = v
      BY <1>5 DEF Schema!Byte
    <2> QED BY <1>4, <2>1
  <1>7. ASSUME NEW w \in Stored, Fits(w) PROVE w = v
    <2>1. Schema!Byte(field.ctype, w, 0) = Schema!Byte(field.ctype, v, 0)
      BY <1>4, <1>5, <1>7
    <2>2. Schema!Byte(field.ctype, w, 0)[2] = w /\ Schema!Byte(field.ctype, v, 0)[2] = v
      BY DEF Schema!Byte, Schema!ZeroByte
    <2> QED BY <2>1, <2>2
  <1>8. Schema!Load(memory, field.offset, field.ctype) =
          IF \E w \in Stored : Fits(w) THEN CHOOSE w \in Stored : Fits(w) ELSE Garbage
    BY DEF Schema!Load
  <1> HIDE DEF Stored, Fits
  <1> QED BY <1>3, <1>6, <1>7, <1>8

-------------------------------------------------------------------------------
\* A field lies in the message.
LEMMA FieldInside ==
  ASSUME Schema!LayoutInv, NEW s \in Schema!Sections, NEW i \in 1..Len(fields[s])
  PROVE  /\ Schema!HostLayout(s)[i] \in Field
         /\ \A k \in 0..(Schema!SizeOf[Schema!HostLayout(s)[i].ctype] - 1) :
              Schema!HostLayout(s)[i].offset + k \in 0..(buffer_size[s] - 1)
         /\ Schema!HostLayout(s)[i].offset..(Schema!End(Schema!HostLayout(s)[i]) - 1)
              \subseteq 0..(buffer_size[s] - 1)
  <1> DEFINE f == Schema!HostLayout(s)[i]
  <1>1. f \in Field
    BY HostLayoutType DEF Schema!LayoutInv
  <1>2. Schema!End(f) <= buffer_size[s]
    BY DEF Schema!LayoutInv, Schema!ParsedSoFar, Schema!Packed
  <1>3. buffer_size[s] \in Nat
    BY DEF Schema!LayoutInv, Schema!TypeOK
  <1> HIDE DEF f
  <1>4. /\ f.offset \in Nat /\ Schema!SizeOf[f.ctype] \in Nat \ {0}
        /\ Schema!End(f) = f.offset + Schema!SizeOf[f.ctype]
    BY <1>1, TypeTables DEF Field, Schema!End
  <1>5. \A k \in 0..(Schema!SizeOf[f.ctype] - 1) : f.offset + k \in 0..(buffer_size[s] - 1)
    BY <1>2, <1>3, <1>4
  <1>6. f.offset..(Schema!End(f) - 1) \subseteq 0..(buffer_size[s] - 1)
    BY <1>2, <1>3, <1>4
  <1> QED BY <1>1, <1>5, <1>6 DEF f

LEMMA LayoutDomain ==
  ASSUME Schema!TypeOK, NEW s \in Schema!Sections
  PROVE  DOMAIN Schema!HostLayout(s) = 1..Len(fields[s])
  BY HostLayoutType DEF Schema!HostLayout

\* A section whose message, fields and values are what they were.
LEMMA CarriedKept ==
  ASSUME NEW s, Schema!Carried(s), bytes'[s] = bytes[s], encoded'[s] = encoded[s],
         fields' = fields, buffer_size' = buffer_size
  PROVE  Schema!Carried(s)'
  <1>1. Schema!HostLayout(s)' = Schema!HostLayout(s)
    BY DEF Schema!HostLayout
  <1>2. /\ DOMAIN bytes'[s] = 0..(buffer_size'[s] - 1)
        /\ encoded'[s] \in [1..Len(fields'[s]) -> Int]
    BY DEF Schema!Carried
  <1>3. ASSUME NEW i \in 1..Len(fields'[s])
        PROVE  \E v \in Schema!Encodings(s, Schema!HostLayout(s)'[i], encoded'[s][i]) :
                 Schema!Holds(bytes'[s], Schema!HostLayout(s)'[i], v)
    BY <1>1 DEF Schema!Carried
  <1> QED BY <1>2, <1>3 DEF Schema!Carried

\* The buffers of zeros that on_init leaves.
LEMMA ZerosCarried ==
  ASSUME Schema!LayoutInv, NEW s \in Schema!Sections,
         fields' = fields, buffer_size' = buffer_size,
         bytes'[s] = [b \in 0..(buffer_size[s] - 1) |-> Schema!ZeroByte],
         encoded'[s] = [i \in DOMAIN fields[s] |-> 0]
  PROVE  Schema!Carried(s)'
  <1>1. Schema!HostLayout(s)' = Schema!HostLayout(s)
    BY DEF Schema!HostLayout
  <1>2. DOMAIN fields[s] = 1..Len(fields[s])
    BY HostLayoutType DEF Schema!LayoutInv
  <1>3. ASSUME NEW i \in 1..Len(fields[s])
        PROVE  \E v \in Schema!Encodings(s, Schema!HostLayout(s)[i], encoded'[s][i]) :
                 Schema!Holds(bytes'[s], Schema!HostLayout(s)[i], v)
    <2>1. Schema!HostLayout(s)[i].ctype \in DOMAIN Schema!SizeOf
      BY FieldInside DEF Field
    <2>2. encoded'[s][i] = 0
      BY <1>2
    <2>3. 0 \in Schema!Encodings(s, Schema!HostLayout(s)[i], encoded'[s][i])
      BY <2>1, <2>2, CastFacts DEF Schema!Encodings
    <2>4. Schema!Holds(bytes'[s], Schema!HostLayout(s)[i], 0)
      BY FieldInside DEF Schema!Holds, Schema!Byte
    <2> QED BY <2>3, <2>4
  <1>4. encoded'[s] \in [1..Len(fields'[s]) -> Int]
    BY <1>2
  <1>5. DOMAIN bytes'[s] = 0..(buffer_size'[s] - 1)
    OBVIOUS
  <1> QED BY <1>1, <1>3, <1>4, <1>5 DEF Schema!Carried

\* write() of the host: each field holds what its cast made of the command.
LEMMA CommandCarried ==
  ASSUME Schema!LayoutInv, Schema!WireInv, Schema!WriteCommand
  PROVE  Schema!WireInv'
  <1> DEFINE n == Len(fields["command"])
             layout == Schema!HostLayout("command")
  <1>1. /\ host_at = "valid" /\ UNCHANGED <<host_at, fields, buffer_size>>
        /\ "command" \in Schema!Sections
    BY DEF Schema!WriteCommand, Schema!Running, Schema!hostVars, Schema!Sections
  <1>2. /\ DOMAIN bytes = Schema!Sections /\ DOMAIN encoded = Schema!Sections
        /\ \A s \in Schema!Sections : Schema!Carried(s)
    BY <1>1 DEF Schema!WireInv
  <1>3. PICK values \in [DOMAIN fields["command"] -> Doubles] :
          \E cast : /\ \A i \in DOMAIN values : cast[i] \in Schema!Cast(layout[i].ctype, values[i])
                    /\ bytes' = [bytes EXCEPT !["command"] = Schema!Store(@, layout, cast)]
                    /\ encoded' = [encoded EXCEPT !["command"] = values]
    BY DEF Schema!WriteCommand
  <1>4. PICK cast : /\ \A i \in DOMAIN values : cast[i] \in Schema!Cast(layout[i].ctype, values[i])
                    /\ bytes' = [bytes EXCEPT !["command"] = Schema!Store(@, layout, cast)]
                    /\ encoded' = [encoded EXCEPT !["command"] = values]
    BY <1>3
  <1>5. /\ n \in Nat /\ DOMAIN fields["command"] = 1..n /\ DOMAIN layout = 1..n
        /\ \A i \in 1..n : layout[i] \in Field
    BY <1>1, HostLayoutType, LayoutDomain DEF Schema!LayoutInv
  <1>6. Schema!Packed(layout, n, buffer_size["command"]) /\ buffer_size["command"] \in Nat
    BY <1>1 DEF Schema!LayoutInv, Schema!TypeOK, Schema!ParsedSoFar
  <1>7. DOMAIN bytes["command"] = 0..(buffer_size["command"] - 1)
    BY <1>1, <1>2 DEF Schema!Carried
  <1>8. Schema!HostLayout("command")' = layout
    BY <1>1 DEF Schema!HostLayout
  <1> HIDE DEF layout
  <1>9. /\ DOMAIN Schema!Store(bytes["command"], layout, cast) = DOMAIN bytes["command"]
        /\ \A i \in 1..n : Schema!Holds(Schema!Store(bytes["command"], layout, cast), layout[i], cast[i])
    BY <1>5, <1>6, <1>7, StoreHolds
  <1>10. /\ bytes'["command"] = Schema!Store(bytes["command"], layout, cast)
         /\ encoded'["command"] = values
    BY <1>1, <1>2, <1>4
  <1>11. Schema!Carried("command")'
    <2>1. values \in [1..n -> Int]
      BY <1>3, <1>5, SchemaAssumed DEF Schema!SchemaAssumption
    <2>2. ASSUME NEW i \in 1..n
          PROVE  \E v \in Schema!Encodings("command", layout[i], values[i]) :
                   Schema!Holds(bytes'["command"], layout[i], v)
      <3>1. cast[i] \in Schema!Encodings("command", layout[i], values[i])
        BY <1>4, <2>1 DEF Schema!Encodings
      <3> QED BY <1>9, <1>10, <3>1
    <2>3. DOMAIN bytes'["command"] = 0..(buffer_size'["command"] - 1)
      BY <1>1, <1>7, <1>9, <1>10
    <2>4. Len(fields'["command"]) = n
      BY <1>1
    <2> QED BY <1>8, <1>10, <2>1, <2>2, <2>3, <2>4 DEF Schema!Carried
  <1>12. Schema!Carried("state")'
    <2>1. bytes'["state"] = bytes["state"] /\ encoded'["state"] = encoded["state"]
      BY <1>2, <1>4 DEF Schema!Sections
    <2> QED BY <1>1, <1>2, <2>1, CarriedKept DEF Schema!Sections
  <1>13. DOMAIN bytes' = Schema!Sections /\ DOMAIN encoded' = Schema!Sections
    BY <1>2, <1>4
  <1> QED BY <1>11, <1>12, <1>13 DEF Schema!WireInv, Schema!Sections

\* A state of the firmware: each field holds the value that was measured.
LEMMA StateCarried ==
  ASSUME Schema!LayoutInv, Schema!WireInv, Schema!WriteState
  PROVE  Schema!WireInv'
  <1> DEFINE n == Len(fields["state"])
             layout == Schema!HostLayout("state")
             zeros == [b \in 0..(byte_size["state"] - 1) |-> Schema!ZeroByte]
  <1>1. /\ host_at = "valid" /\ generator_at = "written"
        /\ UNCHANGED <<host_at, fields, buffer_size>>
        /\ byte_size["state"] = buffer_size["state"]
        /\ "state" \in Schema!Sections
    BY DEF Schema!WriteState, Schema!Running, Schema!hostVars, Schema!Sections
  <1>2. /\ DOMAIN bytes = Schema!Sections /\ DOMAIN encoded = Schema!Sections
        /\ \A s \in Schema!Sections : Schema!Carried(s)
    BY <1>1 DEF Schema!WireInv
  <1>3. PICK values \in [DOMAIN members["state"] -> Doubles] :
          /\ bytes' = [bytes EXCEPT !["state"] = Schema!Store(zeros, members["state"], values)]
          /\ encoded' = [encoded EXCEPT !["state"] = values]
    BY DEF Schema!WriteState
  <1>4. n \in Nat /\ DOMAIN members["state"] = 1..n
    <2>1. Len(fields["state"]) = Len(members["state"])
      BY <1>1 DEF Schema!LayoutInv, Schema!Sizes
    <2> QED BY <1>1, <2>1, MembersType DEF Schema!LayoutInv
  <1>5. \A i \in 1..n : layout[i] = members["state"][i] /\ members["state"][i] \in Field
    <2>1. Len(fields["state"]) = Len(members["state"])
      BY <1>1 DEF Schema!LayoutInv, Schema!Sizes
    <2>2. \A i \in 1..n : i <= Len(members["state"])
      BY <1>4, <2>1
    <2> QED BY <1>1, <2>1, <2>2, SameFields, MembersType DEF Schema!LayoutInv
  <1>6. Schema!Packed(members["state"], n, buffer_size["state"]) /\ buffer_size["state"] \in Nat
    <2>1. Len(fields["state"]) = Len(members["state"])
      BY <1>1 DEF Schema!LayoutInv, Schema!Sizes
    <2> QED BY <1>1, <2>1 DEF Schema!LayoutInv, Schema!TypeOK, Schema!GeneratedSoFar
  <1>7. DOMAIN zeros = 0..(buffer_size["state"] - 1)
    BY <1>1
  <1>8. Schema!HostLayout("state")' = layout
    BY <1>1 DEF Schema!HostLayout
  <1> HIDE DEF layout, zeros
  <1>9. /\ DOMAIN Schema!Store(zeros, members["state"], values) = DOMAIN zeros
        /\ \A i \in 1..n :
             Schema!Holds(Schema!Store(zeros, members["state"], values), members["state"][i], values[i])
    BY <1>4, <1>5, <1>6, <1>7, StoreHolds
  <1>10. /\ bytes'["state"] = Schema!Store(zeros, members["state"], values)
         /\ encoded'["state"] = values
    BY <1>1, <1>2, <1>3
  <1>11. Schema!Carried("state")'
    <2>1. values \in [1..n -> Int]
      BY <1>3, <1>4, SchemaAssumed DEF Schema!SchemaAssumption
    <2>2. ASSUME NEW i \in 1..n
          PROVE  \E v \in Schema!Encodings("state", layout[i], values[i]) :
                   Schema!Holds(bytes'["state"], layout[i], v)
      BY <1>5, <1>9, <1>10 DEF Schema!Encodings
    <2>3. DOMAIN bytes'["state"] = 0..(buffer_size'["state"] - 1)
      BY <1>1, <1>7, <1>9, <1>10
    <2>4. Len(fields'["state"]) = n
      BY <1>1
    <2> QED BY <1>8, <1>10, <2>1, <2>2, <2>3, <2>4 DEF Schema!Carried
  <1>12. Schema!Carried("command")'
    <2>1. bytes'["command"] = bytes["command"] /\ encoded'["command"] = encoded["command"]
      BY <1>2, <1>3 DEF Schema!Sections
    <2> QED BY <1>1, <1>2, <2>1, CarriedKept DEF Schema!Sections
  <1>13. DOMAIN bytes' = Schema!Sections /\ DOMAIN encoded' = Schema!Sections
    BY <1>2, <1>3
  <1> QED BY <1>11, <1>12, <1>13 DEF Schema!WireInv, Schema!Sections

\* The steps of the parser and the generator.
LEMMA QuietStep ==
  ASSUME Schema!WireInv, UNCHANGED <<bytes, encoded>>,
         \/ host_at' # "valid"
         \/ host_at = "valid" /\ UNCHANGED <<fields, buffer_size>>
  PROVE  Schema!WireInv'
  <1>1. DOMAIN bytes' = Schema!Sections /\ DOMAIN encoded' = Schema!Sections
    BY DEF Schema!WireInv
  <1>2. ASSUME host_at' = "valid", NEW s \in Schema!Sections PROVE Schema!Carried(s)'
    <2>1. Schema!Carried(s)
      BY <1>2 DEF Schema!WireInv
    <2> QED BY <1>2, <2>1, CarriedKept
  <1> QED BY <1>1, <1>2 DEF Schema!WireInv

LEMMA NextWireInv ==
  Schema!LayoutInv /\ Schema!WireInv /\ [Schema!Next]_Schema!vars => Schema!WireInv'
  <1> SUFFICES ASSUME Schema!LayoutInv, Schema!WireInv, [Schema!Next]_Schema!vars
               PROVE  Schema!WireInv'
    OBVIOUS
  <1> USE DEF Schema!hostVars, Schema!generatorVars, Schema!wireVars
  <1>1. CASE UNCHANGED Schema!vars
    BY <1>1, QuietStep DEF Schema!vars
  <1>2. CASE Schema!FromYaml
    BY <1>2, QuietStep DEF Schema!FromYaml
  <1>3. ASSUME NEW s \in Schema!Sections, Schema!ParseField(s) PROVE Schema!WireInv'
    <2>1. host_at' # "valid" /\ UNCHANGED <<bytes, encoded>>
      BY <1>3 DEF Schema!ParseField, Schema!Sections
    <2> QED BY <2>1, QuietStep
  <1>4. ASSUME NEW s \in Schema!Sections, Schema!EndSection(s) PROVE Schema!WireInv'
    <2>1. CASE host_at' # "valid"
      BY <1>4, <2>1, QuietStep DEF Schema!EndSection
    <2>2. CASE host_at' = "valid"
      <3>1. /\ UNCHANGED <<fields, buffer_size>>
            /\ bytes' = [t \in Schema!Sections |-> [b \in 0..(buffer_size[t] - 1) |-> Schema!ZeroByte]]
            /\ encoded' = [t \in Schema!Sections |-> [i \in DOMAIN fields[t] |-> 0]]
        BY <1>4, <2>2 DEF Schema!EndSection
      <3>2. ASSUME NEW t \in Schema!Sections PROVE Schema!Carried(t)'
        BY <3>1, ZerosCarried
      <3> QED BY <3>1, <3>2 DEF Schema!WireInv
    <2> QED BY <2>1, <2>2
  <1>5. ASSUME NEW s \in Schema!Sections, Schema!GenerateField(s) \/ Schema!GenerateEnd(s)
        PROVE  Schema!WireInv'
    <2>1. UNCHANGED <<host_at, fields, buffer_size, bytes, encoded>>
      BY <1>5 DEF Schema!GenerateField, Schema!GenerateEnd
    <2> QED BY <2>1, QuietStep
  <1>6. CASE Schema!WriteCommand
    BY <1>6, CommandCarried
  <1>7. CASE Schema!WriteState
    BY <1>7, StateCarried
  <1> QED BY <1>1, <1>2, <1>3, <1>4, <1>5, <1>6, <1>7 DEF Schema!Next

(* The parser and the generator keep equal layouts as far as both have      *)
(* come, and a message holds the encoding of one value in each field: the   *)
(* inductive invariant of InterfaceSchema, for every set of schemas.        *)
THEOREM SchemaInvariant == Schema!Spec => []Schema!SchemaInv
  <1>1. Schema!Init => Schema!SchemaInv
    <2>1. Schema!Init => Schema!WireInv
      BY DEF Schema!Init, Schema!WireInv
    <2> QED BY <2>1, InitLayoutInv DEF Schema!SchemaInv
  <1>2. Schema!SchemaInv /\ [Schema!Next]_Schema!vars => Schema!SchemaInv'
    BY NextLayoutInv, NextWireInv DEF Schema!SchemaInv
  <1> QED BY <1>1, <1>2, PTL DEF Schema!Spec

\* A field is read as the value that its bytes hold.
LEMMA ReadsHeld ==
  ASSUME Schema!SchemaInv, host_at = "valid",
         NEW s \in Schema!Sections, NEW i \in 1..Len(fields[s])
  PROVE  \E v \in Schema!Encodings(s, Schema!HostLayout(s)[i], encoded[s][i]) :
           v \in Int /\ Schema!Load(bytes[s], Schema!HostLayout(s)[i].offset,
                                    Schema!HostLayout(s)[i].ctype) = v
  <1> DEFINE f == Schema!HostLayout(s)[i]
  <1>1. Schema!LayoutInv /\ Schema!Carried(s)
    BY DEF Schema!SchemaInv, Schema!WireInv
  <1>2. f \in Field /\ f.offset..(Schema!End(f) - 1) \subseteq DOMAIN bytes[s]
    BY <1>1, FieldInside DEF Schema!Carried
  <1>3. PICK v \in Schema!Encodings(s, f, encoded[s][i]) : Schema!Holds(bytes[s], f, v)
    BY <1>1 DEF Schema!Carried
  <1>4. v \in Int
    <2>1. encoded[s][i] \in Int
      BY <1>1 DEF Schema!Carried
    <2>2. f.ctype \in DOMAIN Schema!SizeOf
      BY <1>2 DEF Field
    <2> HIDE DEF f
    <2> QED BY <1>3, <2>1, <2>2, CastFacts DEF Schema!Encodings
  <1> HIDE DEF f
  <1>5. Schema!Load(bytes[s], f.offset, f.ctype) = v
    BY <1>2, <1>3, <1>4, LoadFinds
  <1> QED BY <1>3, <1>4, <1>5 DEF f

\* Both ends lay out what both have accepted in the same way.
LEMMA SchemasAgree ==
  ASSUME Schema!LayoutInv, Schema!Running, NEW s \in Schema!Sections
  PROVE  /\ Len(fields[s]) = Len(members[s])
         /\ \A i \in 1..Len(fields[s]) : Schema!HostLayout(s)[i] = members[s][i]
         /\ Schema!HostLayout(s) = members[s]
         /\ buffer_size[s] = byte_size[s] /\ byte_size[s] = Schema!StructEnd(s)
  <1>1. Len(fields[s]) = Len(members[s])
    BY DEF Schema!LayoutInv, Schema!Sizes, Schema!Running
  <1>2. /\ Len(fields[s]) \in Nat
        /\ DOMAIN Schema!HostLayout(s) = 1..Len(fields[s])
        /\ members[s] \in Seq(Field)
    BY HostLayoutType, LayoutDomain DEF Schema!LayoutInv, Schema!TypeOK, Field
  <1>3. \A i \in 1..Len(fields[s]) : Schema!HostLayout(s)[i] = members[s][i]
    <2>1. \A i \in 1..Len(fields[s]) : i <= Len(members[s])
      BY <1>1, <1>2
    <2> QED BY <2>1, SameFields
  <1>4. Schema!HostLayout(s) = members[s]
    <2> DEFINE layout == Schema!HostLayout(s)
    <2>1. layout = [i \in 1..Len(fields[s]) |-> layout[i]]
      BY <1>2 DEF Schema!HostLayout
    <2>2. members[s] = [i \in 1..Len(members[s]) |-> members[s][i]]
      BY <1>2
    <2> HIDE DEF layout
    <2> QED BY <1>1, <1>3, <2>1, <2>2 DEF layout
  <1>5. byte_size[s] = buffer_size[s]
    BY <1>1, NextPlace
  <1>6. byte_size[s] = Schema!StructEnd(s)
    <2>1. Schema!Packed(members[s], Len(members[s]), byte_size[s]) /\ Len(members[s]) \in Nat
      BY <1>2 DEF Schema!LayoutInv, Schema!GeneratedSoFar
    <2> QED BY <2>1 DEF Schema!Packed, Schema!StructEnd, Schema!End
  <1> QED BY <1>1, <1>3, <1>4, <1>5, <1>6

(* FieldsArrive: for every set of schemas and of doubles, both ends of a    *)
(* link agree about places, C types and sizes, the host reads what the      *)
(* firmware measured, and the firmware reads what was commanded, rounded    *)
(* towards zero where an integer type can hold it.                          *)
THEOREM MessagesArrive == Schema!Spec => []FieldsArrive
  <1>1. Schema!SchemaInv => FieldsArrive
    <2> SUFFICES ASSUME Schema!SchemaInv, Schema!Running PROVE FieldsArrive
      BY DEF FieldsArrive, Schema!FieldsArrive
    <2>1. Schema!LayoutInv /\ host_at = "valid" /\ \A s \in Schema!Sections : Schema!Carried(s)
      BY DEF Schema!SchemaInv, Schema!WireInv, Schema!Running
    <2>2. Schema!LayoutsAgree
      BY <2>1, SchemasAgree DEF Schema!LayoutsAgree
    <2>3. ASSUME NEW i \in DOMAIN fields["state"]
          PROVE  Schema!read_field("state", i) = encoded["state"][i]
      <3>1. "state" \in Schema!Sections /\ i \in 1..Len(fields["state"])
        BY <2>1, HostLayoutType DEF Schema!LayoutInv, Schema!Sections
      <3> QED BY <2>1, <3>1, ReadsHeld DEF Schema!read_field, Schema!Encodings
    <2>4. ASSUME NEW i \in DOMAIN members["command"]
          PROVE  LET v == encoded["command"][i]
                     ctype == members["command"][i].ctype IN
                 /\ Schema!Member(i) # Garbage
                 /\ ctype \in {"float", "double"} => Schema!Member(i) = v
                 /\ ctype \in DOMAIN Schema!Bits /\ Schema!Representable(ctype, Schema!Truncate(v)) =>
                      Schema!Member(i) \in IF v < 0 THEN {v, v + 1} ELSE {v, v - 1}
      <3> DEFINE v == encoded["command"][i]
                 ctype == members["command"][i].ctype
      <3>1. "command" \in Schema!Sections
        BY DEF Schema!Sections
      <3>2. i \in 1..Len(fields["command"]) /\ Schema!HostLayout("command")[i] = members["command"][i]
        BY <2>1, <3>1, SchemasAgree, MembersType DEF Schema!LayoutInv
      <3>3. Schema!Member(i) \in Schema!Cast(ctype, v) /\ Schema!Member(i) \in Int
        BY <2>1, <3>1, <3>2, ReadsHeld DEF Schema!Member, Schema!Encodings
      <3>4. v \in Int /\ ctype \in DOMAIN Schema!SizeOf
        <4>1. v \in Int
          BY <2>1, <3>1, <3>2 DEF Schema!Carried
        <4>2. ctype \in DOMAIN Schema!SizeOf
          BY <2>1, <3>1, <3>2, FieldInside DEF Field
        <4> QED BY <4>1, <4>2
      <3> HIDE DEF v, ctype
      <3>5. Schema!Member(i) # Garbage
        BY <3>3, SchemaAssumed DEF Schema!SchemaAssumption
      <3>6. ctype \in {"float", "double"} => Schema!Member(i) = v
        BY <3>3, <3>4, CastFacts
      <3>7. ctype \in DOMAIN Schema!Bits /\ Schema!Representable(ctype, Schema!Truncate(v)) =>
              Schema!Member(i) \in IF v < 0 THEN {v, v + 1} ELSE {v, v - 1}
        BY <3>3, <3>4, CastFacts
      <3> QED BY <3>5, <3>6, <3>7 DEF v, ctype
    <2> QED BY <2>2, <2>3, <2>4 DEF FieldsArrive, Schema!FieldsArrive
  <1> QED BY <1>1, SchemaInvariant, PTL
===============================================================================
