--------------------------- MODULE InterfaceSchema ---------------------------
(***************************************************************************)
(* Both ends of a Tier 2 link derive the layout of their messages from one *)
(* interface_schema.yaml: the host parses it (interface_schema.cpp) when   *)
(* the hardware component starts, the firmware's build runs                *)
(* generate_tier2_payload.py over it and compiles the packed structs that  *)
(* come out.  Then commands and states travel as bytes, with a conversion  *)
(* from and to double at the host.                                         *)
(*                                                                         *)
(* A field of a section is its type's name; its own name and component are *)
(* labels that no layout depends on.  A double is an integer number of     *)
(* halves: 3 is 1.5.  A byte knows which value of which C type it is a     *)
(* part of, so that bytes read at another place or as another type show;   *)
(* the bytes of a zero are zeros whatever the type.                        *)
(***************************************************************************)
EXTENDS Integers, Sequences, FiniteSetsExt, Functions

CONSTANTS
  Documents,  \* schemas: for each section a sequence of names, Missing or Empty
  Missing,    \* the section is not in the document
  Empty,      \* the section has a key and no value
  Values,     \* doubles that are commanded or measured, in halves
  Garbage     \* what bytes of no single value decode to

Sections == {"state", "command"}
ZeroByte == <<"zero", 0, 0>>

FieldType == {"FLOAT32", "FLOAT64", "INT32", "UINT64", "INT16", "UINT8"}

parse_field_type ==
  [float32 |-> "FLOAT32", float64 |-> "FLOAT64", double |-> "FLOAT64", int32 |-> "INT32",
   uint64 |-> "UINT64", int16 |-> "INT16", uint8 |-> "UINT8"]

\* Faulty variant: an int16 that takes the size of an int32.
field_byte_size_int16(type) ==
  CASE type \in {"FLOAT64", "UINT64"} -> 8
    [] type \in {"FLOAT32", "INT32", "INT16"} -> 4
    [] type = "UINT8" -> 1

field_byte_size(type) ==
  CASE type \in {"FLOAT64", "UINT64"} -> 8
    [] type \in {"FLOAT32", "INT32"} -> 4
    [] type = "INT16" -> 2
    [] type = "UINT8" -> 1

field_type_to_c_type ==
  [FLOAT32 |-> "float", FLOAT64 |-> "double", INT32 |-> "int32_t", UINT64 |-> "uint64_t",
   INT16 |-> "int16_t", UINT8 |-> "uint8_t"]

\* The generator's own table.
TYPE_MAP ==
  [float32 |-> [ctype |-> "float", size |-> 4], float64 |-> [ctype |-> "double", size |-> 8],
   double |-> [ctype |-> "double", size |-> 8], int32 |-> [ctype |-> "int32_t", size |-> 4],
   uint64 |-> [ctype |-> "uint64_t", size |-> 8], int16 |-> [ctype |-> "int16_t", size |-> 2],
   uint8 |-> [ctype |-> "uint8_t", size |-> 1]]

\* The compiler of the firmware.
SizeOf ==
  [float |-> 4, double |-> 8, int32_t |-> 4, uint64_t |-> 8, int16_t |-> 2, uint8_t |-> 1]

SchemaAssumption ==
  /\ Missing # Empty /\ Garbage \notin Int
  /\ Values \subseteq Int /\ 0 \in Values
  /\ \A d \in Documents, s \in Sections : d[s] \in {Missing, Empty} \cup Seq(STRING)

VARIABLES
  document,
  host_at,       \* from_yaml: the section it is in, "valid" or "error"
  fields,        \* state_flat_fields_ and command_flat_fields_
  buffer_size,   \* state_buffer_size_ and command_buffer_size_
  generator_at,  \* generate_header: the section, "written" or "failed"
  members,       \* the structs of the header, as the compiler lays them out
  byte_size,     \* ZENBEDDED_STATE_BYTE_SIZE and ZENBEDDED_COMMAND_BYTE_SIZE
  bytes,         \* command_buffer_, and the state message the host got last
  sent           \* history: the values that were encoded into bytes

hostVars == <<host_at, fields, buffer_size>>
generatorVars == <<generator_at, members, byte_size>>
wireVars == <<bytes, sent>>
vars == <<document, hostVars, generatorVars, wireVars>>

TypeOK ==
  /\ document \in Documents
  /\ host_at \in Sections \cup {"start", "valid", "error"}
  /\ generator_at \in Sections \cup {"written", "failed"}
  /\ buffer_size \in [Sections -> Nat] /\ byte_size \in [Sections -> Nat]
  /\ fields \in [Sections -> Seq([type : FieldType, byte_offset : Nat])]
  /\ members \in [Sections -> Seq([ctype : DOMAIN SizeOf, offset : Nat])]

Init ==
  /\ document \in Documents
  /\ host_at = "start" /\ generator_at = "state"
  /\ fields = [s \in Sections |-> <<>>] /\ buffer_size = [s \in Sections |-> 0]
  /\ members = [s \in Sections |-> <<>>] /\ byte_size = [s \in Sections |-> 0]
  /\ bytes = [s \in Sections |-> <<>>] /\ sent = [s \in Sections |-> <<>>]

-------------------------------------------------------------------------------
(* from_yaml, an iteration of its loops at a time.                          *)

\* A key without a value is there: its section has no fields.
FromYaml ==
  /\ host_at = "start"
  /\ host_at' = IF Missing \in {document[s] : s \in Sections} THEN "error" ELSE "state"
  /\ UNCHANGED <<document, fields, buffer_size, generatorVars, wireVars>>

Names(s) == IF document[s] \in {Missing, Empty} THEN <<>> ELSE document[s]
After(s, end) == IF s = "state" THEN "command" ELSE end

\* The first unknown type ends the parse; the fields before it are kept.
ParseField(s) ==
  /\ host_at = s
  /\ Len(fields[s]) < Len(Names(s))
  /\ LET name == Names(s)[Len(fields[s]) + 1] IN
       IF name \in DOMAIN parse_field_type
       THEN /\ fields' = [fields EXCEPT ![s] = Append(@,
                 [type |-> parse_field_type[name], byte_offset |-> buffer_size[s]])]
            /\ buffer_size' = [buffer_size EXCEPT ![s] = @ + field_byte_size(parse_field_type[name])]
            /\ UNCHANGED host_at
       ELSE host_at' = "error" /\ UNCHANGED <<fields, buffer_size>>
  /\ UNCHANGED <<document, generatorVars, wireVars>>

\* On "valid", on_init allocates command_buffer_ with zeros, and a state
\* buffer that is a message of zeros until a state arrives.
EndSection(s) ==
  /\ host_at = s
  /\ Len(fields[s]) = Len(Names(s))
  /\ host_at' = After(s, "valid")
  /\ IF host_at' = "valid"
     THEN /\ bytes' = [t \in Sections |-> [b \in 0..(buffer_size[t] - 1) |-> ZeroByte]]
          /\ sent' = [t \in Sections |-> [i \in DOMAIN fields[t] |-> 0]]
     ELSE UNCHANGED wireVars
  /\ UNCHANGED <<document, fields, buffer_size, generatorVars>>

-------------------------------------------------------------------------------
(* generate_header.  A section that is missing counts as one without        *)
(* fields; one without a value has no items() and ends the script.          *)
GenerateField(s) ==
  /\ generator_at = s /\ document[s] # Empty
  /\ Len(members[s]) < Len(Names(s))
  /\ LET name == Names(s)[Len(members[s]) + 1] IN
       IF name \in DOMAIN TYPE_MAP
       THEN LET ctype == TYPE_MAP[name].ctype
                n == Len(members[s]) IN
            /\ members' = [members EXCEPT ![s] = Append(@,
                 [ctype |-> ctype,
                  offset |-> IF n = 0 THEN 0 ELSE @[n].offset + SizeOf[@[n].ctype]])]
            /\ byte_size' = [byte_size EXCEPT ![s] = @ + TYPE_MAP[name].size]
            /\ UNCHANGED generator_at
       ELSE generator_at' = "failed" /\ UNCHANGED <<members, byte_size>>
  /\ UNCHANGED <<document, hostVars, wireVars>>

GenerateEnd(s) ==
  /\ generator_at = s
  /\ \/ document[s] = Empty /\ generator_at' = "failed"
     \/ /\ document[s] # Empty /\ Len(members[s]) = Len(Names(s))
        /\ generator_at' = After(s, "written")
  /\ UNCHANGED <<document, hostVars, members, byte_size, wireVars>>

-------------------------------------------------------------------------------
(* Bytes and values.                                                        *)
Byte(ctype, v, k) == IF v = 0 THEN ZeroByte ELSE <<ctype, v, k>>

\* memcpy of a C value from bytes at an offset.
Load(memory, offset, ctype) ==
  LET Fits(v) == \A k \in 0..(SizeOf[ctype] - 1) :
                   offset + k \in DOMAIN memory /\ memory[offset + k] = Byte(ctype, v, k)
      Stored == {0} \cup {memory[b][2] : b \in DOMAIN memory}
  IN IF \E v \in Stored : Fits(v) THEN CHOOSE v \in Stored : Fits(v) ELSE Garbage

\* memcpy of values to bytes, in the order of the fields: a later one wins.
Store(memory, layout, values) ==
  [b \in DOMAIN memory |->
     LET here == {i \in DOMAIN layout :
                    b \in layout[i].offset..(layout[i].offset + SizeOf[layout[i].ctype] - 1)}
     IN IF here = {} THEN memory[b]
        ELSE Byte(layout[Max(here)].ctype, values[Max(here)], b - layout[Max(here)].offset)]

\* The integer types' ranges; 2^29 stands for the ends that no value reaches.
Bits == [int32_t |-> <<-(2^29), 2^29 - 1>>, uint64_t |-> <<0, 2^29 - 1>>,
         int16_t |-> <<-(2^15), 2^15 - 1>>, uint8_t |-> <<0, 2^8 - 1>>]
Representable(ctype, n) == n \in Bits[ctype][1]..Bits[ctype][2]
Truncate(v) == IF v < 0 THEN -((-v) \div 2) ELSE v \div 2

\* static_cast from double.  A value that the integer type cannot hold is
\* undefined: one that wraps, one that saturates at an end, or zero.
Cast(ctype, v) ==
  IF ctype \in {"float", "double"} THEN {v}
  ELSE IF Representable(ctype, Truncate(v)) THEN {2 * Truncate(v)}
  ELSE {0, 2 * Bits[ctype][1], 2 * Bits[ctype][2], 2 * (Truncate(v) % (Bits[ctype][2] + 1))}

\* The layout by which the host reads and writes.
HostLayout(s) ==
  [i \in DOMAIN fields[s] |->
     [ctype |-> field_type_to_c_type[fields[s][i].type], offset |-> fields[s][i].byte_offset]]

read_field(s, i) == Load(bytes[s], HostLayout(s)[i].offset, HostLayout(s)[i].ctype)

-------------------------------------------------------------------------------
Running == host_at = "valid" /\ generator_at = "written"

\* write() of the host: write_command_field for every field.
WriteCommand ==
  /\ Running
  /\ \E values \in [DOMAIN fields["command"] -> Values] :
       LET casts == [i \in DOMAIN values |-> Cast(HostLayout("command")[i].ctype, values[i])] IN
       \E cast \in [DOMAIN values -> UNION Range(casts)] :
         /\ \A i \in DOMAIN values : cast[i] \in casts[i]
         /\ bytes' = [bytes EXCEPT !["command"] = Store(@, HostLayout("command"), cast)]
         /\ sent' = [sent EXCEPT !["command"] = values]
  /\ UNCHANGED <<document, hostVars, generatorVars>>

\* The firmware fills its struct, RawCodec::write copies it, and the host
\* takes the message if its size is state_buffer_size_.
WriteState ==
  /\ Running
  /\ byte_size["state"] = buffer_size["state"]
  /\ \E values \in [DOMAIN members["state"] -> Values] :
       /\ \A i \in DOMAIN values : values[i] \in Cast(members["state"][i].ctype, values[i])
       /\ bytes' = [bytes EXCEPT !["state"] =
            Store([b \in 0..(byte_size["state"] - 1) |-> ZeroByte], members["state"], values)]
       /\ sent' = [sent EXCEPT !["state"] = values]
  /\ UNCHANGED <<document, hostVars, generatorVars>>

\* A member of the struct into which RawCodec::read copies the command.
Member(i) == Load(bytes["command"], members["command"][i].offset, members["command"][i].ctype)

Next ==
  \/ FromYaml
  \/ \E s \in Sections : ParseField(s) \/ EndSection(s) \/ GenerateField(s) \/ GenerateEnd(s)
  \/ WriteCommand \/ WriteState

Spec == Init /\ [][Next]_vars

-------------------------------------------------------------------------------
StructEnd(s) ==
  LET n == Len(members[s]) IN
  IF n = 0 THEN 0 ELSE members[s][n].offset + SizeOf[members[s][n].ctype]
LayoutsAgree ==
  \A s \in Sections :
    /\ HostLayout(s) = members[s]
    /\ buffer_size[s] = byte_size[s] /\ byte_size[s] = StructEnd(s)

(* Whatever schema both ends accept, they agree about its messages: the     *)
(* parser, the header it would write itself and the header that the         *)
(* generator writes give each field the same place and C type, and          *)
(* state_buffer_size_, the generated size and sizeof the struct are one     *)
(* number (the two ends refuse messages of another size).  And every field  *)
(* arrives: the host reads the number that the firmware measured, and the   *)
(* firmware gets the number that was commanded, rounded towards zero by     *)
(* less than one if its type is an integer that can hold it, whatever the   *)
(* other fields are.                                                        *)
FieldsArrive ==
  Running =>
    /\ LayoutsAgree
    /\ \A i \in DOMAIN fields["state"] : read_field("state", i) = sent["state"][i]
    /\ \A i \in DOMAIN members["command"] :
         LET v == sent["command"][i]
             ctype == members["command"][i].ctype IN
         /\ Member(i) # Garbage
         /\ ctype \in {"float", "double"} => Member(i) = v
         /\ ctype \in DOMAIN Bits /\ Representable(ctype, Truncate(v)) =>
              Member(i) \in IF v < 0 THEN {v, v + 1} ELSE {v, v - 1}

(* The inductive invariant: each end has laid out the first fields of a     *)
(* section one after another, at the same places as far as both have come;  *)
(* and the bytes of a field are those of one number, the one that was       *)
(* measured or what the cast made of the one commanded.                     *)
End(field) == field.offset + SizeOf[field.ctype]
Packed(layout, n, size) ==
  /\ n = 0 => size = 0
  /\ n > 0 => layout[1].offset = 0 /\ End(layout[n]) = size
  /\ \A i \in 1..(n - 1) : End(layout[i]) = layout[i + 1].offset
  /\ \A i \in 1..n : End(layout[i]) <= size
  /\ \A i, j \in 1..n : i < j => End(layout[i]) <= layout[j].offset
ParsedSoFar(s) ==
  /\ Len(fields[s]) <= Len(Names(s))
  /\ \A i \in 1..Len(fields[s]) :
       /\ Names(s)[i] \in DOMAIN parse_field_type
       /\ fields[s][i].type = parse_field_type[Names(s)[i]]
  /\ Packed(HostLayout(s), Len(fields[s]), buffer_size[s])
GeneratedSoFar(s) ==
  /\ Len(members[s]) <= Len(Names(s))
  /\ \A i \in 1..Len(members[s]) :
       /\ Names(s)[i] \in DOMAIN TYPE_MAP
       /\ members[s][i].ctype = TYPE_MAP[Names(s)[i]].ctype
  /\ Packed(members[s], Len(members[s]), byte_size[s])
SamePlaces(s) ==
  \A i \in 1..Len(fields[s]) :
    i <= Len(members[s]) => fields[s][i].byte_offset = members[s][i].offset
Sizes(s) ==
  /\ host_at = "valid" \/ (s = "state" /\ host_at = "command") => Len(fields[s]) = Len(Names(s))
  /\ generator_at = "written" \/ (s = "state" /\ generator_at = "command") =>
       Len(members[s]) = Len(Names(s))
LayoutInv == TypeOK /\ \A s \in Sections : ParsedSoFar(s) /\ GeneratedSoFar(s) /\ SamePlaces(s) /\ Sizes(s)

Holds(memory, field, v) ==
  \A k \in 0..(SizeOf[field.ctype] - 1) : memory[field.offset + k] = Byte(field.ctype, v, k)
Encodings(s, field, v) == IF s = "state" THEN {v} ELSE Cast(field.ctype, v)
Carried(s) ==
  /\ DOMAIN bytes[s] = 0..(buffer_size[s] - 1)
  /\ sent[s] \in [1..Len(fields[s]) -> Int]
  /\ \A i \in 1..Len(fields[s]) :
       \E v \in Encodings(s, HostLayout(s)[i], sent[s][i]) : Holds(bytes[s], HostLayout(s)[i], v)
WireInv ==
  /\ DOMAIN bytes = Sections /\ DOMAIN sent = Sections
  /\ host_at = "valid" => \A s \in Sections : Carried(s)
SchemaInv == LayoutInv /\ WireInv
===============================================================================
