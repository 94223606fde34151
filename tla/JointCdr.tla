------------------------------- MODULE JointCdr -------------------------------
(***************************************************************************)
(* The CDR messages of Tier 1.  ZenbeddedClient::init lays a JointState    *)
(* template into both slots of the state buffer (zcdr_init_joint_state)    *)
(* and remembers the offsets; write_state patches stamps and doubles into  *)
(* the inactive slot, and the control thread sends the active slot as it   *)
(* is.  A JointCommand is computed the same way, only for its offsets: a   *)
(* message of the right size is kept and read at those offsets.            *)
(*                                                                         *)
(* A memory maps the offset of each item that is not zero to the item: the *)
(* encapsulation header, an integer, the characters of a string or a       *)
(* double.  What is in no item is zero bytes.  A string is its length and  *)
(* the number of its text.  The double that write_state number k gives for *)
(* joint i is <<k, array, i>>; the values of a JointCommand bear the mark  *)
(* "command".  So a double shows where it comes from.                      *)
(*                                                                         *)
(* A memory of the model has no end, the arrays of the code have.  What is *)
(* written behind the end of one is undefined behaviour: overrun remembers *)
(* it, and from then on the model says next to nothing.                    *)
(***************************************************************************)
EXTENDS Integers, Sequences

CONSTANTS
  Params,       \* what init may be given: frame_id, joint_names, interface_name
  RosCommands,  \* JointCommand messages that ROS nodes may send
  MaxWrites,    \* bound: calls of write_state after an init
  MAX_STATE_BUFFER_SIZE, MAX_CMD_BUFFER_SIZE,
  Null,         \* nullptr
  None,         \* no command has been accepted yet
  Garbage       \* a double read from bytes of something else

Strings == Nat \X Nat
Arrays == {"position", "velocity", "effort"}
Doubles == Nat \X (Arrays \cup {"zero", "command"}) \X Nat

ASSUME CdrAssumption ==
  /\ MaxWrites \in Nat /\ MAX_STATE_BUFFER_SIZE \in Nat /\ MAX_CMD_BUFFER_SIZE \in Nat
  /\ Params \subseteq [frame_id : Strings \cup {Null}, joint_names : Seq(Strings) \ {<<>>},
                       interface_name : Strings \cup {Null}]
  /\ RosCommands \subseteq [stamp : Nat, frame_id : Strings, joint_names : Seq(Strings),
                            interface_name : Strings, values : Seq(Doubles)]

CDR_HEADER_SIZE == 4
EmptyString == <<0, 0>>
ZeroValue == <<0, "zero", 0>>
Given(string) == IF string = Null THEN EmptyString ELSE string
CharsOf(string) == string[1] + 1

SizeOf(item) ==
  CASE item[1] \in {"header", "uint32"} -> 4
    [] item[1] = "chars" -> CharsOf(item[2])
    [] item[1] = "double" -> 8

\* memcpy of an item, and of an array of doubles.  Zeros leave no item.
Put(memory, offset, item) ==
  [o \in IF item \in {<<"uint32", 0>>, <<"double", ZeroValue>>} THEN DOMAIN memory \ {offset}
         ELSE DOMAIN memory \cup {offset}
     |-> IF o = offset THEN item ELSE memory[o]]
PutDoubles(memory, offset, values) ==
  LET At(i) == offset + 8 * (i - 1)
      spots == {At(i) : i \in 1..Len(values)}
      zeros == {At(i) : i \in {j \in 1..Len(values) : values[j] = ZeroValue}}
  IN [o \in (DOMAIN memory \cup spots) \ zeros
        |-> IF o \in spots THEN <<"double", values[((o - offset) \div 8) + 1]>> ELSE memory[o]]

-------------------------------------------------------------------------------
(* serialization.c: a cursor is an offset and the memory filled so far.     *)

\* Faulty variant: aligns to the start of the buffer, not of the payload.
AlignUpAbsolute(offset, alignment) == ((offset + alignment - 1) \div alignment) * alignment

ALIGN_UP(offset, alignment) ==
  CDR_HEADER_SIZE +
    ((offset - CDR_HEADER_SIZE + alignment - 1) \div alignment) * alignment

Lay(cursor, item) ==
  [at |-> cursor.at + SizeOf(item), memory |-> Put(cursor.memory, cursor.at, item)]
AlignTo(cursor, alignment) == [cursor EXCEPT !.at = ALIGN_UP(@, alignment)]
LayString(cursor, string) ==
  Lay(Lay(AlignTo(cursor, 4), <<"uint32", CharsOf(string)>>), <<"chars", string>>)
LayCount(cursor, n) == Lay(AlignTo(cursor, 4), <<"uint32", n>>)
SkipDoubles(cursor, n) == [cursor EXCEPT !.at = @ + 8 * n]

LayStrings(cursor, strings) ==
  LET laid[i \in 0..Len(strings)] ==
        IF i = 0 THEN cursor ELSE LayString(laid[i - 1], strings[i])
  IN laid[Len(strings)]

\* Header, stamp, frame_id and joint_names, which both messages begin with.
LayNames(p, memory) ==
  LET header == Lay([at |-> 0, memory |-> memory], <<"header", 0>>)
      frame == LayString([header EXCEPT !.at = @ + 8], Given(p.frame_id))
  IN LayStrings(LayCount(frame, Len(p.joint_names)), p.joint_names)

zcdr_init_joint_state(p, out_buffer) ==
  LET n == Len(p.joint_names)
      Begin(cursor) == AlignTo(LayCount(cursor, n), 8)
      position == Begin(LayNames(p, out_buffer))
      velocity == Begin(SkipDoubles(position, n))
      effort == Begin(SkipDoubles(velocity, n))
  IN [ctx |-> [num_joints |-> n, offset_timestamp |-> CDR_HEADER_SIZE,
               offset |-> [position |-> position.at, velocity |-> velocity.at, effort |-> effort.at],
               payload_size |-> SkipDoubles(effort, n).at],
      memory |-> effort.memory]

\* A null array, which is not in the domain of arrays, is left alone.
zcdr_serialize_joint_state(ctx, stamp, arrays, out_buffer) ==
  LET stamped == Put(Put(out_buffer, ctx.offset_timestamp, <<"uint32", stamp>>),
                     ctx.offset_timestamp + 4, <<"uint32", stamp>>)
      Patch(m, a) == IF a \in DOMAIN arrays THEN PutDoubles(m, ctx.offset[a], arrays[a]) ELSE m
  IN Patch(Patch(Patch(stamped, "position"), "velocity"), "effort")

\* The layout in out_buffer, up to the values.
CommandLayout(p) ==
  LET interface == LayString(LayNames(p, <<>>), Given(p.interface_name))
  IN AlignTo(LayCount(interface, Len(p.joint_names)), 8)

zcdr_init_joint_command(p) ==
  LET n == Len(p.joint_names)
      values == CommandLayout(p)
  IN [num_joints |-> n, offset_timestamp |-> CDR_HEADER_SIZE, offset_values |-> values.at,
      payload_size |-> SkipDoubles(values, n).at]

\* memcpy of a double out of a memory.
GetDouble(memory, offset) ==
  LET here == {o \in DOMAIN memory : o < offset + 8 /\ offset < o + SizeOf(memory[o])} IN
  IF here = {} THEN ZeroValue
  ELSE IF here = {offset} /\ memory[offset][1] = "double" THEN memory[offset][2]
  ELSE Garbage

\* Null is false.  The stamps, which no caller looks at, are left out.
zcdr_deserialize_joint_command(ctx, memory, buffer_size) ==
  IF buffer_size < ctx.payload_size THEN Null
  ELSE [i \in 1..ctx.num_joints |-> GetDouble(memory, ctx.offset_values + 8 * (i - 1))]

-------------------------------------------------------------------------------
(* What ROS 2 sends: every primitive at a multiple of its own size, counted *)
(* from the end of the encapsulation header.                                *)
AddPrimitive(message, item) ==
  LET alignment == IF item[1] = "chars" THEN 1 ELSE SizeOf(item)
      padding == (-(message.size - CDR_HEADER_SIZE)) % alignment
  IN [size |-> message.size + padding + SizeOf(item),
      memory |-> Put(message.memory, message.size + padding, item)]

AddString(message, string) ==
  AddPrimitive(AddPrimitive(message, <<"uint32", CharsOf(string)>>), <<"chars", string>>)
AddStrings(message, strings) ==
  LET added[i \in 0..Len(strings)] ==
        IF i = 0 THEN AddPrimitive(message, <<"uint32", Len(strings)>>)
        ELSE AddString(added[i - 1], strings[i])
  IN added[Len(strings)]
AddDoubles(message, values) ==
  LET added[i \in 0..Len(values)] ==
        IF i = 0 THEN AddPrimitive(message, <<"uint32", Len(values)>>)
        ELSE AddPrimitive(added[i - 1], <<"double", values[i]>>)
  IN added[Len(values)]

\* Seconds and nanoseconds of a stamp are the same number here.
Heading(stamp, frame_id, names) ==
  LET header == [size |-> CDR_HEADER_SIZE, memory |-> [o \in {0} |-> <<"header", 0>>]]
      stamped == AddPrimitive(AddPrimitive(header, <<"uint32", stamp>>), <<"uint32", stamp>>)
  IN AddStrings(AddString(stamped, frame_id), names)

JointState(stamp, p, arrays) ==
  AddDoubles(AddDoubles(AddDoubles(Heading(stamp, Given(p.frame_id), p.joint_names),
                                   arrays["position"]), arrays["velocity"]), arrays["effort"])
JointCommand(m) ==
  AddDoubles(AddString(Heading(m.stamp, m.frame_id, m.joint_names), m.interface_name), m.values)

-------------------------------------------------------------------------------
VARIABLES
  initialized,
  params,     \* of the last init
  state_ctx, cmd_ctx,
  slot,       \* the memories of the state buffer
  active_idx,
  writes,     \* calls of write_state since init
  last,       \* history: the arrays of the last write_state, those not null
  ever,       \* history: the arrays that some write_state has given
  cmd_buffer, \* the memory of the last command that was accepted
  held,       \* history: that command
  overrun     \* history: some init has written behind the end of an array

stateVars == <<slot, active_idx, writes, last, ever>>
commandVars == <<cmd_buffer, held>>
cdrVars == <<initialized, params, state_ctx, cmd_ctx, stateVars, commandVars, overrun>>

\* An application that has not called init: the constructor's reset_buffers.
CdrInit ==
  /\ initialized = FALSE
  /\ params \in Params
  /\ state_ctx = zcdr_init_joint_state(params, <<>>).ctx /\ cmd_ctx = zcdr_init_joint_command(params)
  /\ slot = [i \in {0, 1} |-> <<>>] /\ active_idx = 0
  /\ writes = 0 /\ last = <<>> /\ ever = {}
  /\ cmd_buffer = <<>> /\ held = None
  /\ overrun = FALSE

Templates(p, memory) == [i \in {0, 1} |-> zcdr_init_joint_state(p, memory).memory]

\* The items of a memory end within an array of this capacity.
Fits(memory, capacity) == \A o \in DOMAIN memory : o + SizeOf(memory[o]) <= capacity

\* A template is written whole before anybody knows its size, but without the
\* doubles: one may fit whose payload does not.
TemplatesFit(p) ==
  /\ \A i \in {0, 1} : Fits(Templates(p, <<>>)[i], MAX_STATE_BUFFER_SIZE)
  /\ Fits(CommandLayout(p).memory, MAX_CMD_BUFFER_SIZE)

\* Faulty variant: compares with sizeof(buffer_), which is both slots.
SizesFitBoth(state_size, cmd_size) ==
  state_size <= 2 * MAX_STATE_BUFFER_SIZE /\ cmd_size <= 2 * MAX_CMD_BUFFER_SIZE

\* init_base.
SizesFit(state_size, cmd_size) ==
  state_size <= MAX_STATE_BUFFER_SIZE /\ cmd_size <= MAX_CMD_BUFFER_SIZE

\* ZenbeddedClient::init: the templates are written, then init_base compares
\* the sizes and brings the transport up, which may fail.
ClientInit ==
  /\ ~initialized
  /\ \E p \in Params, connected \in BOOLEAN :
       /\ params' = p
       /\ slot' = Templates(p, <<>>) /\ active_idx' = 0
       /\ state_ctx' = zcdr_init_joint_state(p, <<>>).ctx /\ cmd_ctx' = zcdr_init_joint_command(p)
       /\ initialized' = (connected /\ SizesFit(state_ctx'.payload_size, cmd_ctx'.payload_size))
       /\ overrun' = ~TemplatesFit(p)
  /\ writes' = 0 /\ last' = <<>> /\ ever' = {}
  /\ cmd_buffer' = <<>> /\ held' = None

ClientDestroy ==
  /\ initialized
  /\ initialized' = FALSE
  /\ UNCHANGED <<params, state_ctx, cmd_ctx, stateVars, commandVars, overrun>>

\* The firmware's loop writes the arrays it has; Tier 1 has positions only.
WriteState ==
  /\ initialized /\ writes < MaxWrites
  /\ writes' = writes + 1
  /\ \E given \in SUBSET Arrays :
       /\ last' = [a \in given |-> [i \in 1..state_ctx.num_joints |-> <<writes', a, i>>]]
       /\ ever' = ever \cup given
  /\ active_idx' = 1 - active_idx
  /\ slot' = [slot EXCEPT ![active_idx'] =
                zcdr_serialize_joint_state(state_ctx, writes', last', @)]
  /\ UNCHANGED <<initialized, params, state_ctx, cmd_ctx, commandVars, overrun>>

\* Faulty variant: only refuses a message that is too short.
AcceptsLonger(size) == size >= cmd_ctx.payload_size

\* on_transport_cmd_cb.
Accepts(size) == size = cmd_ctx.payload_size

RosSends ==
  /\ initialized
  /\ \E m \in RosCommands :
       LET message == JointCommand(m) IN
       /\ Accepts(message.size)
       /\ cmd_buffer' = message.memory /\ held' = m
  /\ UNCHANGED <<initialized, params, state_ctx, cmd_ctx, stateVars, overrun>>

\* After an overrun: what lay behind the array, the other slot and the members
\* of the client among it, may change.  Some of its outcomes stand for all:
\* no property says anything of a client that has come here.
Undefined ==
  /\ overrun
  /\ initialized' \in BOOLEAN /\ active_idx' \in {0, 1}
  /\ slot' \in [{0, 1} -> {<<>>, slot[0], slot[1]}]
  /\ UNCHANGED <<params, state_ctx, cmd_ctx, writes, last, ever, commandVars, overrun>>

CdrNext ==
  \/ ~overrun /\ (ClientInit \/ ClientDestroy \/ WriteState \/ RosSends)
  \/ Undefined

CdrSpec == CdrInit /\ [][CdrNext]_cdrVars

-------------------------------------------------------------------------------
zenoh_publish_state == [size |-> state_ctx.payload_size, memory |-> slot[active_idx]]
read_command == zcdr_deserialize_joint_command(cmd_ctx, cmd_buffer, cmd_ctx.payload_size)

(* What the client publishes is, byte for byte, the CDR encoding of a       *)
(* JointState with the frame, the names and the last stamp that it was      *)
(* given, and with the last positions, velocities and efforts where         *)
(* write_state gave them.  An array that nobody has given since init is     *)
(* zeros; one that was left out this time is whole, from one earlier call.  *)
(* All this as long as no init has written behind the end of an array.      *)
PublishesJointState ==
  initialized /\ ~overrun =>
    LET n == Len(params.joint_names)
        Zeros == [i \in 1..n |-> ZeroValue]
        Earlier(a) == {[i \in 1..n |-> <<k, a, i>>] : k \in 1..(writes - 1)}
        Possible(a) == IF a \in DOMAIN last THEN {last[a]}
                       ELSE IF a \in ever THEN {Zeros} \cup Earlier(a) ELSE {Zeros}
    IN \E p \in Possible("position"), v \in Possible("velocity"), e \in Possible("effort") :
         zenoh_publish_state =
           JointState(writes, params, [position |-> p, velocity |-> v, effort |-> e])

(* A command that on_transport_cmd_cb accepts and that has a value for each *)
(* of the client's joints is read as it was sent, although the sender's     *)
(* frame, joint and interface names need not be the client's.               *)
CommandDecoded ==
  initialized /\ ~overrun /\ held # None /\ Len(held.values) = cmd_ctx.num_joints =>
    read_command = held.values

(* A client whose templates fit writes within its buffers ever after: the   *)
(* size check of init_base refuses a message whose doubles, which only      *)
(* write_state will write, would not fit, and on_transport_cmd_cb one that  *)
(* is longer than the command buffer.                                       *)
StaysInBuffers ==
  ~overrun =>
    /\ \A i \in {0, 1} : Fits(slot[i], MAX_STATE_BUFFER_SIZE)
    /\ Fits(cmd_buffer, MAX_CMD_BUFFER_SIZE)

(* The comment on zcdr_init_joint_state calls out_buffer a "pre-allocated   *)
(* byte buffer to hold the initialized CDR template": init would write no   *)
(* template that its array does not hold.                                   *)
BufferHoldsTemplate == ~overrun
===============================================================================
