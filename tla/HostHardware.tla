----------------------------- MODULE HostHardware -----------------------------
(***************************************************************************)
(* ZenbeddedHardware, the ros2_control component on the host               *)
(* (zenbedded_hardware_interface/src/zenbedded_hardware.cpp): life cycle,  *)
(* read() and write() of the real-time thread and the subscriber callback  *)
(* on Zenoh's thread, which share the RealtimeThreadSafeBox state_buffer_. *)
(*                                                                         *)
(* A state message is its number: every field of message n has the value   *)
(* n, and 0 stands for the zeros that on_init puts into the box.  The      *)
(* conversion of single fields belongs to the interface schema.            *)
(* Life-cycle calls, read and write exclude each other: the resource       *)
(* manager calls them under the lock of the component.                     *)
(***************************************************************************)
EXTENDS Integers, FiniteSets

CONSTANTS
  StateFields, CommandFields,
  Values,       \* numbers that a controller may command, 0 included
  NaN,
  MaxSample     \* bound: messages that differ; the last one comes again and again

ASSUME HostAssumption ==
  /\ IsFiniteSet(StateFields) /\ StateFields # {}
  /\ 0 \in Values
  /\ Values \subseteq Int
  /\ NaN \notin Int
  /\ MaxSample \in Nat

VARIABLES
  life,          \* life cycle state of the component
  session,       \* session_ exists
  state_sub,     \* state_sub_ exists and its session is open
  command_pub,   \* command_pub_ exists
  hw_states,     \* per state field, as copied by read()
  hw_commands,   \* per command field
  command_if,    \* per command field: the command interface of the controllers
  state_buffer,  \* the message in the box
  box_lock,      \* the mutex of the box: "free", "rt" or "zenoh"
  callback,      \* message that the subscriber callback is storing, NaN if none
  cycle,         \* where the real-time thread is
  copied,        \* fields that the read() under way has copied
  sent,          \* number of the newest message of the firmware
  wire           \* the command published last, <<>> if none

zenohVars == <<session, state_sub, command_pub>>
boxVars == <<state_buffer, box_lock, callback>>
commandVars == <<hw_commands, command_if, wire>>
vars == <<life, zenohVars, hw_states, commandVars, boxVars, cycle, copied, sent>>

Numbers == Values \cup {NaN}

TypeOK ==
  /\ life \in {"new", "unconfigured", "inactive", "active", "finalized"}
  /\ session \in BOOLEAN /\ state_sub \in BOOLEAN /\ command_pub \in BOOLEAN
  /\ hw_states \in [StateFields -> 0..MaxSample \cup {NaN}]
  /\ hw_commands \in [CommandFields -> Numbers]
  /\ command_if \in [CommandFields -> Numbers]
  /\ state_buffer \in 0..MaxSample
  /\ box_lock \in {"free", "rt", "zenoh"}
  /\ callback \in 1..MaxSample \cup {NaN}
  /\ cycle \in {"idle", "copy", "update", "write"}
  /\ copied \subseteq StateFields
  /\ sent \in 0..MaxSample
  /\ wire \in [CommandFields -> Numbers] \cup {<<>>}

Init ==
  /\ life = "new"
  /\ session = FALSE /\ state_sub = FALSE /\ command_pub = FALSE
  /\ hw_states = [f \in StateFields |-> NaN]
  /\ hw_commands = [f \in CommandFields |-> NaN]
  /\ command_if = [f \in CommandFields |-> 0]
  /\ state_buffer = 0 /\ box_lock = "free" /\ callback = NaN
  /\ cycle = "idle" /\ copied = {}
  /\ sent = 0 /\ wire = <<>>

-------------------------------------------------------------------------------
(* Life cycle.                                                              *)

\* A missing parameter or a schema error refuses the component.
OnInit ==
  /\ life = "new"
  /\ life' \in {"unconfigured", "finalized"}
  /\ UNCHANGED <<zenohVars, hw_states, commandVars, boxVars, cycle, copied, sent>>

\* on_configure and on_cleanup are the defaults of ros2_control.
ConfigureOrCleanup ==
  /\ cycle = "idle"
  /\ \/ life = "unconfigured" /\ life' = "inactive"
     \/ life = "inactive" /\ life' = "unconfigured"
  /\ UNCHANGED <<zenohVars, hw_states, commandVars, boxVars, cycle, copied, sent>>

NaNToZero(v) == [f \in DOMAIN v |-> IF v[f] = NaN THEN 0 ELSE v[f]]

\* Faulty variant: every field is reset.
ResetAll(v) == [f \in DOMAIN v |-> 0]

\* The loop over hw_states_ (and the one over hw_commands_) at activation.
ReadyStates(v) == NaNToZero(v)
ReadyCommands(v) == NaNToZero(v)

\* An interface that is locked refuses set_value, which on_activate ignores.
OnActivate ==
  /\ life = "inactive" /\ cycle = "idle"
  /\ life' = "active"
  /\ session' = TRUE /\ state_sub' = TRUE /\ command_pub' = TRUE
  /\ hw_states' = ReadyStates(hw_states)
  /\ hw_commands' = ReadyCommands(hw_commands)
  /\ \E free \in SUBSET CommandFields :
       command_if' = [f \in CommandFields |-> IF f \in free THEN hw_commands'[f] ELSE command_if[f]]
  /\ UNCHANGED <<boxVars, cycle, copied, sent, wire>>

\* Zenoh throws: the constructor of the session (what an earlier attempt left
\* stays), the subscriber (an earlier session is closed by the new one) or
\* the publisher.  on_error, a default, ends the component or not.
OnActivateFails ==
  /\ life = "inactive" /\ cycle = "idle"
  /\ life' \in {"unconfigured", "finalized"}
  /\ \/ UNCHANGED <<session, state_sub>>
     \/ session' = TRUE /\ state_sub' = FALSE
     \/ session' = TRUE /\ state_sub' = TRUE
  /\ UNCHANGED <<command_pub, hw_states, commandVars, boxVars, cycle, copied, sent>>

OnDeactivate ==
  /\ life = "active" /\ cycle = "idle"
  /\ life' = "inactive"
  /\ state_sub' = FALSE /\ command_pub' = FALSE /\ session' = FALSE
  /\ UNCHANGED <<hw_states, commandVars, boxVars, cycle, copied, sent>>

-------------------------------------------------------------------------------
(* The subscriber callback.                                                 *)

\* A message reaches the callback, which drops it when its size is wrong.  One
\* callback runs at a time, also over the change from a session to the next.
CallbackBegin ==
  /\ state_sub /\ callback = NaN /\ MaxSample > 0
  /\ sent' = IF sent < MaxSample THEN sent + 1 ELSE sent
  /\ callback' \in {sent', NaN}
  /\ UNCHANGED <<life, zenohVars, hw_states, commandVars, state_buffer, box_lock, cycle, copied>>

\* Faulty variant: try_set, which drops the message while read() has the box.
CallbackTry ==
  /\ callback # NaN /\ box_lock # "zenoh"
  /\ IF box_lock = "free"
     THEN box_lock' = "zenoh" /\ state_buffer' = callback /\ UNCHANGED callback
     ELSE callback' = NaN /\ UNCHANGED <<box_lock, state_buffer>>
  /\ UNCHANGED <<life, zenohVars, hw_states, commandVars, cycle, copied, sent>>

\* state_buffer_.set waits for the mutex; it may do so past on_deactivate.
CallbackLock ==
  /\ callback # NaN /\ box_lock = "free"
  /\ box_lock' = "zenoh"
  /\ state_buffer' = callback
  /\ UNCHANGED <<life, zenohVars, hw_states, commandVars, callback, cycle, copied, sent>>

CallbackReturn ==
  /\ box_lock = "zenoh"
  /\ box_lock' = "free"
  /\ callback' = NaN
  /\ UNCHANGED <<life, zenohVars, hw_states, commandVars, state_buffer, cycle, copied, sent>>

-------------------------------------------------------------------------------
(* The real-time thread.  The resource manager reads and writes inactive    *)
(* components too.                                                          *)
readUnchanged == <<life, zenohVars, commandVars, state_buffer, callback, sent>>

\* Faulty variant: the vector is read without the box's mutex.
ReadTryUnlocked ==
  /\ life \in {"inactive", "active"} /\ cycle = "idle"
  /\ cycle' = "copy" /\ copied' = {}
  /\ UNCHANGED <<readUnchanged, hw_states, box_lock>>

\* try_get: the mutex is tried; without it this read() changes nothing.
ReadTry ==
  /\ life \in {"inactive", "active"} /\ cycle = "idle"
  /\ \/ /\ box_lock = "free"
        /\ box_lock' = "rt" /\ cycle' = "copy" /\ copied' = {}
     \/ /\ box_lock # "free"
        /\ cycle' = "update"
        /\ UNCHANGED <<box_lock, copied>>
  /\ UNCHANGED <<readUnchanged, hw_states>>

ReadField(f) ==
  /\ cycle = "copy" /\ f \notin copied
  /\ hw_states' = [hw_states EXCEPT ![f] = state_buffer]
  /\ copied' = copied \cup {f}
  /\ UNCHANGED <<readUnchanged, box_lock, cycle>>

ReadReturn ==
  /\ cycle = "copy" /\ copied = StateFields
  /\ cycle' = "update"
  /\ box_lock' = "free"
  /\ UNCHANGED <<readUnchanged, hw_states, copied>>

\* The controllers' updates: any number, NaN or nothing, for every field.
Update ==
  /\ cycle = "update"
  /\ cycle' = "write"
  /\ command_if' \in [CommandFields -> Numbers]
  /\ UNCHANGED <<life, zenohVars, hw_states, hw_commands, wire, boxVars, copied, sent>>

\* Faulty variants: the value is taken as it is; a NaN stops the field.
CommandUnfiltered(f, available) == IF available THEN command_if[f] ELSE hw_commands[f]
CommandZeroed(f, available) == IF available /\ command_if[f] # NaN THEN command_if[f] ELSE 0

\* An interface that is locked (no value) or holds NaN leaves the field as it is.
Command(f, available) == IF available /\ command_if[f] # NaN THEN command_if[f] ELSE hw_commands[f]

Write ==
  /\ cycle = "write"
  /\ cycle' = "idle"
  /\ IF command_pub
     THEN \E free \in SUBSET CommandFields :
            /\ hw_commands' = [f \in CommandFields |-> Command(f, f \in free)]
            /\ wire' = hw_commands'
     ELSE UNCHANGED <<hw_commands, wire>>
  /\ UNCHANGED <<life, zenohVars, hw_states, command_if, boxVars, copied, sent>>

Zenoh == CallbackLock \/ CallbackReturn
RealTime == ReadTry \/ (\E f \in StateFields : ReadField(f)) \/ ReadReturn \/ Update \/ Write
LifeCycle == OnInit \/ ConfigureOrCleanup \/ OnActivate \/ OnActivateFails \/ OnDeactivate
Next == LifeCycle \/ CallbackBegin \/ Zenoh \/ RealTime

(* The control loop is periodic and a callback under way is finished.  The  *)
(* real-time thread sleeps most of each period with the mutex free, so a    *)
(* callback that waits for it gets it in the end.  No life-cycle call and   *)
(* no message ever has to come.                                             *)
Fairness == WF_vars(RealTime) /\ SF_vars(CallbackLock) /\ WF_vars(CallbackReturn)
Spec == Init /\ [][Next]_vars
FairSpec == Spec /\ Fairness

-------------------------------------------------------------------------------
(* No NaN is ever published, although hw_commands_ starts as NaN and the    *)
(* controllers may command it: what the firmware gets is a number.          *)
NoNaNOnWire == wire # <<>> => \A f \in CommandFields : wire[f] # NaN

(* Between two read() calls all fields of hw_states_ come from one message. *)
NoMixedSample ==
  cycle # "copy" => \A f, g \in StateFields : hw_states[f] = hw_states[g]

(* The fields never go back to an older message, over skipped reads,        *)
(* callbacks that finish late, deactivations and failed activations.        *)
SamplesForward ==
  [][\A f \in StateFields : hw_states[f] # NaN => hw_states'[f] # NaN /\ hw_states'[f] >= hw_states[f]]_vars

(* A field for which nobody commands a number repeats what was sent last,   *)
(* also as the first command after a deactivation or a failed activation.   *)
HoldsLastCommand ==
  [][wire # <<>> /\ wire' # wire =>
       \A f \in CommandFields : command_if[f] = NaN => wire'[f] = wire[f]]_vars

(* No message is lost to a read() that has the box, and none to a read()    *)
(* that finds it locked: when the publisher falls silent, the last message  *)
(* that the callback accepted gets to hw_states_, unless the component is   *)
(* deactivated.  While it goes on publishing nothing in the code excludes   *)
(* that every try_get meets a locked box.                                   *)
Silent == <>[][~(callback = NaN /\ callback' # NaN)]_vars
LastSampleArrives ==
  Silent =>
    \A n \in 1..MaxSample :
      callback = n ~> (life # "active" \/ \A f \in StateFields : hw_states[f] \in n..MaxSample)

(* The inductive invariant: the mutex is held by whoever uses the box, no   *)
(* field is newer than the box and the box than the message under way, and  *)
(* commands are published by an active component, from numbers, only.       *)
BoxHeld ==
  /\ box_lock = "rt" <=> cycle = "copy"
  /\ box_lock = "zenoh" => callback = state_buffer
  /\ life \in {"new", "finalized"} => cycle = "idle"
CopiedSoFar ==
  cycle = "copy" =>
    /\ \A f \in copied : hw_states[f] = state_buffer
    /\ \A f, g \in StateFields \ copied : hw_states[f] = hw_states[g]
InOrder ==
  /\ \A f \in StateFields : hw_states[f] = NaN \/ hw_states[f] <= state_buffer
  /\ state_buffer <= sent
  /\ callback # NaN => callback = sent
CommandsReady ==
  /\ command_pub <=> life = "active"
  /\ command_pub => \A f \in CommandFields : hw_commands[f] # NaN
  /\ wire # <<>> => wire = hw_commands
HostInv ==
  /\ TypeOK /\ NoNaNOnWire /\ NoMixedSample
  /\ BoxHeld /\ CopiedSoFar /\ InOrder /\ CommandsReady
===============================================================================
