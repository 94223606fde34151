# Zenbedded in TLA+

Zenbedded connects microcontrollers that run Zephyr to ros2_control: a firmware
publishes its state and receives commands over Zenoh, and a hardware component
on the host turns both into the state and command interfaces of the
controllers.  This directory holds TLA+ models of the parts of the repository
that carry its logic, the TLC runs that check them and TLAPS proofs of the
properties that matter most.

## 1. The system

| Component | State | Operations | Who calls it, from where |
|---|---|---|---|
| Double buffers (`zenbedded_rcl`, `double_buffer.hpp`) | two slots, index of the active one, a spinlock | `write` (prepare, fill, commit), `read_latest`, `reset` | application thread, control thread, Zenoh read task |
| Transport (`zenoh_transport.c`) | one session, a reference count, a mutex, pools of publishers and subscribers | init, destroy, declare/undeclare, publish, receive handler | every client; the handler runs in the Zenoh read task |
| Client (`zenbedded_client.cpp/.hpp`) | handles, flags and frequency of the control thread, two double buffers, count of accepted commands | `init`, `destroy`, `start_thread`, `stop_thread`, `publish_state`, `write_state`, `read_command`, command callback | the firmware's main thread; a control thread of its own; the read task |
| Tier 1 and Tier 2 pendulum firmware (`inverted_pendulum_tier*/src/main.cpp`) | commanded velocity or acceleration, watchdog counter, stepper position and limits, encoder mailbox | start-up; one loop turn per period; encoder thread (Tier 2) | main thread, next to the read task, the stepper driver and the encoder thread |
| Network bring-up (`network.cpp`) | timers, results of both transports | `init_network`, `init_usbd`, `init_wifi` | start-up of a firmware |
| Host hardware (`zenbedded_hardware.cpp`) | session, subscriber, publisher, `hw_states_`, `hw_commands_`, state box with a mutex | life-cycle callbacks, `read`, `write`, subscriber callback | controller manager's real-time thread; Zenoh's thread |
| Pendulum controller (`inverted_pendulum_controller.cpp`) | mode, ramp counter, parameters | life-cycle callbacks, `update` | controller manager |
| Interface schema (`interface_schema.cpp`) and payload generator (`generate_tier2_payload.py`) | fields, offsets and sizes of both directions | parse, generate, convert a field | host hardware; the firmware's build |
| Codecs (`codecs.hpp`) and CDR serialization (`serialization.c`) | offsets, payload size, a template in each slot of the state buffer | lay out, patch, read | client |
| Mock pendulum hardware (`mock_pendulum_hardware.cpp`) | simulated arm and pendulum, last command | life-cycle callbacks, `read` with its sub-steps | controller manager, in place of the host hardware |
| Sine wave demo | an amplitude | start-up, loop without a watchdog | main thread |
| USB descriptors, `HardwareComponent`, launch files and tools | none | | |

How they interact: the read task calls the transport's handler, which calls the
client's callback, which writes the command buffer and then increments the
counter of accepted commands; the firmware's loop compares that counter with
its last value and only then reads the buffer; the control thread reads the
state buffer and publishes it without the transport's mutex.  On the host the
subscriber callback stores a message in the box, `read` copies it if it gets
the mutex, `write` publishes commands filtered for NaN.

What is hard here: copies that run without a lock; a session shared by users
that come and go; a teardown that a handler or an aborted thread meets half
way; a thread that is joined with a timeout and then aborted; liveness of a
host inferred from a wrapping counter alone; a stepper driver that moves
between two turns of the loop; calls that fail half way; NaN; two programs that
derive one message layout; a watchdog at one end that counts messages which the
other end repeats without a controller.  `PROJECT.json`
lists these hazards line by line with the properties that cover them.

## 2. Modules

| Module | Models | Notes |
|---|---|---|
| `AtomicRegister` | what a double buffer promises | abstract specification |
| `DoubleBuffer` | `DoubleByteBuffer`, `DoubleBuffer<T>` | both `memcpy` word by word; the refinement mapping to `AtomicRegister` is `Register` |
| `Transport` | `zenoh_transport.c` | actions only; a call that holds the mutex throughout is one step, the teardown is several |
| `TransportUsers` | the contract of `zenoh_transport.h` | any users that respect it, on top of `Transport` |
| `Client` | `ZenbeddedClientBase`, `ZenbeddedClient<>` | application thread, control thread and read task on top of `Transport`; the buffers are registers, which `DoubleBuffer` justifies; `Contract` maps the clients to the users of `TransportUsers` |
| `PendulumTier1` | Tier 1 loop and watchdog | with the store-then-count of the read task |
| `PendulumTier2` | Tier 2 loop, limits, driver | with driver steps, an encoder that dies, failing driver calls and NaN |
| `EncoderThread` | Tier 2 sampling thread, mailbox, semaphore | cycle counter that wraps, readings that fail; of a sample only its age |
| `FirmwareStartup` | `main()` before its loop, in five builds of three firmwares | a sequence of steps for each build; calls that fail, waits that time out, an uptime that wraps |
| `NetworkInit` | `init_network` with both transports | 32-bit timers that wrap |
| `HostHardware` | `ZenbeddedHardware` | real-time thread against Zenoh's thread, failing activations |
| `PendulumController` | mode machine of the controller | angles are small integers or NaN |
| `InterfaceSchema` | `interface_schema.cpp`, the generator, `RawCodec`, conversion at the host | a schema is two sequences of type names; bytes know which value they are a part of |
| `JointCdr` | `serialization.c`, both joint codecs, the client's use of them | a memory maps offsets to items, and `overrun` tells whether one was written behind the end of its array; a reference encoder states what ROS 2 expects; its specification is `CdrSpec` (`CdrInit`, `CdrNext`) |
| `MockPendulum` | life cycle and arm of the simulated component | the pendulum is an arbitrary disturbance |
| `PendulumSystem` | controller's life cycle, `HostHardware`, a lossy link, `PendulumTier2` | INSTANCEs of both ends; the read task of the firmware is one step |
| `PendulumStaleness` | `PendulumSystem` with the age of the last command | the history variable of `NoLatchedVelocity` |
| `*Proofs` | TLAPS proofs | eight modules; `PendulumTier2Proofs` has parts for the loop, for `EncoderThread` and for `PendulumSystem`, `HostHardwareProofs` for `HostHardware` and `InterfaceSchema`, `MockPendulumProofs` for `MockPendulum` and `PendulumController`, `PendulumTier1Proofs` for `PendulumTier1` and `JointCdr` |
| `MC*` | instances for TLC | values of constants; most hold two parts, see below |

Variables and actions keep the names of the source; `map` in `PROJECT.json`
gives the lines of each definition.  A definition marked "Faulty variant" is not
part of a specification: it is a plausible mistake that a property was checked
to detect.

An MC module may hold two parts of the system that share no state: it EXTENDS
the one and INSTANCEs the other (`MCPendulumTier1` EXTENDS both), a variable `part` is chosen in the initial
state, and a step belongs to the part that was chosen while the other stays
where it is.  A behaviour is thus a behaviour of one part, and the properties of
both are checked in one run; those of the instance have an alias of the same
name in the MC module.  `MCPendulumTier1` has the loop and the messages of
`JointCdr`, `MCPendulumTier2` the loop and `EncoderThread`, `MCNetworkInit` the
bring-up and `FirmwareStartup`, `MCHostHardware` the component and
`InterfaceSchema`, `MCMockPendulum` the arm and `PendulumController`; `MCClient`
has a client alone and a pair of clients.  The instance takes its constants from
constants of the MC module, which its configuration gives values: a proof that
EXTENDS the MC module is about every value of them, and the schemas or the six
angles of a run are in its configuration only.  `MCPendulumSystem` INSTANCEs
`PendulumSystem` around the variables of the loop, so that what is proved of the
loop can be said of the system.

Abstractions.  A payload is a value, a message a number, a command its origin.
Key expressions, liveliness tokens, attachments, logging and LEDs are left out.
In `DoubleBuffer` a payload has the same value in each of its words, so that a
mixture of two payloads shows.  Its `Reset` comes between writes only, as it does
with one client whose `init` and `write_state` run in one thread.  In `PendulumTier2` positions are microsteps and
velocities microsteps per turn.  In `PendulumController` the control laws are
left out: a command is "zero", "swing" or a share of the LQR command.  In
`InterfaceSchema` a double is a number of halves; a cast that C++ leaves
undefined may wrap, saturate or give zero; a key that a YAML mapping has twice,
which is invalid YAML and which the two parsers treat differently, is left out.
In `JointCdr` a string is its length and the number of its text, and zero bytes
are in no item.  A memory of the model has no end, but `TemplatesFit` compares it
with the array of the code: after an `init` that wrote further (`overrun`) only
`Undefined` happens, which may change the slots and the flags, and the properties
of the messages are about clients that have not come there.  `PendulumSystem` leaves out the state direction, failing
driver calls, a dead encoder and failing activations, which `HostHardware` and
`PendulumTier2` have by themselves, and commands accelerations of one sign (the
other is its mirror image).

External parts are modelled from how the code uses them, with these
assumptions: a `k_mutex` is reentrant; `z_close` returns when the read task has
ended, so that no handler is left; a handler runs outside Zenoh's own locks; a
thread that is aborted inside a put leaves Zenoh usable (if its internal mutex
were lost, later calls would block, which the code cannot prevent); the resource
manager never runs a life-cycle callback, `read` and `write` of one component at
the same time; `try_get` tries the mutex and `set` waits for it; a session of
Zenoh on the host ends only after its callback, so that those of an old and a new
session never overlap (`SamplesForward` rests on it); the controller
manager stops the controllers of a component before the component; a firmware's
compiler gives the C types of a packed struct their usual sizes.

## 3. Runs

| Run | Question | Result |
|---|---|---|
| `buffer_single_writer` | Is the buffer safe and atomic with one writer? | Yes: no torn read, and it implements an atomic register. |
| `transport_users` | Do three users that come and go share a session safely? | Yes: exact count, valid and exclusive handles, no put on an undeclared publisher, nothing left after the last destroy, every teardown ends. |
| `client_calls` | Does a client survive every order of its calls and failures, alone and next to a second one? | Yes: no division by a cleared frequency, flags that agree with the thread, a count of commands that is not ahead of the buffer (of a client alone: the pair gets no commands, see section 5), no put on a publisher that is undeclared (through the other client or its own `stop_thread`), nothing left declared and no callback under way when all are done; the clients keep the contract of the transport's header; every call returns, the thread keeps publishing. |
| `client_destroyed` | Is a client out of the transport after `destroy()` when another one remains? | No: its subscription stays, and the callback runs on it. |
| `tier1_watchdog` | Does the Tier 1 watchdog stop exactly the stale commands? | Yes, also when the counter wraps and when commands arrive in the middle of a turn; without a host the stepper stops for good. |
| | Is the patched template the CDR encoding of the state, are commands read as sent, and do messages stay within the buffers? | Yes, for names of every alignment, omitted arrays and repeated `init`, as long as the templates fit; an array that is left out is whole, from one earlier call. A template that fits while its doubles do not is refused. |
| `tier1_oversize` | Does `init` write no template that its array does not hold? | No: the sizes are compared after the templates have been written. |
| `tier2_loop` | Does the stepper stay within its travel, and rest when a peer is gone? | Yes, whichever driver calls fail, with NaN commands and a dead encoder. |
| | Is what the loop fetches fresh, and its velocity never inflated? | Yes: the newest reading or the one just being replaced; the interval is never too short, at a wrap too long; the loop is never starved. |
| `network_init` | Are the waits of `init_network` real and its result right, from any uptime? | Yes: nobody gives up early, also across a wrap; success means an address was seen on one interface; the call returns. Start-up enters the loop only with everything set up, and returns only after a real failure (`StartupSound`). |
| | Does start-up end, properly? | Yes, from every uptime: in the loop with everything set up, or by a return after a real failure; except for the two waits without a timeout (Tier 2's encoder, the sine wave's address). |
| `host_cycle` | Are states whole and in order, and commands numbers, through all activations? | Yes. The last message of a publisher that falls silent reaches `hw_states_`. The run also confirms that the last command is repeated when nobody commands a number, after a reactivation too. |
| | Do the parser and the generator agree about every schema both accept, and does every field arrive? | Yes: same places, types and sizes; measured values arrive exactly, commanded ones after rounding towards zero, also next to a value that overflows its type. |
| `controller_modes` | Is the LQR ramp exact, and do the modes chatter at one angle? | The ramp is exact after every sequence of catches, falls and activations; the corrected `fall_angle` excludes chatter. |
| | Does a command survive into a new activation of the simulation? | Only through a command interface whose `set_value(0.0)` failed at the activation. |
| `pendulum_system` | Can NaN reach the loop from end to end; does the stepper stand without a controller? | No; and yes, by the watchdog or at the latest by the hard stop, over crashes of the host and lost messages. |
| `system_stale_command` | Does the watchdog end a stale command? | No: `write` repeats the last one, zero or not, and the loop drives on to the hard stop. |

### Bounds

* Buffers: two words are the least that can be torn; two readers compete for
  the lock; two values tell payloads apart.  The proofs lift all three.
* Transport: three users and pools of two slots, so that the pool runs out while
  others hold handles, and a session is shared, handed over and reopened.
* Clients: one with frequencies 0 (no thread) and 100 and three commands between
  two resets (`MaxCommands`); a pair that shares pools of two slots and gets only
  messages it drops (what a command does to one that is destroyed is the run
  `client_destroyed`, see also section 5).
* Tier 1: a counter that wraps at 4 and a timeout of 3 turns, so that a wrap
  falls between any two samples.  Fewer than 2^32 commands arrive in one cycle
  (guard of `StoreCommand`): exactly 2^32 would be invisible to the code.
* Tier 2: travel of one microstep each side of a home at 2, so that 0, as which a
  failed read of the position counts, lies outside; targets that overshoot; a
  timeout of 2 turns.
* Network: an uptime that wraps at 12, timeouts of 2, 5 and 3, sleeps of 1 or 2,
  started at each of the 12 uptimes: every wait meets a wrap before, inside and
  after it.
* Host: two fields each way, commands 0, 1 or NaN, and messages without end of
  which three differ (`MaxSample`; the third one comes again and again).
* Controller: angles 0 to 5, parameters in and out of order, ramps of 0 (raised
  to 1), 1 and 3.
* Schema: one section of all sequences of up to two of the seven type names and
  an unknown one, and of three of three sizes; the other section short, missing
  or without a value.  Values 0, -1.5 and 300, which an `uint8` cannot hold.
* CDR: strings of 0, 1, 4, 6 and 15 characters, which end at different distances
  from a multiple of 4 and of 8, a null string, one or two joints; in arrays of 160 bytes one of 60
  characters, with which a template fits but not the doubles behind it, and one of
  120, with which the template is too long; commands with other names and
  counts than the client's; three writes after an `init` (`MaxWrites`), so that
  each slot is patched again.
* Encoder: a counter of 12 cycles, two cycles a microsecond, readings shorter and
  longer than the period of three microseconds: wraps fall into every part of a
  turn.
* Start-up: an uptime that wraps at 12 and timeouts of 2 to 5, from each of the 12
  uptimes.
* Mock: stops at 3, velocities and accelerations up to 2 and sub-steps up to 2, so
  that one sub-step overshoots a stop.
* System: a travel of two microsteps each way, a velocity ceiling of 2, a watchdog
  of one turn, one message under way; state messages are left out
  (`MaxSample = 0`).

Deadlock is not checked where the system may stop: `tier2_loop` (encoder dead
and host gone), `network_init` (the call returns, start-up is over),
`host_cycle` (a component that is finalized, a schema that is refused),
`pendulum_system` and `system_stale_command` (the loop waits for the encoder).

Each module has a type invariant, which the proofs include where there are
proofs; the runs spend their properties on what could be wrong.

### Fairness

Only what the code's scheduling gives.  A call that
has begun goes on, since join has a timeout (a put of the control thread is not
promised to return: it may block on the link); of two clients that want
`transport_mutex` nobody waits for ever (strong fairness: `k_mutex_unlock` hands it
to the one that waits); a handler under way ends.  Loops
and the control thread are scheduled by Zephyr, the host's cycle by the
controller manager; a callback that waits for the mutex of the state box gets it
(strong fairness: the real-time thread sleeps most of a period).  The reverse is
not assumed: under a publisher that never pauses every `try_get` may find the box
locked, so `LastSampleArrives` has a publisher that falls silent as its premise.
In Tier 1 a driver that is told again and again to stop
does so in the end (strong fairness: single calls may fail).  In Tier 2 an
encoder that is not dead delivers samples and the driver steps towards its
target.  The encoder thread's sensor answers now and then, and not only at times
that are whole wraps of the counter apart (strong fairness: single readings may
fail).  A network that is reachable hands out an address in the end; nothing is
assumed of one that is not.  In `PendulumSystem` only the firmware is fair:
hosts, links, life-cycle requests and messages are never assumed to come.

## 4. Proofs

Each theorem holds for all values of the constants that satisfy the named
assumptions of the module, which TLC evaluates in the runs.  `SystemAssumption` is
the strongest: the Tier 2 command is one field, 0 can be commanded, and state
messages are left out.  Two hypotheses are part of a statement: one writer for a
double buffer (`SingleWriter`), and one client for `AloneNeverCalled` and
`AloneCountsBehind`.

| Theorem | Statement | Argument |
|---|---|---|
| `DoubleBufferProofs!BufferInvariant`, `NoTornReads` | with one writer (`SingleWriter`) `Spec => []BufferInv`, `[]NoTornRead` | `NoTornRead` is not inductive: it needs that the active slot is whole, that the slot being filled is not the active one, what each copy has moved so far, and that the lock's holder is the reader that copies. |
| `DoubleBufferProofs!Implementation` | with one writer `Spec => ImplementsRegister` | a commit is the register's write, the release of the lock its read; every other step stutters. |
| `TransportProofs!TransportInvariant`, `PutsAreSafe` | `Spec => []TransportInv`, `[]PutOnLivePublisher` (a part of `TransportInv`) | the count is the cardinality of the attached users; the strengthening says who owns the mutex between two steps and that only attached users hold handles. |
| `ClientProofs!ClientInvariant`, `PeriodDefined`, `FlagsAgree` | `Spec => []ClientInv`, `[]NoDivisionByZero`, `[]ThreadFlagsAgree` | where in its calls a client is initialized, and that a thread exists only while it is started, between calls or in the join: the flag and the frequency are cleared together, after the join or the abort. |
| `ClientProofs!ContractKept` | `Spec => KeepsContract` (`TransportUsers`' `Spec` under the mapping `Contract`) | each step of a client is a step of a user or a stutter: an error path gives back its reference, a `destroy` comes after the join, when no put is under way, and an aborted put is a user that has stopped putting. |
| `ClientProofs!ClientPutsAreSafe`, `NothingIsLeft` | `Spec => []PutOnLivePublisher`, `[]NothingLeftDeclared` | `TransportInv` through the mapping, with `ClientInv`: the two are proved inductive together. |
| `ClientProofs!AloneNeverCalled`, `AloneCountsBehind` | with one client `Spec => []NoCallbackIntoIdleClient`, `[]CountBehindBuffer` | a handler needs a session, a session needs a client that is attached or tearing down; and no `init` resets the buffer between the store and the count of a handler. With two clients both are false, see section 5. |
| `PendulumTier1Proofs!Tier1Invariant`, `WatchdogStops`, `WatchdogNotEarly` | `Spec => []Tier1Inv`, `[]StaleCommandStops`, `[]NewestCommandFollowed` | the counter is ahead of the loop's copy by the commands since the sample, modulo 2^32, so that inequality means "at least one". |
| `PendulumTier1Proofs!CdrInvariant`, `StatesPublished`, `CommandsDecoded` | `CdrSpec => [](StateInv /\ CommandInv)`, `[]PublishesJointState`, `[]CommandDecoded`, of clients without an `overrun` | for any names and any number of joints: `ALIGN_UP` is the padding that an encoder inserts (`Padding`), so what is laid is what is encoded (`LayNamesIsHeading`, `AddDoublesIs`); an encoded JointState is the template with its stamp and its three arrays filled (`JointStateIsFilled`), and patching one gives another, since stamps and arrays do not overlap (`SerializePatches`); a command whose size is the client's has its doubles where the client's would be (`CommandReadBack`). `PublishesJointState` is not inductive: it says nothing of the inactive slot, whose arrays the next `write_state` may leave alone and so publish; `StateInv` describes both slots. |
| `PendulumTier1Proofs!BuffersSuffice` | `CdrSpec => []StaysInBuffers` | a client that is initialized has a payload that its buffer holds, and by `StateInv` and `CommandInv` each slot is an encoded message of that size, whose items end within it (`FilledIsMessage`, `MessageFits`); between the templates and the check of the sizes there are only the templates, which fit (`BuffersInv`). |
| `PendulumTier2Proofs!Tier2Invariant`, `TravelLimited`, `Tier2Watchdog` | `Spec => []Tier2Inv`, `[]WithinTravel`, `[]StaleCommandStops` | the target is within the travel too, and a step towards it stays between the two. |
| `PendulumTier2Proofs!EncoderInvariant`, `LoopFetchesNewest`, `IntervalsNeverShort` | `Encoder!Spec => []EncoderInv`, `[]MailboxFresh`, `[]DtNeverShort` | the time kept for the last good reading is that of the counter then, as long as less than one wrap has passed (`ReadingTimed`); a difference of two times taken within one wrap is rounded up or down but never below the interval in whole microseconds, and if the counter wrapped in between it is larger (`IntervalNotShort`, from lemmas on quotients and remainders). |
| `PendulumTier2Proofs!SystemRunsLoop`, `SystemWithinTravel` | `PendulumSystem`'s `Spec` implies that of `PendulumTier2`, and so `[]WithinTravel` | the host and the link are one of the environments that `PendulumTier2` allows: a message from the link is one of its commands. `Tier2Watchdog` carries over in the same way. |
| `PendulumTier2Proofs!SystemInvariant`, `LoopComputesWithNumbers` | `[](SystemInv /\ Tier2Inv)`, `[]LoopGetsNumbers` | a component with a publisher holds a number, `write` runs only with a publisher, hence the link, the inbox and the loop have numbers; a crash loses the host's part only. |
| `NetworkInitProofs!NetworkInvariant`, `BoundedWaits`, `ResultCorrect`, `TimeoutsAreReal` | `Spec => []NetworkInv`, `[]WaitsBounded`, `[]SuccessMeansAddress`, `NoEarlyTimeout` | in a wait the modular difference equals the time waited, which never reaches the modulus (`DifferenceExact`). |
| `NetworkInitProofs!StartupInvariant`, `StartupIsSound` | `Startup!Spec => []StartupInv`, `MCSpec => []StartupSound` | for the five sequences of steps of `FirmwareStartup`: the timer shows what a wait has lasted until it has outlived every timeout (a wait without a timeout may wrap), since each wait starts a timer of its own; the steps still to do are the end of the sequence, and those before it succeeded, the clock and the host's lease excepted. |
| `MockPendulumProofs!ArmStaysWithinStops`, `ActivationIsClean` | `Spec => []ArmWithinStops`, `[]NoStaleCommand` | a sub-step starts within the stops and a position beyond one is set back to it; only `ReadCommand` latches, and until a controller commands it latches what the activation left in the interface: zero, unless `set_value` failed. |
| `MockPendulumProofs!ControllerInvariant`, `RampIsExact`, `ModesDoNotChatter` | `Controller!Spec => []ControllerInv`, `[]RampExact`, `NoChatter` | while it balances, the updates since the catch and what is left of the ramp add up to its length; the angle of the last change of mode is on the side of both thresholds on which the mode is, and the corrected `fall_angle` is beyond `catch_angle` unless that is 0, where nothing is caught. |
| `HostHardwareProofs!HostInvariant`, `CommandsAreNumbers`, `SamplesAreWhole`, `SamplesInOrder`, `CommandHeld` | `Spec => []HostInv`, `[]NoNaNOnWire`, `[]NoMixedSample`, `SamplesForward`, `HoldsLastCommand` | the box's mutex is held exactly during a copy, so the message does not change under it; no field is newer than the box and the box not newer than the message under way; `hw_commands_` holds numbers once a publisher exists and equals what was sent last. |
| `HostHardwareProofs!SchemaInvariant`, `MessagesArrive` | `Schema!Spec => []SchemaInv`, `[]FieldsArrive` | the type tables agree entry by entry; both layouts are packed, so the n-th field begins where the first n - 1 end, for both (`PackedGrows`, `NextPlace`); fields that do not overlap keep what is stored in them (`StoreHolds`), and what they hold is what is read (`LoadFinds`). |

The inductive invariants (`BufferInv`, `ClientInv`, `Tier1Inv`, `Tier2Inv`,
`EncoderInv`, `SystemInv`, `NetworkInv`, `ControllerInv`, `HostInv`, `SchemaInv`,
`StateInv`, `CommandInv`, `BuffersInv`, `StartupInv`) were
checked by TLC before they were proved; the runs keep the properties that they
imply.  `NoDivisionByZero`, `ThreadFlagsAgree`, `NothingLeftDeclared` and the ramp are
not inductive by themselves, and neither is `FieldsArrive`: it says something of two
finished layouts, its invariant of every prefix of both.

The layouts of `JointCdr` and the messages of its reference encoder are recursive
functions over the names and the doubles.  What they compute for every list is
proved by induction, though not with the library's induction theorems, whose
operator parameter the provers cannot instantiate: the indices at which a
statement holds form a set that contains 0 and the successor of each of its
elements, and such a set is `Nat` because `<` is well-founded on `Nat`
(`InductionSet`, from `WFMin`).

Only model-checked is what the prover cannot do under fairness, everything about
liveness: `TeardownEnds`, `CallsReturn`, `KeepsPublishing`,
`StopsWithoutHost`, `RestsWithoutPeer`, `Returns`, `LastSampleArrives`, `LoopFed`,
`StartupEnds`, `StandsWithoutController`.  Every safety invariant and every action
property that a passing run checks is also a theorem.

## 5. Findings

* `ZenbeddedClientBase::destroy` leaves its publisher and subscriber declared
  while another client uses the session (`client_destroyed`).  The firmwares of
  the repository have one client, for which `AloneNeverCalled` proves the opposite.
  A further consequence: a client that is initialized again while a callback of its
  former life is between the store and the count has reset both, so its count can
  be ahead of its buffer (`CountBehindBuffer` is proved for one client only).
* The Tier 2 watchdog does not see a controller that is gone: `write` repeats the
  last command, the messages keep coming, and the loop goes on integrating an
  acceleration that nobody commands until the hard stop ends the move
  (`system_stale_command`).  It takes no failure: the zero acceleration that a
  clean stop leaves is repeated too, keeps the velocity integrated last and feeds
  the watchdog.  After a stop whose `set_value(0.0)` failed the last acceleration
  is repeated and integrated.
* `ZenbeddedClient::init` lays its templates out before `init_base` compares their
  sizes with the arrays they are laid out in (`tier1_oversize`).  The names of the
  firmwares of the repository fit; for templates that fit, `BuffersSuffice` proves
  that nothing is ever written behind a buffer.

Not run, as it is plain from the code: `zenbedded_rcl/doc/userdoc.rst:20` calls the
buffers lock-free, and `read_latest` copies under a spinlock for which a writer
waits (`double_buffer.hpp:74`).

What the properties assume, because the code does not enforce it: a double buffer
has one writing thread (`prepare_write` reserves nothing, so that two writers
would fill one slot; in the repository each has one), and a `JointCommand` of the
client's size has the client's layout (its size is all that is compared, see
`CommandDecoded`).  `init` and `write_state` of a client are called by one thread,
and the state is published by the control thread or, without one, by the
application (`Client`'s `AppPublish`).  The simulated component ignores a
`set_value(0.0)` that fails at its activation (`mock_pendulum_hardware.cpp:248`):
`NoStaleCommand` says what remains true then.

## 6. Not modelled

* `zcdr_deserialize_joint_state` and `zcdr_serialize_joint_command`, the opposite
  directions, which tests call and the firmwares do not.
* Control laws, the filter of the encoder thread, and the torque balance of the
  mock hardware: arithmetic on doubles, out of TLC's reach.
* The loop of the sine wave demo, which decides nothing.
* USB descriptors, `HardwareComponent` (an empty placeholder), launch files and
  offline tools: no state that decides anything.
* The rmw attachment and its `sequence_number`, which two publishing threads of
  one client would race on; no firmware has two.
* What stays behind when `main` returns after `client.init` (a control thread that
  publishes zeros, an enabled motor): no document says what it should be.

## 7. Plan

Done: every component with state of its own, the two ends of the wire formats,
and the Tier 2 pendulum from end to end; and proofs of all safety properties.

What would extend the project: the state direction in `PendulumSystem`, and
`zcdr_deserialize_joint_state`, once a firmware reads states.
