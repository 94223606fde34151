-------------------------------- MODULE Client --------------------------------
(***************************************************************************)
(* ZenbeddedClientBase and ZenbeddedClient (zenbedded_rcl) on top of       *)
(* Transport.  Each client has an application thread, which makes every    *)
(* call of the public interface, and a control thread that publishes the   *)
(* state until control_thread_running_ is cleared.  The Zenoh read task,   *)
(* one for the image, runs on_transport_cmd_cb of the client that          *)
(* user_data names.                                                        *)
(*                                                                         *)
(* The two double buffers are atomic registers here, which DoubleBuffer    *)
(* shows they are.  The command register holds the ordinal, since the last *)
(* reset, of the command stored last.                                      *)
(***************************************************************************)
EXTENDS Transport, FiniteSets

CONSTANTS
  Clients,      \* also the application threads, for transport_mutex
  Frequencies,  \* what callers pass as control_freq
  MaxCommands   \* bound: commands accepted between two resets

ASSUME ClientsAssumption ==
  /\ IsFiniteSet(Clients) /\ NoOne \notin Clients
  /\ Frequencies \subseteq Nat /\ MaxCommands \in Nat

VARIABLES
  apc,           \* application thread: where it is in a call, "idle" outside
  after_stop,    \* what the call goes on with after stop_thread
  request,       \* the control_freq argument of the call
  initialized,   \* initialized_
  pub, sub,      \* pub_, sub_
  control_freq,  \* control_freq_
  running,       \* control_thread_running_
  started,       \* control_thread_started_
  tpc,           \* control thread: "none" before creation and after its end
  hpc,           \* read task in on_transport_cmd_cb: "idle", "call", "count"
  command,       \* the command register
  accepted       \* cmd_accepted_count_

lifeVars == <<after_stop, request, initialized, pub, sub, control_freq, running, started>>
commandVars == <<hpc, command, accepted>>
vars == <<transportVars, apc, lifeVars, tpc, commandVars>>

AppPoints == {"idle", "transport_init", "declare_pub", "declare_sub", "undo", "undo_teardown",
              "ready", "start", "join", "destroy_transport", "destroy_teardown", "clear", "put"}

TypeOK ==
  /\ TransportTypeOK(Clients, Clients)
  /\ apc \in [Clients -> AppPoints]
  /\ after_stop \in [Clients -> {"idle", "start", "destroy_transport"}]
  /\ request \in [Clients -> Frequencies \cup {0}]
  /\ initialized \in [Clients -> BOOLEAN]
  /\ pub \in [Clients -> PubSlots \cup {Null}]
  /\ sub \in [Clients -> SubSlots \cup {Null}]
  /\ control_freq \in [Clients -> Frequencies \cup {0}]
  /\ running \in [Clients -> BOOLEAN]
  /\ started \in [Clients -> BOOLEAN]
  /\ tpc \in [Clients -> {"none", "entry", "loop", "publish", "put", "sleep", "exit"}]
  /\ hpc \in {"idle", "call", "count"}
  /\ command \in [Clients -> 0..MaxCommands]
  /\ accepted \in [Clients -> Nat]

Init ==
  /\ TransportInit
  /\ apc = [c \in Clients |-> "idle"]
  /\ after_stop = [c \in Clients |-> "idle"]
  /\ request = [c \in Clients |-> 0]
  /\ initialized = [c \in Clients |-> FALSE]
  /\ pub = [c \in Clients |-> Null]
  /\ sub = [c \in Clients |-> Null]
  /\ control_freq = [c \in Clients |-> 0]
  /\ running = [c \in Clients |-> FALSE]
  /\ started = [c \in Clients |-> FALSE]
  /\ tpc = [c \in Clients |-> "none"]
  /\ hpc = "idle"
  /\ command = [c \in Clients |-> 0]
  /\ accepted = [c \in Clients |-> 0]

Goto(c, point) == apc' = [apc EXCEPT ![c] = point]

-------------------------------------------------------------------------------
(* init() and init_base().  An initialized client returns 0 at once.        *)

\* reset_buffers; a payload larger than its buffer ends the call (-ENOMEM).
InitReset(c) ==
  /\ apc[c] = "idle" /\ ~initialized[c]
  /\ command' = [command EXCEPT ![c] = 0]
  /\ accepted' = [accepted EXCEPT ![c] = 0]
  /\ \/ Goto(c, "idle") /\ UNCHANGED request
     \/ /\ Goto(c, "transport_init")
        /\ \E f \in Frequencies : request' = [request EXCEPT ![c] = f]
  /\ UNCHANGED <<transportVars, after_stop, initialized, pub, sub, control_freq, running,
                 started, tpc, hpc>>

InitTransport(c) ==
  /\ apc[c] = "transport_init"
  /\ \/ transport_init(c, TRUE) /\ Goto(c, "declare_pub")
     \/ transport_init(c, FALSE) /\ Goto(c, "idle")
  /\ UNCHANGED <<lifeVars, tpc, commandVars>>

\* Faulty variant: the handle goes to a local variable that hides pub_.
InitDeclarePubShadowed(c) ==
  /\ apc[c] = "declare_pub"
  /\ \E h \in PubSlots \cup {Null} :
       /\ declare_publisher(c, h)
       /\ Goto(c, IF h = Null THEN "undo" ELSE "declare_sub")
  /\ UNCHANGED <<lifeVars, tpc, commandVars>>

InitDeclarePub(c) ==
  /\ apc[c] = "declare_pub"
  /\ \E h \in PubSlots \cup {Null} :
       /\ declare_publisher(c, h)
       /\ pub' = [pub EXCEPT ![c] = h]
       /\ Goto(c, IF h = Null THEN "undo" ELSE "declare_sub")
  /\ UNCHANGED <<after_stop, request, initialized, sub, control_freq, running, started, tpc,
                 commandVars>>

\* From here on commands arrive, although initialized_ is still false.
InitDeclareSub(c) ==
  /\ apc[c] = "declare_sub"
  /\ \E h \in SubSlots \cup {Null} :
       /\ declare_subscriber(c, c, h)
       /\ sub' = [sub EXCEPT ![c] = h]
       /\ Goto(c, IF h = Null THEN "undo" ELSE "ready")
  /\ UNCHANGED <<after_stop, request, initialized, pub, control_freq, running, started, tpc,
                 commandVars>>

\* Faulty variant: an error path that forgets zenbedded_transport_destroy.
InitUndoSkipped(c) ==
  /\ apc[c] = "undo"
  /\ Goto(c, "idle")
  /\ UNCHANGED <<transportVars, lifeVars, tpc, commandVars>>

\* A declaration failed: zenbedded_transport_destroy, then -EIO.
InitUndo(c) ==
  /\ apc[c] = "undo"
  /\ \/ destroy_release(c) /\ Goto(c, "idle")
     \/ destroy_last(c) /\ Goto(c, "undo_teardown")
  /\ UNCHANGED <<lifeVars, tpc, commandVars>>

\* start_thread(0) returns -EINVAL: the client is initialized all the same.
InitReady(c) ==
  /\ apc[c] = "ready"
  /\ initialized' = [initialized EXCEPT ![c] = TRUE]
  /\ control_freq' = [control_freq EXCEPT ![c] = request[c]]
  /\ Goto(c, IF request[c] = 0 THEN "idle" ELSE "start")
  /\ UNCHANGED <<transportVars, after_stop, request, pub, sub, running, started, tpc, commandVars>>

-------------------------------------------------------------------------------
(* start_thread, stop_thread and destroy. *)

BeginStop(c, next) ==
  /\ running' = [running EXCEPT ![c] = FALSE]
  /\ after_stop' = [after_stop EXCEPT ![c] = next]
  /\ Goto(c, "join")

StartThread(c) ==
  /\ apc[c] = "idle" /\ initialized[c]
  /\ \E f \in Frequencies \ {0} : request' = [request EXCEPT ![c] = f]
  /\ IF started[c] THEN BeginStop(c, "start")
                   ELSE Goto(c, "start") /\ UNCHANGED <<running, after_stop>>
  /\ UNCHANGED <<transportVars, initialized, pub, sub, control_freq, started, tpc, commandVars>>

\* k_thread_create: the new thread may run at once.
SpawnThread(c) ==
  /\ apc[c] = "start"
  /\ control_freq' = [control_freq EXCEPT ![c] = request[c]]
  /\ running' = [running EXCEPT ![c] = TRUE]
  /\ started' = [started EXCEPT ![c] = TRUE]
  /\ tpc' = [tpc EXCEPT ![c] = "entry"]
  /\ Goto(c, "idle")
  /\ UNCHANGED <<transportVars, after_stop, request, initialized, pub, sub, commandVars>>

\* Faulty variant: control_freq_ is cleared before the thread is joined.
StopThreadClearsFirst(c) ==
  /\ apc[c] = "idle" /\ started[c]
  /\ BeginStop(c, "idle")
  /\ control_freq' = [control_freq EXCEPT ![c] = 0]
  /\ UNCHANGED <<transportVars, request, initialized, pub, sub, started, tpc, commandVars>>

StopThread(c) ==
  /\ apc[c] = "idle" /\ started[c]
  /\ BeginStop(c, "idle")
  /\ UNCHANGED <<transportVars, request, initialized, pub, sub, control_freq, started, tpc,
                 commandVars>>

AfterJoin(c) ==
  /\ started' = [started EXCEPT ![c] = FALSE]
  /\ control_freq' = [control_freq EXCEPT ![c] = 0]
  /\ Goto(c, after_stop[c])
  /\ UNCHANGED <<transportVars, after_stop, request, initialized, pub, sub, running, commandVars>>

\* Faulty variant: the 200 ms pass and the thread is left alone.
JoinThreadNoAbort(c) == apc[c] = "join" /\ AfterJoin(c) /\ UNCHANGED tpc

\* Faulty variant: join with K_FOREVER, and the thread may never end.
JoinThreadForever(c) == apc[c] = "join" /\ tpc[c] = "none" /\ AfterJoin(c) /\ UNCHANGED tpc

\* k_thread_join within 200 ms, or k_thread_abort wherever the thread is.
JoinThread(c) ==
  /\ apc[c] = "join"
  /\ tpc' = [tpc EXCEPT ![c] = "none"]
  /\ AfterJoin(c)

DestroyCall(c) ==
  /\ apc[c] = "idle" /\ initialized[c]
  /\ IF started[c] THEN BeginStop(c, "destroy_transport")
                   ELSE Goto(c, "destroy_transport") /\ UNCHANGED <<running, after_stop>>
  /\ UNCHANGED <<transportVars, request, initialized, pub, sub, control_freq, started, tpc,
                 commandVars>>

DestroyTransport(c) ==
  /\ apc[c] = "destroy_transport"
  /\ \/ destroy_release(c) /\ Goto(c, "clear")
     \/ destroy_last(c) /\ Goto(c, "destroy_teardown")
  /\ UNCHANGED <<lifeVars, tpc, commandVars>>

\* The loops of zenbedded_transport_destroy, from destroy() or from init().
Teardown(c) ==
  /\ \/ apc[c] \in {"undo_teardown", "destroy_teardown"} /\ destroy_undeclare(c) /\ UNCHANGED apc
     \/ apc[c] = "undo_teardown" /\ destroy_close(c) /\ Goto(c, "idle")
     \/ apc[c] = "destroy_teardown" /\ destroy_close(c) /\ Goto(c, "clear")
  /\ UNCHANGED <<lifeVars, tpc, commandVars>>

DestroyClear(c) ==
  /\ apc[c] = "clear"
  /\ pub' = [pub EXCEPT ![c] = Null]
  /\ sub' = [sub EXCEPT ![c] = Null]
  /\ initialized' = [initialized EXCEPT ![c] = FALSE]
  /\ Goto(c, "idle")
  /\ UNCHANGED <<transportVars, after_stop, request, control_freq, running, started, tpc,
                 commandVars>>

-------------------------------------------------------------------------------
(* zenoh_publish_state, by the control thread or, when there is none, by    *)
(* the application.                                                         *)
AppPublish(c) ==
  /\ \/ /\ apc[c] = "idle" /\ initialized[c] /\ ~started[c]
        /\ PublishAccepts(pub[c])
        /\ Goto(c, "put")
     \/ apc[c] = "put" /\ Goto(c, "idle")
  /\ UNCHANGED <<transportVars, lifeVars, tpc, commandVars>>

ThreadGoto(c, from, to) ==
  /\ tpc[c] = from
  /\ tpc' = [tpc EXCEPT ![c] = to]
  /\ UNCHANGED <<transportVars, apc, after_stop, request, initialized, pub, sub, control_freq,
                 started, commandVars>>

\* period_ms = MAX(1000 / control_freq_, 1)
ThreadEntry(c) == ThreadGoto(c, "entry", "loop") /\ UNCHANGED running
ThreadLoop(c) == ThreadGoto(c, "loop", IF running[c] THEN "publish" ELSE "exit") /\ UNCHANGED running

\* The initialized_ and in_use checks of zenoh_publish_state and publish.
ThreadPublish(c) ==
  /\ ThreadGoto(c, "publish",
       IF initialized[c] /\ PublishAccepts(pub[c]) THEN "put" ELSE "sleep")
  /\ UNCHANGED running

\* Faulty variant: the loop ends after a failed publish.
ThreadSleepGivesUp(c) == ThreadGoto(c, "sleep", "exit") /\ UNCHANGED running

\* z_publisher_put returns, or fails.
ThreadPut(c) == ThreadGoto(c, "put", "sleep") /\ UNCHANGED running
ThreadSleep(c) == ThreadGoto(c, "sleep", "loop") /\ UNCHANGED running

ThreadExit(c) == ThreadGoto(c, "exit", "none") /\ running' = [running EXCEPT ![c] = FALSE]

-------------------------------------------------------------------------------
(* internal_sub_handler and on_transport_cmd_cb in the Zenoh read task.     *)
Receive ==
  /\ \E i \in SubSlots : rx_dispatch(i)
  /\ hpc' = "call"
  /\ UNCHANGED <<apc, lifeVars, tpc, command, accepted>>

\* An empty or oversized sample, or one that is not cmd_payload_size_ long.
ReceiveDrop ==
  /\ hpc = "call"
  /\ rx_done
  /\ hpc' = "idle"
  /\ UNCHANGED <<apc, lifeVars, tpc, command, accepted>>

Receiver == sub_pool[rx_slot].user_data

Store(c) ==
  /\ command[c] < MaxCommands
  /\ command' = [command EXCEPT ![c] = @ + 1]

Count(c) == accepted' = [accepted EXCEPT ![c] = @ + 1]

\* Faulty variant: the increment comes first, the write second.
ReceiveCountFirst ==
  /\ hpc = "call"
  /\ command[Receiver] < MaxCommands
  /\ Count(Receiver)
  /\ hpc' = "count"
  /\ UNCHANGED <<transportVars, apc, lifeVars, tpc, command>>

\* write_command_to_buffer: cmd_buffer_.write, then atomic_inc.
ReceiveStore ==
  /\ hpc = "call"
  /\ Store(Receiver)
  /\ hpc' = "count"
  /\ UNCHANGED <<transportVars, apc, lifeVars, tpc, accepted>>

ReceiveCount ==
  /\ hpc = "count"
  /\ Count(Receiver)
  /\ rx_done
  /\ hpc' = "idle"
  /\ UNCHANGED <<apc, lifeVars, tpc, command>>

AppNext(c) ==
  \/ InitReset(c) \/ InitTransport(c) \/ InitDeclarePub(c) \/ InitDeclareSub(c)
  \/ InitUndo(c) \/ InitReady(c) \/ StartThread(c) \/ SpawnThread(c)
  \/ StopThread(c) \/ JoinThread(c) \/ DestroyCall(c) \/ DestroyTransport(c)
  \/ Teardown(c) \/ DestroyClear(c) \/ AppPublish(c)

ThreadNext(c) ==
  \/ ThreadEntry(c) \/ ThreadLoop(c) \/ ThreadPublish(c)
  \/ ThreadPut(c) \/ ThreadSleep(c) \/ ThreadExit(c)

ReadTaskNext == Receive \/ ReceiveDrop \/ ReceiveStore \/ ReceiveCount

Next == (\E c \in Clients : AppNext(c) \/ ThreadNext(c)) \/ ReadTaskNext

(* A call that has begun goes on: its steps do not wait for the peer, and   *)
(* join has a timeout.  The control thread is scheduled, but nothing is     *)
(* promised about z_publisher_put, which may block on the link.  The read   *)
(* task ends a handler it runs.                                             *)
CallStep(c) == apc[c] \notin {"idle", "put"} /\ AppNext(c)
ThreadStep(c) == tpc[c] # "put" /\ ThreadNext(c)
HandlerStep == ReceiveDrop \/ ReceiveStore \/ ReceiveCount
Fairness ==
  /\ \A c \in Clients : WF_vars(CallStep(c)) /\ WF_vars(ThreadStep(c))
  /\ WF_vars(HandlerStep)

Spec == Init /\ [][Next]_vars
FairSpec == Spec /\ Fairness

-------------------------------------------------------------------------------
(* The control thread never divides by a zero control_freq_, although       *)
(* stop_thread clears it: the thread may be so late that it first runs when *)
(* stop_thread has been called already.                                     *)
NoDivisionByZero == \A c \in Clients : tpc[c] = "entry" => control_freq[c] # 0

(* Between calls control_thread_running_, control_thread_started_ and the   *)
(* thread itself agree: the last store of a thread that is stopped never    *)
(* hits the flag of the thread that a restart has created.                  *)
ThreadFlagsAgree ==
  \A c \in Clients : apc[c] = "idle" =>
    /\ running[c] <=> started[c]
    /\ started[c] <=> tpc[c] # "none"
    /\ started[c] => initialized[c]

(* Neither thread is ever inside z_publisher_put with a publisher that the  *)
(* transport has undeclared.                                                *)
PutOnLivePublisher ==
  \A c \in Clients : "put" \in {tpc[c], apc[c]} => pub[c] # Null /\ pub_pool[pub[c]].live

(* The counter never runs ahead of the buffer: who sees a new value of      *)
(* accepted_command_count and then calls read_command gets the command that *)
(* was counted, or a later one.  The watchdogs of the demos rest on it.     *)
CountBehindBuffer == \A c \in Clients : accepted[c] <= command[c]

(* on_transport_cmd_cb never runs for a client that is not initialized and  *)
(* not inside init() or destroy(): its object may be gone.                  *)
NoCallbackIntoIdleClient ==
  hpc # "idle" => initialized[Receiver] \/ apc[Receiver] # "idle"

(* When no client is initialized or in a call any more, nothing is left     *)
(* behind: no init() that failed half way and no destroy() keeps a slot of  *)
(* the pools, the session or a callback of the read task.                   *)
NothingLeftDeclared ==
  (\A c \in Clients : apc[c] = "idle" /\ ~initialized[c]) =>
    PubsInUse = {} /\ SubsInUse = {} /\ session = "closed" /\ hpc = "idle"

(* The clients keep the contract of zenoh_transport.h: whatever they do,    *)
(* failed declarations and aborted threads included, the transport sees     *)
(* users that take a reference, declare at most one publisher and one       *)
(* subscriber, and balance their init with one destroy.                     *)
DestroyingPoints == {"undo_teardown", "destroy_teardown"}
AttachedPoints == {"declare_pub", "declare_sub", "undo", "ready"}
IsAttached(c) ==
  /\ apc[c] \notin DestroyingPoints
  /\ apc[c] \in AttachedPoints \/ (initialized[c] /\ apc[c] # "clear")
UserState ==
  [c \in Clients |-> IF apc[c] \in DestroyingPoints THEN "destroying"
                     ELSE IF IsAttached(c) THEN "attached" ELSE "detached"]
UserPub == [c \in Clients |-> IF IsAttached(c) /\ apc[c] # "declare_pub" THEN pub[c] ELSE Null]
UserSub == [c \in Clients |-> IF IsAttached(c) THEN sub[c] ELSE Null]
UserPutting == [c \in Clients |-> "put" \in {tpc[c], apc[c]}]
Contract == INSTANCE TransportUsers WITH
  Users <- Clients, state <- UserState, hpub <- UserPub, hsub <- UserSub, putting <- UserPutting
KeepsContract == Contract!Spec

(* Every init, start_thread, stop_thread and destroy returns: no join,      *)
(* teardown or mutex holds it up for ever, not even a put that blocks.      *)
CallsReturn == \A c \in Clients : apc[c] \notin {"idle", "put"} ~> apc[c] = "idle"

(* A control thread reaches its next put, unless it is stopped before.      *)
KeepsPublishing == \A c \in Clients : tpc[c] # "none" ~> tpc[c] \in {"put", "none"}

(* The inductive invariant: where in its calls a client is initialized and  *)
(* has a subscriber, where a control thread may be while it is started, and *)
(* that the read task runs the callback of a client, in a handler.          *)
LifeAgrees(c) ==
  /\ apc[c] \in {"transport_init", "undo_teardown"} \cup AttachedPoints => ~initialized[c]
  /\ initialized[c] \/ apc[c] \in {"idle", "transport_init", "undo_teardown"} \cup AttachedPoints
  /\ sub[c] # Null => initialized[c] \/ apc[c] = "ready"
  /\ apc[c] = "start" \/ (apc[c] = "join" /\ after_stop[c] = "start") => request[c] # 0
ThreadAgrees(c) ==
  /\ tpc[c] # "none" => started[c]
  /\ started[c] => initialized[c] /\ control_freq[c] # 0 /\ apc[c] \in {"idle", "join"}
  /\ apc[c] = "join" => started[c] /\ ~running[c]
  /\ apc[c] # "join" => (running[c] <=> started[c]) /\ (started[c] => tpc[c] \notin {"none", "exit"})
ClientInv ==
  /\ TypeOK
  /\ \A c \in Clients : LifeAgrees(c) /\ ThreadAgrees(c)
  /\ hpc # "idle" <=> rx_slot # Null
  /\ \A i \in SubSlots : sub_pool[i].live \/ rx_slot = i => sub_pool[i].user_data \in Clients
===============================================================================
