------------------------------ MODULE ClientProofs ------------------------------
(***************************************************************************)
(* Proofs about Client, for any finite set of clients, any pools and any   *)
(* frequencies.  The clients implement the contract of the transport, so   *)
(* that what TransportProofs shows of any users holds of them, and with it *)
(* the flags of the control threads, the publishers they put on and, for a *)
(* client that has the transport for itself, its callback and its counter. *)
(***************************************************************************)
EXTENDS Client, TLAPS

\* The proofs about users of the transport, with the clients for users.
Users == INSTANCE TransportProofs WITH
  Users <- Clients, state <- UserState, hpub <- UserPub, hsub <- UserSub, putting <- UserPutting

(* Client has the assumptions that TransportUsers makes.                   *)
LEMMA UsersAssumed == Users!PoolsAssumption /\ Users!UsersAssumption
BY PoolsAssumption, ClientsAssumption
   DEF Users!PoolsAssumption, Users!UsersAssumption, IsFiniteSet, Users!IsFiniteSet

(* The calls of the transport are the same on both sides of the mapping.   *)
LEMMA SameCalls ==
  ASSUME NEW c, NEW h, NEW ok
  PROVE  /\ transport_init(c, ok) => Users!transport_init(c, ok)
         /\ declare_publisher(c, h) => Users!declare_publisher(c, h)
         /\ declare_subscriber(c, c, h) => Users!declare_subscriber(c, c, h)
         /\ destroy_release(c) => Users!destroy_release(c)
         /\ destroy_last(c) => Users!destroy_last(c)
         /\ destroy_undeclare(c) => Users!destroy_undeclare(c)
         /\ destroy_close(c) => Users!destroy_close(c)
<1> USE DEF CanLock, Users!CanLock, rxVars, Users!rxVars, sessionVars, Users!sessionVars,
            IsLowest, Users!IsLowest, PubsInUse, Users!PubsInUse, SubsInUse, Users!SubsInUse,
            PubSlots, Users!PubSlots, SubSlots, Users!SubSlots, Null, Users!Null
<1>1. transport_init(c, ok) => Users!transport_init(c, ok)
  BY DEF transport_init, Users!transport_init
<1>2. declare_publisher(c, h) => Users!declare_publisher(c, h)
  BY DEF declare_publisher, Users!declare_publisher
<1>3. declare_subscriber(c, c, h) => Users!declare_subscriber(c, c, h)
  BY DEF declare_subscriber, Users!declare_subscriber
<1>4. destroy_release(c) => Users!destroy_release(c)
  BY DEF destroy_release, Users!destroy_release
<1>5. destroy_last(c) => Users!destroy_last(c)
  BY DEF destroy_last, Users!destroy_last, EnterTeardown, Users!EnterTeardown
<1>6. destroy_undeclare(c) => Users!destroy_undeclare(c)
  BY DEF destroy_undeclare, Users!destroy_undeclare, undeclare_publisher,
     Users!undeclare_publisher, undeclare_subscriber, Users!undeclare_subscriber,
     FreePub, Users!FreePub, FreeSub, Users!FreeSub
<1>7. destroy_close(c) => Users!destroy_close(c)
  BY DEF destroy_close, Users!destroy_close, Close, Users!Close
<1> QED
  BY <1>1, <1>2, <1>3, <1>4, <1>5, <1>6, <1>7

(* Who is in a put, as a Boolean.                                           *)
LEMMA PuttingOf ==
  ASSUME NEW c \in Clients
  PROVE  /\ UserPutting[c] = TRUE <=> tpc[c] = "put" \/ apc[c] = "put"
         /\ UserPutting[c] = FALSE <=> tpc[c] # "put" /\ apc[c] # "put"
         /\ UserPutting'[c] = TRUE <=> tpc'[c] = "put" \/ apc'[c] = "put"
         /\ UserPutting'[c] = FALSE <=> tpc'[c] # "put" /\ apc'[c] # "put"
<1>1. UserPutting[c] = ("put" \in {tpc[c], apc[c]})
  BY DEF UserPutting
<1>2. UserPutting'[c] = ("put" \in {tpc'[c], apc'[c]})
  BY DEF UserPutting
<1>3. ASSUME NEW x, NEW y, NEW b, b = ("put" \in {x, y})
      PROVE  /\ b = TRUE <=> x = "put" \/ y = "put"
             /\ b = FALSE <=> x # "put" /\ y # "put"
  <2>1. CASE x = "put" \/ y = "put"
    <3>1. b = TRUE
      BY <1>3, <2>1, Zenon
    <3> QED
      BY <2>1, <3>1
  <2>2. CASE ~(x = "put" \/ y = "put")
    <3>1. b \in BOOLEAN
      BY <1>3
    <3>2. ~b
      BY <1>3, <2>2
    <3> QED
      BY <2>2, <3>1, <3>2
  <2> QED
    BY <2>1, <2>2
<1> QED
  BY <1>1, <1>2, <1>3

(* A step of one client leaves what the transport sees of the others.      *)
LEMMA OthersMapped ==
  ASSUME NEW d \in Clients,
         \A c \in Clients \ {d} :
           /\ apc'[c] = apc[c] /\ tpc'[c] = tpc[c] /\ initialized'[c] = initialized[c]
           /\ pub'[c] = pub[c] /\ sub'[c] = sub[c]
  PROVE  /\ UserState' = [UserState EXCEPT ![d] = UserState'[d]]
         /\ UserPub' = [UserPub EXCEPT ![d] = UserPub'[d]]
         /\ UserSub' = [UserSub EXCEPT ![d] = UserSub'[d]]
         /\ UserPutting' = [UserPutting EXCEPT ![d] = UserPutting'[d]]
         /\ UserState'[d] = UserState[d] => UserState' = UserState
         /\ UserPub'[d] = UserPub[d] => UserPub' = UserPub
         /\ UserSub'[d] = UserSub[d] => UserSub' = UserSub
         /\ UserPutting'[d] = UserPutting[d] => UserPutting' = UserPutting
<1>1. /\ UserState' = [UserState EXCEPT ![d] = UserState'[d]]
      /\ UserState'[d] = UserState[d] => UserState' = UserState
  BY DEF UserState, IsAttached
<1>2. /\ UserPub' = [UserPub EXCEPT ![d] = UserPub'[d]]
      /\ UserPub'[d] = UserPub[d] => UserPub' = UserPub
  BY DEF UserPub, IsAttached
<1>3. /\ UserSub' = [UserSub EXCEPT ![d] = UserSub'[d]]
      /\ UserSub'[d] = UserSub[d] => UserSub' = UserSub
  BY DEF UserSub, IsAttached
<1>4. /\ UserPutting' = [UserPutting EXCEPT ![d] = UserPutting'[d]]
      /\ UserPutting'[d] = UserPutting[d] => UserPutting' = UserPutting
  BY DEF UserPutting
<1> QED
  BY <1>1, <1>2, <1>3, <1>4

-------------------------------------------------------------------------------
\* What a step needs to know of a client, and what the transport sees of it.
Known(c) ==
  /\ LifeAgrees(c) /\ ThreadAgrees(c)
  /\ apc \in [Clients -> AppPoints]
  /\ initialized \in [Clients -> BOOLEAN]
  /\ pub \in [Clients -> PubSlots \cup {Null}]
  /\ sub \in [Clients -> SubSlots \cup {Null}]
  /\ tpc \in [Clients -> {"none", "entry", "loop", "publish", "put", "sleep", "exit"}]

(* init(): a reference, at most one publisher and one subscriber, and the  *)
(* reference given back when a declaration fails.                          *)
LEMMA InitKeepsContract ==
  ASSUME NEW c \in Clients, Known(c),
         \/ InitReset(c) \/ InitTransport(c) \/ InitDeclarePub(c) \/ InitDeclareSub(c)
         \/ InitUndo(c) \/ InitReady(c)
  PROVE  [Users!Next]_(Users!vars)
<1> USE DEF Known, lifeVars, Goto
<1>0. /\ \A d \in Clients \ {c} :
           /\ apc'[d] = apc[d] /\ tpc'[d] = tpc[d] /\ initialized'[d] = initialized[d]
           /\ pub'[d] = pub[d] /\ sub'[d] = sub[d]
      /\ tpc' = tpc
  BY DEF InitReset, InitTransport, InitDeclarePub, InitDeclareSub, InitUndo, InitReady
<1>1. CASE InitReset(c) \/ InitReady(c)
  <2>1. UNCHANGED transportVars
    BY <1>1 DEF InitReset, InitReady
  <2>2. /\ UserState'[c] = UserState[c] /\ UserPub'[c] = UserPub[c]
        /\ UserSub'[c] = UserSub[c] /\ UserPutting'[c] = UserPutting[c]
    BY <1>1 DEF InitReset, InitReady, UserState, UserPub, UserSub, UserPutting, IsAttached,
       DestroyingPoints, AttachedPoints, LifeAgrees, ThreadAgrees
  <2> QED
    BY <1>0, <2>1, <2>2, OthersMapped
       DEF Users!vars, Users!userVars, Users!transportVars, transportVars
<1>2. CASE InitTransport(c)
  <2>1. /\ UserState[c] = "detached" /\ UserPub'[c] = UserPub[c]
        /\ UserSub'[c] = UserSub[c] /\ UserPutting'[c] = UserPutting[c]
        /\ apc'[c] = "declare_pub" => UserState'[c] = "attached"
        /\ apc'[c] = "idle" => UserState'[c] = "detached"
    <3>1. /\ apc[c] = "transport_init" /\ ~initialized[c] /\ sub[c] = Null
          /\ apc' \in {[apc EXCEPT ![c] = "declare_pub"], [apc EXCEPT ![c] = "idle"]}
          /\ UNCHANGED <<initialized, sub, pub, tpc>>
      BY <1>2 DEF InitTransport, LifeAgrees, AttachedPoints
    <3>2. apc'[c] \in {"declare_pub", "idle"}
      BY <3>1
    <3> HIDE DEF Known
    <3>3. ~IsAttached(c) /\ (apc'[c] = "declare_pub" => IsAttached(c)')
                         /\ (apc'[c] = "idle" => ~IsAttached(c)')
      BY <3>1, <3>2 DEF IsAttached, DestroyingPoints, AttachedPoints
    <3> QED
      BY <3>1, <3>2, <3>3 DEF UserState, UserPub, UserSub, UserPutting, DestroyingPoints
  <2>2. UserState' = [UserState EXCEPT ![c] = UserState'[c]]
        /\ UNCHANGED <<UserPub, UserSub, UserPutting>>
        /\ (UserState'[c] = UserState[c] => UserState' = UserState)
    BY <1>0, <2>1, OthersMapped
  <2>3. CASE transport_init(c, TRUE) /\ apc'[c] = "declare_pub"
    <3>1. Users!transport_init(c, TRUE)
      BY <2>3, SameCalls
    <3> QED
      BY <2>1, <2>2, <2>3, <3>1 DEF Users!Next, Users!UserNext, Users!InitCall, Users!Become
  <2>4. CASE transport_init(c, FALSE) /\ apc'[c] = "idle"
    <3>1. Users!transport_init(c, FALSE)
      BY <2>4, SameCalls
    <3> QED
      BY <2>1, <2>2, <2>4, <3>1 DEF Users!Next, Users!UserNext, Users!InitCall, Users!Become
  <2> QED
    BY <1>2, <2>3, <2>4 DEF InitTransport
<1>3. CASE InitDeclarePub(c)
  <2>1. PICK h \in PubSlots \cup {Null} :
          /\ declare_publisher(c, h)
          /\ pub' = [pub EXCEPT ![c] = h]
          /\ apc' = [apc EXCEPT ![c] = IF h = Null THEN "undo" ELSE "declare_sub"]
    BY <1>3 DEF InitDeclarePub
  <2>2. /\ UserState[c] = "attached" /\ UserState'[c] = "attached"
        /\ UserPub[c] = Null /\ UserPub'[c] = h
        /\ UserSub'[c] = UserSub[c] /\ UserPutting'[c] = UserPutting[c]
    BY <1>3, <2>1 DEF InitDeclarePub, UserState, UserPub, UserSub, UserPutting, IsAttached,
       DestroyingPoints, AttachedPoints
  <2>3. /\ UserPub' = [UserPub EXCEPT ![c] = h]
        /\ UNCHANGED <<UserState, UserSub, UserPutting>>
    BY <1>0, <2>2, OthersMapped
  <2>4. Users!declare_publisher(c, h)
    BY <2>1, SameCalls
  <2>5. Users!DeclarePublisher(c)
    BY <2>2, <2>3, <2>4 DEF Users!DeclarePublisher, PubSlots, Users!PubSlots, Null, Users!Null
  <2> QED
    BY <2>5 DEF Users!Next, Users!UserNext
<1>4. CASE InitDeclareSub(c)
  <2>1. PICK h \in SubSlots \cup {Null} :
          /\ declare_subscriber(c, c, h)
          /\ sub' = [sub EXCEPT ![c] = h]
          /\ apc' = [apc EXCEPT ![c] = IF h = Null THEN "undo" ELSE "ready"]
    BY <1>4 DEF InitDeclareSub
  <2>2. /\ UserState[c] = "attached" /\ UserState'[c] = "attached"
        /\ UserSub[c] = Null /\ UserSub'[c] = h
        /\ UserPub'[c] = UserPub[c] /\ UserPutting'[c] = UserPutting[c]
    BY <1>4, <2>1 DEF InitDeclareSub, UserState, UserPub, UserSub, UserPutting, IsAttached,
       DestroyingPoints, AttachedPoints, LifeAgrees
  <2>3. /\ UserSub' = [UserSub EXCEPT ![c] = h]
        /\ UNCHANGED <<UserState, UserPub, UserPutting>>
    BY <1>0, <2>2, OthersMapped
  <2>4. Users!declare_subscriber(c, c, h)
    BY <2>1, SameCalls
  <2>5. Users!DeclareSubscriber(c)
    BY <2>2, <2>3, <2>4 DEF Users!DeclareSubscriber, SubSlots, Users!SubSlots, Null, Users!Null
  <2> QED
    BY <2>5 DEF Users!Next, Users!UserNext
<1>5. CASE InitUndo(c)
  <2>1. /\ UserState[c] = "attached" /\ ~UserPutting[c]
        /\ UserPub'[c] = Null /\ UserSub'[c] = Null /\ UserPutting'[c] = UserPutting[c]
        /\ apc'[c] = "idle" => UserState'[c] = "detached"
        /\ apc'[c] = "undo_teardown" => UserState'[c] = "destroying"
    BY <1>5 DEF InitUndo, UserState, UserPub, UserSub, UserPutting, IsAttached,
       DestroyingPoints, AttachedPoints, LifeAgrees, ThreadAgrees
  <2>2. Users!DestroyCall(c)
    BY <1>0, <1>5, <2>1, OthersMapped, SameCalls
       DEF InitUndo, Users!DestroyCall, Users!Become, Users!ForgetHandles, Null, Users!Null
  <2> QED
    BY <2>2 DEF Users!Next, Users!UserNext
<1> QED
  BY <1>1, <1>2, <1>3, <1>4, <1>5

(* start_thread, stop_thread and destroy() up to the transport: nothing the *)
(* transport sees, but a put that dies with its thread.                     *)
LEMMA ThreadCallsKeepContract ==
  ASSUME NEW c \in Clients, Known(c), after_stop[c] \in {"idle", "start", "destroy_transport"},
         \/ StartThread(c) \/ SpawnThread(c) \/ StopThread(c) \/ JoinThread(c)
         \/ DestroyCall(c) \/ DestroyClear(c)
  PROVE  [Users!Next]_(Users!vars)
<1> USE DEF Known, Goto
<1>0. /\ UNCHANGED transportVars
      /\ \A d \in Clients \ {c} :
           /\ apc'[d] = apc[d] /\ tpc'[d] = tpc[d] /\ initialized'[d] = initialized[d]
           /\ pub'[d] = pub[d] /\ sub'[d] = sub[d]
  BY DEF StartThread, SpawnThread, StopThread, JoinThread, DestroyCall, DestroyClear, BeginStop,
     AfterJoin
<1>1. /\ apc[c] \in {"idle", "start", "join", "clear"}
      /\ apc'[c] \in {"idle", "start", "join", "destroy_transport"}
      /\ apc[c] # "clear" => initialized[c] /\ initialized'[c]
      /\ apc[c] = "clear" => ~initialized'[c] /\ apc'[c] = "idle"
      /\ apc[c] # "clear" => pub'[c] = pub[c] /\ sub'[c] = sub[c]
  BY DEF StartThread, SpawnThread, StopThread, JoinThread, DestroyCall, DestroyClear, BeginStop,
     AfterJoin, LifeAgrees, ThreadAgrees, AttachedPoints
<1>2. /\ UserState'[c] = UserState[c] /\ UserPub'[c] = UserPub[c] /\ UserSub'[c] = UserSub[c]
  <2> HIDE DEF Known
  <2> QED
    BY <1>1 DEF UserState, UserPub, UserSub, IsAttached, DestroyingPoints, AttachedPoints
<1>3. UserPutting'[c] = UserPutting[c] \/ (UserPutting[c] /\ ~UserPutting'[c])
  <2>1. tpc'[c] = tpc[c] \/ tpc'[c] \in {"none", "entry"}
    BY DEF StartThread, SpawnThread, StopThread, JoinThread, DestroyCall, DestroyClear
  <2>2. UserPutting[c] = (tpc[c] = "put") /\ UserPutting'[c] = (tpc'[c] = "put")
    <3> HIDE DEF Known
    <3> QED
      BY <1>1 DEF UserPutting
  <2> QED
    BY <2>1, <2>2
<1>4. CASE UserPutting'[c] = UserPutting[c]
  BY <1>0, <1>2, <1>4, OthersMapped DEF Users!vars, Users!userVars, Users!transportVars, transportVars
<1>5. CASE UserPutting[c] /\ ~UserPutting'[c]
  <2>1. UserPutting' = [UserPutting EXCEPT ![c] = FALSE]
    <3>1. UserPutting' = [UserPutting EXCEPT ![c] = UserPutting'[c]]
      BY <1>0, OthersMapped
    <3>2. UserPutting'[c] = FALSE
      BY <1>5 DEF UserPutting
    <3> QED
      BY <3>1, <3>2
  <2>2. Users!PublishPut(c)
    BY <1>0, <1>2, <1>5, <2>1, OthersMapped
       DEF Users!PublishPut, Users!transportVars, transportVars
  <2> QED
    BY <2>2 DEF Users!Next, Users!UserNext
<1> QED
  BY <1>3, <1>4, <1>5

(* destroy() and the failing init() give their reference back once.         *)
LEMMA DestroyKeepsContract ==
  ASSUME NEW c \in Clients, Known(c), DestroyTransport(c) \/ Teardown(c)
  PROVE  [Users!Next]_(Users!vars)
<1> USE DEF Known, lifeVars, Goto
<1>0. /\ UNCHANGED <<tpc, initialized, pub, sub>>
      /\ \A d \in Clients \ {c} :
           /\ apc'[d] = apc[d] /\ tpc'[d] = tpc[d] /\ initialized'[d] = initialized[d]
           /\ pub'[d] = pub[d] /\ sub'[d] = sub[d]
  BY DEF DestroyTransport, Teardown
<1>1. CASE DestroyTransport(c)
  <2>1. /\ apc[c] = "destroy_transport" /\ initialized[c] /\ tpc[c] = "none"
        /\ apc'[c] \in {"clear", "destroy_teardown"}
    BY <1>1 DEF DestroyTransport, LifeAgrees, ThreadAgrees, AttachedPoints
  <2>2. /\ UserState[c] = "attached" /\ ~UserPutting[c]
        /\ UserPub'[c] = Null /\ UserSub'[c] = Null /\ UserPutting'[c] = UserPutting[c]
        /\ apc'[c] = "clear" => UserState'[c] = "detached"
        /\ apc'[c] = "destroy_teardown" => UserState'[c] = "destroying"
    <3> HIDE DEF Known
    <3>1. IsAttached(c) /\ ~IsAttached(c)'
      BY <1>0, <2>1 DEF IsAttached, DestroyingPoints, AttachedPoints
    <3>2. UserPutting[c] = FALSE /\ UserPutting'[c] = FALSE
      BY <1>0, <2>1, PuttingOf
    <3>3. UserPub'[c] = Null /\ UserSub'[c] = Null
      BY <3>1 DEF UserPub, UserSub
    <3> QED
      BY <2>1, <3>1, <3>2, <3>3 DEF UserState, DestroyingPoints
  <2>3. Users!DestroyCall(c)
    BY <1>0, <1>1, <2>2, OthersMapped, SameCalls
       DEF DestroyTransport, Users!DestroyCall, Users!Become, Users!ForgetHandles, Null, Users!Null
  <2> QED
    BY <2>3 DEF Users!Next, Users!UserNext
<1>2. CASE destroy_undeclare(c) /\ apc[c] \in DestroyingPoints /\ UNCHANGED apc
  <2>1. UNCHANGED <<UserState, UserPub, UserSub, UserPutting>>
    BY <1>0, <1>2 DEF UserState, UserPub, UserSub, UserPutting, IsAttached
  <2>2. Users!TeardownUndeclare(c)
    BY <1>2, <2>1, SameCalls DEF Users!TeardownUndeclare, Users!userVars, UserState
  <2> QED
    BY <2>2 DEF Users!Next, Users!UserNext
<1>3. CASE /\ destroy_close(c)
           /\ \/ apc[c] = "undo_teardown" /\ apc' = [apc EXCEPT ![c] = "idle"]
              \/ apc[c] = "destroy_teardown" /\ apc' = [apc EXCEPT ![c] = "clear"]
  <2>1. apc[c] \in DestroyingPoints /\ ~IsAttached(c)
    BY <1>3 DEF IsAttached, DestroyingPoints
  <2>2. apc'[c] \notin DestroyingPoints /\ ~IsAttached(c)' /\ apc'[c] # "put" /\ apc[c] # "put"
    BY <1>0, <1>3 DEF IsAttached, DestroyingPoints, AttachedPoints, LifeAgrees
  <2>3. /\ UserState[c] = "destroying" /\ UserState'[c] = "detached"
        /\ UserPub'[c] = UserPub[c] /\ UserSub'[c] = UserSub[c] /\ UserPutting'[c] = UserPutting[c]
    BY <1>0, <2>1, <2>2 DEF UserState, UserPub, UserSub, UserPutting
  <2>4. Users!TeardownClose(c)
    BY <1>0, <1>3, <2>3, OthersMapped, SameCalls DEF Users!TeardownClose, Users!Become
  <2> QED
    BY <2>4 DEF Users!Next, Users!UserNext
<1> QED
  BY <1>1, <1>2, <1>3 DEF Teardown, DestroyingPoints

(* zenoh_publish_state: a put begins only with a declared publisher of an  *)
(* initialized client, never while that client is in destroy().            *)
LEMMA PublishKeepsContract ==
  ASSUME NEW c \in Clients, Known(c), AppPublish(c) \/ ThreadNext(c)
  PROVE  [Users!Next]_(Users!vars)
<1> USE DEF Known, lifeVars, Goto, ThreadGoto
<1>0. /\ UNCHANGED <<transportVars, initialized, pub, sub>>
      /\ \A d \in Clients \ {c} :
           /\ apc'[d] = apc[d] /\ tpc'[d] = tpc[d] /\ initialized'[d] = initialized[d]
           /\ pub'[d] = pub[d] /\ sub'[d] = sub[d]
  BY DEF AppPublish, ThreadNext, ThreadEntry, ThreadLoop, ThreadPublish, ThreadPut, ThreadSleep,
     ThreadExit
<1>1. /\ apc[c] \in {"idle", "join", "put"} /\ apc'[c] \in {"idle", "join", "put"}
      /\ apc[c] = "put" => tpc[c] = "none"
      /\ initialized[c]
  BY DEF AppPublish, ThreadNext, ThreadEntry, ThreadLoop, ThreadPublish, ThreadPut, ThreadSleep,
     ThreadExit, LifeAgrees, ThreadAgrees, AttachedPoints
<1>2. /\ UserState[c] = "attached" /\ UserPub[c] = pub[c]
      /\ UNCHANGED <<UserState, UserPub, UserSub>>
  <2>1. IsAttached(c) /\ IsAttached(c)'
    BY <1>0, <1>1 DEF IsAttached, DestroyingPoints, AttachedPoints
  <2>2. UserState[c] = "attached" /\ UserPub[c] = pub[c]
    BY <1>1, <2>1 DEF UserState, UserPub, DestroyingPoints
  <2>3. /\ UserState'[c] = UserState[c] /\ UserPub'[c] = UserPub[c] /\ UserSub'[c] = UserSub[c]
    BY <1>0, <1>1, <2>1 DEF UserState, UserPub, UserSub, DestroyingPoints
  <2> QED
    BY <1>0, <2>2, <2>3, OthersMapped
<1>3. \/ UserPutting'[c] = UserPutting[c]
      \/ UserPutting[c] = TRUE /\ UserPutting'[c] = FALSE
      \/ UserPutting[c] = FALSE /\ UserPutting'[c] = TRUE /\ PublishAccepts(pub[c])
  <2>1. \/ ThreadEntry(c) \/ ThreadLoop(c) \/ ThreadSleep(c) \/ ThreadExit(c)
        \/ ThreadPublish(c) /\ tpc'[c] = "sleep"
        => tpc[c] # "put" /\ tpc'[c] # "put" /\ apc'[c] = apc[c]
    BY DEF ThreadEntry, ThreadLoop, ThreadSleep, ThreadExit, ThreadPublish
  <2>2. ThreadPublish(c) /\ tpc'[c] # "sleep" =>
          tpc[c] # "put" /\ apc[c] # "put" /\ tpc'[c] = "put" /\ PublishAccepts(pub[c])
    BY <1>1 DEF ThreadPublish
  <2>3. ThreadPut(c) => tpc[c] = "put" /\ tpc'[c] # "put" /\ apc'[c] # "put"
    BY <1>1 DEF ThreadPut
  <2>4. AppPublish(c) =>
          \/ apc[c] = "put" /\ tpc'[c] # "put" /\ apc'[c] # "put"
          \/ tpc[c] # "put" /\ apc[c] # "put" /\ apc'[c] = "put" /\ PublishAccepts(pub[c])
    BY <1>1 DEF AppPublish, ThreadAgrees
  <2> HIDE DEF Known
  <2> QED
    BY <2>1, <2>2, <2>3, <2>4, PuttingOf DEF ThreadNext
<1>4. CASE UserPutting'[c] = UserPutting[c]
  BY <1>0, <1>2, <1>4, OthersMapped DEF Users!vars, Users!userVars, Users!transportVars, transportVars
<1>5. CASE UserPutting[c] = TRUE /\ UserPutting'[c] = FALSE
  <2>1. Users!PublishPut(c)
    BY <1>0, <1>2, <1>5, OthersMapped DEF Users!PublishPut, Users!transportVars, transportVars
  <2> QED
    BY <2>1 DEF Users!Next, Users!UserNext
<1>6. CASE UserPutting[c] = FALSE /\ UserPutting'[c] = TRUE /\ PublishAccepts(pub[c])
  <2>1. Users!PublishAccepts(pub[c])
    BY <1>6 DEF PublishAccepts, Users!PublishAccepts, Null, Users!Null
  <2>2. Users!PublishCheck(c)
    BY <1>0, <1>2, <1>6, <2>1, OthersMapped
       DEF Users!PublishCheck, Users!transportVars, transportVars
  <2> QED
    BY <2>2 DEF Users!Next, Users!UserNext
<1> QED
  BY <1>3, <1>4, <1>5, <1>6

(* The read task calls nothing of the transport.                            *)
LEMMA ReadTaskKeepsContract ==
  ASSUME ReadTaskNext
  PROVE  [Users!Next]_(Users!vars)
<1> USE DEF lifeVars, rxVars, Users!rxVars, sessionVars, Users!sessionVars, SubSlots, Users!SubSlots,
            Null, Users!Null
<1>1. UNCHANGED <<UserState, UserPub, UserSub, UserPutting>>
  BY DEF ReadTaskNext, Receive, ReceiveDrop, ReceiveStore, ReceiveCount, UserState, UserPub, UserSub,
     UserPutting, IsAttached
<1>2. CASE Receive
  BY <1>1, <1>2 DEF Receive, rx_dispatch, Users!rx_dispatch, Users!ReceiveSample, Users!userVars,
     Users!Next
<1>3. CASE ReceiveDrop \/ ReceiveCount
  BY <1>1, <1>3 DEF ReceiveDrop, ReceiveCount, rx_done, Users!rx_done, Users!HandlerDone,
     Users!userVars, Users!Next
<1>4. CASE ReceiveStore
  BY <1>1, <1>4 DEF ReceiveStore, Users!vars, Users!userVars, Users!transportVars, transportVars
<1> QED
  BY <1>2, <1>3, <1>4 DEF ReadTaskNext

(* Every step of Client is, for the transport, a step of its users or none. *)
LEMMA StepKeepsContract ==
  ASSUME ClientInv, [Next]_vars
  PROVE  [Users!Next]_(Users!vars)
<1>1. \A c \in Clients : Known(c) /\ after_stop[c] \in {"idle", "start", "destroy_transport"}
  BY DEF ClientInv, TypeOK, Known
<1>2. ASSUME NEW c \in Clients, AppNext(c) \/ ThreadNext(c)
      PROVE  [Users!Next]_(Users!vars)
  BY <1>1, <1>2, InitKeepsContract, ThreadCallsKeepContract, DestroyKeepsContract,
     PublishKeepsContract DEF AppNext
<1>3. CASE UNCHANGED vars
  BY <1>3 DEF vars, lifeVars, UserState, UserPub, UserSub, UserPutting, IsAttached, Users!vars,
     Users!userVars, Users!transportVars, transportVars
<1> QED
  BY <1>2, <1>3, ReadTaskKeepsContract DEF Next

-------------------------------------------------------------------------------
(* The inductive invariant.                                                 *)
LEMMA InitClientInv == Init => ClientInv
<1> SUFFICES ASSUME Init PROVE ClientInv
  OBVIOUS
<1> USE PoolsAssumption, ClientsAssumption DEF Init, TransportInit
<1>1. TypeOK
  <2>1. TransportTypeOK(Clients, Clients)
    BY DEF TransportTypeOK, FreePub, FreeSub, Null
  <2> QED
    BY <2>1 DEF TypeOK, AppPoints
<1>2. \A c \in Clients : LifeAgrees(c) /\ ThreadAgrees(c)
  BY DEF LifeAgrees, ThreadAgrees, AttachedPoints
<1>3. hpc = "idle" /\ rx_slot = Null
  OBVIOUS
<1>4. \A i \in SubSlots : ~sub_pool[i].live /\ rx_slot # i
  BY DEF FreeSub, SubSlots, Null
<1> QED
  BY <1>1, <1>2, <1>3, <1>4 DEF ClientInv

(* The variables of Client keep their types; those of the transport are    *)
(* left to TransportProofs.                                                 *)
LEMMA AppTypeOK ==
  ASSUME TypeOK, TransportTypeOK(Clients, Clients)', NEW c \in Clients, AppNext(c)
  PROVE  TypeOK'
<1> USE DEF TypeOK, lifeVars, commandVars, Goto, AppPoints
<1>1. CASE InitReset(c)
  BY <1>1, ClientsAssumption DEF InitReset
<1>2. CASE InitTransport(c) \/ InitUndo(c) \/ DestroyTransport(c) \/ Teardown(c) \/ AppPublish(c)
  BY <1>2 DEF InitTransport, InitUndo, DestroyTransport, Teardown, AppPublish
<1>3. CASE InitDeclarePub(c) \/ InitDeclareSub(c)
  BY <1>3 DEF InitDeclarePub, InitDeclareSub
<1>4. CASE InitReady(c) \/ SpawnThread(c) \/ DestroyClear(c)
  BY <1>4 DEF InitReady, SpawnThread, DestroyClear
<1>5. CASE StartThread(c)
  <2>1. PICK f \in Frequencies \ {0} : request' = [request EXCEPT ![c] = f]
    BY <1>5 DEF StartThread
  <2>2. request' \in [Clients -> Frequencies \cup {0}]
    BY <2>1
  <2>3. /\ apc' \in [Clients -> AppPoints] /\ running' \in [Clients -> BOOLEAN]
        /\ after_stop' \in [Clients -> {"idle", "start", "destroy_transport"}]
    <3>1. CASE BeginStop(c, "start")
      BY <3>1 DEF BeginStop
    <3>2. CASE Goto(c, "start") /\ UNCHANGED <<running, after_stop>>
      BY <3>2
    <3> QED
      BY <1>5, <3>1, <3>2 DEF StartThread
  <2>4. UNCHANGED <<transportVars, initialized, pub, sub, control_freq, started, tpc, commandVars>>
    BY <1>5 DEF StartThread
  <2> QED
    BY <2>2, <2>3, <2>4
<1>6. CASE StopThread(c) \/ DestroyCall(c)
  BY <1>6 DEF StopThread, DestroyCall, BeginStop
<1>7. CASE JoinThread(c)
  BY <1>7 DEF JoinThread, AfterJoin
<1> QED
  BY <1>1, <1>2, <1>3, <1>4, <1>5, <1>6, <1>7 DEF AppNext

LEMMA ThreadTypeOK ==
  ASSUME TypeOK, NEW c \in Clients, ThreadNext(c)
  PROVE  TypeOK'
<1>1. UNCHANGED <<transportVars, apc, after_stop, request, initialized, pub, sub, control_freq,
                  started, commandVars>>
  BY DEF ThreadNext, ThreadGoto, ThreadEntry, ThreadLoop, ThreadPublish, ThreadPut, ThreadSleep,
     ThreadExit
<1>2. running' \in [Clients -> BOOLEAN]
  BY DEF TypeOK, ThreadNext, ThreadEntry, ThreadLoop, ThreadPublish, ThreadPut, ThreadSleep, ThreadExit
<1>3. tpc' \in [Clients -> {"none", "entry", "loop", "publish", "put", "sleep", "exit"}]
  BY DEF TypeOK, ThreadNext, ThreadGoto, ThreadEntry, ThreadLoop, ThreadPublish, ThreadPut,
     ThreadSleep, ThreadExit
<1> QED
  BY <1>1, <1>2, <1>3 DEF TypeOK, TransportTypeOK, transportVars, commandVars

LEMMA ReadTaskTypeOK ==
  ASSUME ClientInv, TransportTypeOK(Clients, Clients)', ReadTaskNext
  PROVE  TypeOK'
<1> USE DEF ClientInv, TypeOK, lifeVars
<1>1. UNCHANGED <<apc, lifeVars, tpc>> /\ hpc' \in {"idle", "call", "count"}
  BY DEF ReadTaskNext, Receive, ReceiveDrop, ReceiveStore, ReceiveCount
<1>2. hpc # "idle" => Receiver \in Clients
  BY DEF Receiver, TransportTypeOK
<1>3. command' \in [Clients -> 0..MaxCommands]
  BY <1>2, ClientsAssumption DEF ReadTaskNext, Receive, ReceiveDrop, ReceiveStore, ReceiveCount, Store
<1>4. accepted' \in [Clients -> Nat]
  BY <1>2 DEF ReadTaskNext, Receive, ReceiveDrop, ReceiveStore, ReceiveCount, Count
<1> QED
  BY <1>1, <1>3, <1>4

(* A call of one client: where it is initialized and its thread started.   *)
LEMMA AppAgrees ==
  ASSUME ClientInv, NEW c \in Clients, AppNext(c)
  PROVE  \A d \in Clients : (LifeAgrees(d) /\ ThreadAgrees(d))'
<1> USE DEF ClientInv, TypeOK, lifeVars, Goto
<1>1. \A d \in Clients \ {c} :
        /\ apc'[d] = apc[d] /\ after_stop'[d] = after_stop[d] /\ request'[d] = request[d]
        /\ initialized'[d] = initialized[d] /\ sub'[d] = sub[d]
        /\ control_freq'[d] = control_freq[d] /\ running'[d] = running[d]
        /\ started'[d] = started[d] /\ tpc'[d] = tpc[d]
  <2>1. CASE InitReset(c) \/ InitTransport(c) \/ InitUndo(c) \/ InitReady(c)
    BY <2>1 DEF InitReset, InitTransport, InitUndo, InitReady
  <2>2. CASE InitDeclarePub(c) \/ InitDeclareSub(c)
    BY <2>2 DEF InitDeclarePub, InitDeclareSub
  <2>3. CASE StartThread(c) \/ SpawnThread(c) \/ StopThread(c)
    BY <2>3 DEF StartThread, SpawnThread, StopThread, BeginStop
  <2>4. CASE JoinThread(c) \/ DestroyCall(c)
    BY <2>4 DEF JoinThread, DestroyCall, BeginStop, AfterJoin
  <2>5. CASE DestroyTransport(c) \/ Teardown(c) \/ DestroyClear(c) \/ AppPublish(c)
    BY <2>5 DEF DestroyTransport, Teardown, DestroyClear, AppPublish
  <2> QED
    BY <2>1, <2>2, <2>3, <2>4, <2>5 DEF AppNext
<1>2. \A d \in Clients \ {c} : (LifeAgrees(d) /\ ThreadAgrees(d))'
  BY <1>1 DEF LifeAgrees, ThreadAgrees
<1>3. LifeAgrees(c) /\ ThreadAgrees(c)
  OBVIOUS
<1>4. (LifeAgrees(c) /\ ThreadAgrees(c))'
  <2> USE <1>3 DEF LifeAgrees, ThreadAgrees, AttachedPoints
  <2>1. CASE InitReset(c)
    BY <2>1 DEF InitReset
  <2>2. CASE InitTransport(c) \/ InitUndo(c)
    BY <2>2 DEF InitTransport, InitUndo
  <2>3. CASE InitDeclarePub(c) \/ InitDeclareSub(c)
    BY <2>3 DEF InitDeclarePub, InitDeclareSub
  <2>4. CASE InitReady(c)
    BY <2>4 DEF InitReady
  <2>5. CASE StartThread(c)
    BY <2>5 DEF StartThread, BeginStop
  <2>6. CASE SpawnThread(c)
    BY <2>6 DEF SpawnThread
  <2>7. CASE StopThread(c) \/ DestroyCall(c)
    BY <2>7 DEF StopThread, DestroyCall, BeginStop
  <2>8. CASE JoinThread(c)
    BY <2>8 DEF JoinThread, AfterJoin
  <2>9. CASE DestroyTransport(c) \/ Teardown(c)
    BY <2>9 DEF DestroyTransport, Teardown
  <2>10. CASE DestroyClear(c) \/ AppPublish(c)
    BY <2>10 DEF DestroyClear, AppPublish
  <2> QED
    BY <2>1, <2>2, <2>3, <2>4, <2>5, <2>6, <2>7, <2>8, <2>9, <2>10 DEF AppNext
<1> QED
  BY <1>2, <1>4

(* A step of a control thread.  Its last store, to the flag of its client, *)
(* finds the flag cleared: stop_thread waits for the thread.                *)
LEMMA ThreadStepAgrees ==
  ASSUME ClientInv, NEW c \in Clients, ThreadNext(c)
  PROVE  \A d \in Clients : (LifeAgrees(d) /\ ThreadAgrees(d))'
<1> USE DEF ClientInv, TypeOK, ThreadGoto
<1>1. /\ UNCHANGED <<apc, after_stop, request, initialized, sub, control_freq, started>>
      /\ \A d \in Clients \ {c} : tpc'[d] = tpc[d] /\ running'[d] = running[d]
  BY DEF ThreadNext, ThreadEntry, ThreadLoop, ThreadPublish, ThreadPut, ThreadSleep, ThreadExit
<1>2. \A d \in Clients : LifeAgrees(d)'
  BY <1>1 DEF LifeAgrees
<1>3. \A d \in Clients \ {c} : ThreadAgrees(d)'
  BY <1>1 DEF ThreadAgrees
<1>4. ThreadAgrees(c)'
  BY <1>1 DEF ThreadNext, ThreadEntry, ThreadLoop, ThreadPublish, ThreadPut, ThreadSleep, ThreadExit,
     ThreadAgrees
<1> QED
  BY <1>2, <1>3, <1>4

(* A call leaves the handler of the read task alone, and only a client     *)
(* becomes the user_data of a slot: also the slot that an undeclare frees   *)
(* under a handler keeps it.                                                *)
LEMMA AppCallback ==
  ASSUME ClientInv, NEW c \in Clients, AppNext(c)
  PROVE  /\ hpc' = hpc /\ rx_slot' = rx_slot
         /\ \A i \in SubSlots : (sub_pool[i].live \/ rx_slot = i => sub_pool[i].user_data \in Clients)'
<1> USE DEF lifeVars, commandVars, transportVars, rxVars
<1>1. ASSUME UNCHANGED <<hpc, rx_slot, sub_pool>>
      PROVE  /\ hpc' = hpc /\ rx_slot' = rx_slot
             /\ \A i \in SubSlots :
                  (sub_pool[i].live \/ rx_slot = i => sub_pool[i].user_data \in Clients)'
  BY <1>1 DEF ClientInv
<1>2. \/ InitReset(c) \/ InitTransport(c) \/ InitUndo(c) \/ InitReady(c)
      => UNCHANGED <<hpc, rx_slot, sub_pool>>
  BY DEF InitReset, InitTransport, InitUndo, InitReady, transport_init, destroy_release,
     destroy_last, EnterTeardown
<1>3. InitDeclarePub(c) \/ DestroyTransport(c) \/ DestroyClear(c) \/ AppPublish(c)
      => UNCHANGED <<hpc, rx_slot, sub_pool>>
  BY DEF InitDeclarePub, DestroyTransport, DestroyClear, AppPublish, declare_publisher,
     destroy_release, destroy_last, EnterTeardown
<1>4. \/ StartThread(c) \/ SpawnThread(c) \/ StopThread(c) \/ JoinThread(c) \/ DestroyCall(c)
      => UNCHANGED <<hpc, rx_slot, sub_pool>>
  BY DEF StartThread, SpawnThread, StopThread, JoinThread, AfterJoin, DestroyCall
<1>5. CASE InitDeclareSub(c)
  <2>1. PICK h \in SubSlots \cup {Null} : declare_subscriber(c, c, h)
    BY <1>5 DEF InitDeclareSub
  <2>2. UNCHANGED <<hpc, rx_slot>>
    BY <1>5, <2>1 DEF InitDeclareSub, declare_subscriber
  <2>3. ASSUME NEW i \in SubSlots,
               sub_pool' = [sub_pool EXCEPT ![i] =
                              [in_use |-> h = i, live |-> h = i, user_data |-> c]]
        PROVE  \A j \in SubSlots :
                 (sub_pool[j].live \/ rx_slot = j => sub_pool[j].user_data \in Clients)'
    BY <2>2, <2>3 DEF ClientInv, TypeOK, TransportTypeOK
  <2> QED
    BY <1>1, <2>1, <2>2, <2>3 DEF declare_subscriber
<1>6. CASE Teardown(c) /\ destroy_close(c)
  BY <1>1, <1>6 DEF Teardown, destroy_close, Close
<1>7. CASE Teardown(c) /\ destroy_undeclare(c)
  <2>1. UNCHANGED <<hpc, rx_slot>>
    BY <1>7 DEF Teardown, destroy_undeclare, undeclare_publisher, undeclare_subscriber
  <2>2. ASSUME NEW i \in SubSlots, sub_pool' = [sub_pool EXCEPT ![i] = FreeSub(@.user_data)]
        PROVE  \A j \in SubSlots :
                 (sub_pool[j].live \/ rx_slot = j => sub_pool[j].user_data \in Clients)'
    BY <2>1, <2>2 DEF ClientInv, TypeOK, TransportTypeOK, FreeSub
  <2> QED
    BY <1>1, <1>7, <2>1, <2>2 DEF destroy_undeclare, undeclare_publisher, undeclare_subscriber
<1> QED
  BY <1>1, <1>2, <1>3, <1>4, <1>5, <1>6, <1>7 DEF AppNext, Teardown

LEMMA ReadTaskCallback ==
  ASSUME ClientInv, ReadTaskNext
  PROVE  /\ (hpc # "idle" <=> rx_slot # Null)'
         /\ \A i \in SubSlots : (sub_pool[i].live \/ rx_slot = i => sub_pool[i].user_data \in Clients)'
<1>1. CASE Receive
  BY <1>1, PoolsAssumption DEF Receive, rx_dispatch, ClientInv, SubSlots, Null
<1>2. CASE ReceiveDrop \/ ReceiveCount
  BY <1>2, PoolsAssumption DEF ReceiveDrop, ReceiveCount, rx_done, ClientInv, SubSlots, Null
<1>3. CASE ReceiveStore
  BY <1>3 DEF ReceiveStore, ClientInv, transportVars
<1> QED
  BY <1>1, <1>2, <1>3 DEF ReadTaskNext

LEMMA NextClientInv ==
  ASSUME ClientInv, Users!TypeOK', [Next]_vars
  PROVE  ClientInv'
<1>1. TransportTypeOK(Clients, Clients)'
  BY DEF Users!TypeOK, Users!TransportTypeOK, TransportTypeOK, Users!PubSlots, PubSlots,
     Users!SubSlots, SubSlots, Users!Null, Null
<1>2. ASSUME NEW c \in Clients, AppNext(c) PROVE ClientInv'
  <2>1. TypeOK'
    BY <1>1, <1>2, AppTypeOK DEF ClientInv
  <2> QED
    BY <1>2, <2>1, AppAgrees, AppCallback DEF ClientInv
<1>3. ASSUME NEW c \in Clients, ThreadNext(c) PROVE ClientInv'
  <2>1. TypeOK'
    BY <1>3, ThreadTypeOK DEF ClientInv
  <2>2. UNCHANGED <<hpc, rx_slot, sub_pool>>
    BY <1>3 DEF ThreadNext, ThreadGoto, ThreadEntry, ThreadLoop, ThreadPublish, ThreadPut,
       ThreadSleep, ThreadExit, transportVars, commandVars
  <2> QED
    BY <1>3, <2>1, <2>2, ThreadStepAgrees DEF ClientInv
<1>4. CASE ReadTaskNext
  <2>1. TypeOK'
    BY <1>1, <1>4, ReadTaskTypeOK
  <2>2. UNCHANGED <<apc, lifeVars, tpc>>
    BY <1>4 DEF ReadTaskNext, Receive, ReceiveDrop, ReceiveStore, ReceiveCount
  <2>3. \A c \in Clients : (LifeAgrees(c) /\ ThreadAgrees(c))'
    BY <2>2 DEF lifeVars, ClientInv, LifeAgrees, ThreadAgrees
  <2> QED
    BY <1>4, <2>1, <2>3, ReadTaskCallback DEF ClientInv
<1>5. CASE UNCHANGED vars
  <2>1. TypeOK'
    BY <1>5 DEF ClientInv, TypeOK, TransportTypeOK, vars, lifeVars, commandVars, transportVars
  <2>2. \A c \in Clients : (LifeAgrees(c) /\ ThreadAgrees(c))'
    BY <1>5 DEF ClientInv, LifeAgrees, ThreadAgrees, vars, lifeVars
  <2> QED
    BY <1>5, <2>1, <2>2 DEF ClientInv, vars, commandVars, transportVars
<1> QED
  BY <1>2, <1>3, <1>4, <1>5 DEF Next

(* Initially no client is a user of the transport.                          *)
LEMMA InitKeeps == Init => Users!Init
<1> SUFFICES ASSUME Init PROVE Users!Init
  OBVIOUS
<1>1. Users!TransportInit
  BY DEF Init, TransportInit, Users!TransportInit, FreePub, Users!FreePub, FreeSub, Users!FreeSub,
     PubSlots, Users!PubSlots, SubSlots, Users!SubSlots, Null, Users!Null
<1>2. \A c \in Clients : ~IsAttached(c) /\ apc[c] = "idle" /\ tpc[c] = "none"
  BY DEF Init, IsAttached, AttachedPoints
<1>3. /\ UserState = [c \in Clients |-> "detached"]
      /\ UserPub = [c \in Clients |-> Null] /\ UserSub = [c \in Clients |-> Null]
  BY <1>2 DEF UserState, UserPub, UserSub, DestroyingPoints
<1>4. \A c \in Clients : UserPutting[c] = FALSE
  BY <1>2, PuttingOf
<1>5. UserPutting = [c \in Clients |-> FALSE]
  BY <1>4 DEF UserPutting
<1> QED
  BY <1>1, <1>3, <1>5 DEF Users!Init, Null, Users!Null

\* What the proofs below start from.
ClientsInv == ClientInv /\ Users!TransportInv

LEMMA ClientsInvariant == Spec => []ClientsInv
<1>1. Init => ClientsInv
  BY InitClientInv, InitKeeps, UsersAssumed, Users!InitTransportInv DEF ClientsInv
<1>2. ASSUME ClientsInv, [Next]_vars PROVE ClientsInv'
  <2>1. Users!TransportInv'
    BY <1>2, StepKeepsContract, UsersAssumed, Users!NextTransportInv DEF ClientsInv
  <2>2. Users!TypeOK'
    BY <2>1 DEF Users!TransportInv
  <2> QED
    BY <1>2, <2>1, <2>2, NextClientInv DEF ClientsInv
<1> QED
  BY <1>1, <1>2, PTL DEF Spec

-------------------------------------------------------------------------------
(* At all times the life of a client and its thread agree as ClientInv     *)
(* says, and the read task runs callbacks of clients only.                  *)
THEOREM ClientInvariant == Spec => []ClientInv
<1>1. ClientsInv => ClientInv
  BY DEF ClientsInv
<1> QED
  BY <1>1, ClientsInvariant, PTL

(* period_ms = MAX(1000 / control_freq_, 1) in the control thread never    *)
(* divides by zero, however late the thread first runs.                     *)
THEOREM PeriodDefined == Spec => []NoDivisionByZero
<1>1. ClientInv => NoDivisionByZero
  BY DEF ClientInv, ThreadAgrees, NoDivisionByZero
<1> QED
  BY <1>1, ClientInvariant, PTL

(* Between calls control_thread_running_, control_thread_started_ and the  *)
(* thread agree: the last store of a thread that stop_thread joined or      *)
(* aborted never clears the flag of the thread that a restart has created.  *)
THEOREM FlagsAgree == Spec => []ThreadFlagsAgree
<1>1. ClientInv => ThreadFlagsAgree
  BY DEF ClientInv, TypeOK, ThreadAgrees, ThreadFlagsAgree
<1> QED
  BY <1>1, ClientInvariant, PTL

(* Neither the control thread nor the application is ever in               *)
(* z_publisher_put with a publisher that destroy() has undeclared.          *)
THEOREM ClientPutsAreSafe == Spec => []PutOnLivePublisher
<1>1. ASSUME ClientsInv PROVE PutOnLivePublisher
  <2>1. ASSUME NEW c \in Clients, "put" \in {tpc[c], apc[c]}
        PROVE  pub[c] # Null /\ pub_pool[pub[c]].live
    <3>1. UserPutting[c]
      BY <2>1 DEF UserPutting
    <3>2. UserPub[c] # Null /\ pub_pool[UserPub[c]].live
      BY <1>1, <3>1 DEF ClientsInv, Users!TransportInv, Users!PutOnLivePublisher, Users!Null, Null
    <3>3. UserPub[c] = pub[c]
      BY <3>2 DEF UserPub
    <3> QED
      BY <3>2, <3>3
  <2> QED
    BY <2>1 DEF PutOnLivePublisher
<1> QED
  BY <1>1, ClientsInvariant, PTL

(* Whatever declarations failed and threads were aborted: when the last    *)
(* client is back from destroy(), or from an init() that failed, no slot,   *)
(* no session and no callback is left.                                      *)
THEOREM NothingIsLeft == Spec => []NothingLeftDeclared
<1>1. ASSUME ClientsInv, \A c \in Clients : apc[c] = "idle" /\ ~initialized[c]
      PROVE  PubsInUse = {} /\ SubsInUse = {} /\ session = "closed" /\ hpc = "idle"
  <2>1. \A c \in Clients : UserState[c] = "detached"
    BY <1>1 DEF UserState, IsAttached, DestroyingPoints, AttachedPoints
  <2>2. Users!Attached = {}
    BY <2>1 DEF Users!Attached
  <2>3. mutex = NoOne
    BY <1>1, <2>1 DEF ClientsInv, ClientInv, TypeOK, TransportTypeOK, Users!TransportInv,
       Users!MutexInTeardown
  <2>4. session = "closed"
    BY <1>1, <2>2, <2>3 DEF ClientsInv, ClientInv, TypeOK, TransportTypeOK, Users!TransportInv,
       Users!SessionForUsers
  <2>5. PubsInUse = {} /\ SubsInUse = {} /\ rx_slot = Null
    BY <1>1, <2>4 DEF ClientsInv, Users!TransportInv, Users!NothingOutlivesSession, Users!PubsInUse,
       PubsInUse, Users!SubsInUse, SubsInUse, Users!PubSlots, PubSlots, Users!SubSlots, SubSlots,
       Users!Null, Null
  <2> QED
    BY <1>1, <2>4, <2>5 DEF ClientsInv, ClientInv
<1>2. ClientsInv => NothingLeftDeclared
  BY <1>1 DEF NothingLeftDeclared
<1> QED
  BY <1>2, ClientsInvariant, PTL

(* A handler runs only while somebody has the session.                      *)
LEMMA HandlerNeedsUser ==
  ASSUME ClientsInv, hpc # "idle"
  PROVE  \E c \in Clients : IsAttached(c) \/ apc[c] \in DestroyingPoints
<1> SUFFICES ASSUME \A c \in Clients : ~IsAttached(c) /\ apc[c] \notin DestroyingPoints
             PROVE  FALSE
  OBVIOUS
<1>1. \A c \in Clients : UserState[c] = "detached"
  BY DEF UserState
<1>2. Users!Attached = {} /\ mutex = NoOne
  BY <1>1 DEF Users!Attached, ClientsInv, ClientInv, TypeOK, TransportTypeOK, Users!TransportInv,
     Users!MutexInTeardown
<1>3. session = "closed"
  BY <1>2 DEF ClientsInv, ClientInv, TypeOK, TransportTypeOK, Users!TransportInv,
     Users!SessionForUsers
<1> QED
  BY <1>3 DEF ClientsInv, ClientInv, Users!TransportInv, Users!NothingOutlivesSession, Users!Null, Null

(* A client that has the transport for itself is never called back when it *)
(* is not initialized and not in a call: its destroy() ends the session,    *)
(* and z_close waits for the handler.  With two clients this is false.      *)
THEOREM AloneNeverCalled ==
  ASSUME NEW c, Clients = {c}
  PROVE  Spec => []NoCallbackIntoIdleClient
<1>1. ASSUME ClientsInv PROVE NoCallbackIntoIdleClient
  <2>1. ASSUME hpc # "idle" PROVE initialized[Receiver] \/ apc[Receiver] # "idle"
    <3>1. Receiver = c
      BY <1>1, <2>1 DEF ClientsInv, ClientInv, TypeOK, TransportTypeOK, Receiver
    <3>2. IsAttached(c) \/ apc[c] \in DestroyingPoints
      BY <1>1, <2>1, HandlerNeedsUser
    <3> QED
      BY <3>1, <3>2 DEF IsAttached, DestroyingPoints, AttachedPoints
  <2> QED
    BY <2>1 DEF NoCallbackIntoIdleClient
<1> QED
  BY <1>1, ClientsInvariant, PTL

(* A client that has the transport for itself: who sees a new value of     *)
(* accepted_command_count and then reads gets that command or a later one.  *)
(* The increment comes after the write, and no init() resets the buffer     *)
(* between the two.                                                         *)
THEOREM AloneCountsBehind ==
  ASSUME NEW c, Clients = {c}
  PROVE  Spec => []CountBehindBuffer
<1> DEFINE Counting == accepted[c] <= command[c] /\ (hpc = "count" => accepted[c] < command[c])
<1>1. Init => Counting
  BY DEF Init
<1>2. ASSUME ClientsInv, Counting, [Next]_vars PROVE Counting'
  <2>0. /\ command \in [Clients -> Nat] /\ accepted \in [Clients -> Nat]
        /\ hpc # "idle" => Receiver = c
    BY <1>2, ClientsAssumption DEF ClientsInv, ClientInv, TypeOK, TransportTypeOK, Receiver
  <2>1. CASE InitReset(c)
    <3>1. hpc = "idle"
      BY <1>2, <2>1, HandlerNeedsUser DEF InitReset, IsAttached, AttachedPoints, DestroyingPoints
    <3> QED
      BY <2>0, <2>1, <3>1 DEF InitReset
  <2>2. CASE AppNext(c) /\ ~InitReset(c)
    <3>1. UNCHANGED <<hpc, command, accepted>>
      BY <2>2 DEF AppNext, InitTransport, InitDeclarePub, InitDeclareSub, InitUndo, InitReady,
         StartThread, SpawnThread, StopThread, JoinThread, AfterJoin, DestroyCall,
         DestroyTransport, Teardown, DestroyClear, AppPublish, commandVars
    <3> QED
      BY <1>2, <3>1
  <2>3. CASE ThreadNext(c) \/ UNCHANGED vars
    BY <1>2, <2>3 DEF ThreadNext, ThreadGoto, ThreadEntry, ThreadLoop, ThreadPublish, ThreadPut,
       ThreadSleep, ThreadExit, vars, commandVars
  <2>4. CASE Receive \/ ReceiveDrop
    BY <1>2, <2>4 DEF Receive, ReceiveDrop
  <2>5. CASE ReceiveStore
    BY <1>2, <2>0, <2>5 DEF ReceiveStore, Store
  <2>6. CASE ReceiveCount
    BY <1>2, <2>0, <2>6 DEF ReceiveCount, Count
  <2> QED
    BY <1>2, <2>1, <2>2, <2>3, <2>4, <2>5, <2>6 DEF Next, ReadTaskNext
<1>3. Counting => CountBehindBuffer
  BY DEF CountBehindBuffer
<1> QED
  BY <1>1, <1>2, <1>3, ClientsInvariant, PTL DEF Spec

-------------------------------------------------------------------------------
(* Client's own instance of TransportUsers is the one of TransportProofs.  *)
LEMMA SameContract ==
  /\ Users!Init => Contract!Init
  /\ [Users!Next]_(Users!vars) => [Contract!Next]_(Contract!vars)
<1> USE DEF Users!CanLock, Contract!CanLock, Users!rxVars, Contract!rxVars, Users!sessionVars,
            Contract!sessionVars, Users!IsLowest, Contract!IsLowest, Users!PubsInUse,
            Contract!PubsInUse, Users!SubsInUse, Contract!SubsInUse, Users!PubSlots,
            Contract!PubSlots, Users!SubSlots, Contract!SubSlots, Users!Null, Contract!Null,
            Users!FreePub, Contract!FreePub, Users!FreeSub, Contract!FreeSub, Users!Become,
            Contract!Become, Users!userVars, Contract!userVars, Users!transportVars,
            Contract!transportVars
<1>1. Users!Init => Contract!Init
  BY DEF Users!Init, Contract!Init, Users!TransportInit, Contract!TransportInit
<1>2. ASSUME NEW c \in Clients, Users!UserNext(c) PROVE Contract!UserNext(c)
  <2>1. Users!InitCall(c) => Contract!InitCall(c)
    BY DEF Users!InitCall, Contract!InitCall, Users!transport_init, Contract!transport_init
  <2>2. Users!DestroyCall(c) => Contract!DestroyCall(c)
    BY DEF Users!DestroyCall, Contract!DestroyCall, Users!destroy_release, Contract!destroy_release,
       Users!destroy_last, Contract!destroy_last, Users!EnterTeardown, Contract!EnterTeardown,
       Users!ForgetHandles, Contract!ForgetHandles
  <2>3. Users!SpuriousDestroy(c) => Contract!SpuriousDestroy(c)
    BY DEF Users!SpuriousDestroy, Contract!SpuriousDestroy, Users!destroy_release,
       Contract!destroy_release
  <2>4. Users!DeclarePublisher(c) => Contract!DeclarePublisher(c)
    BY DEF Users!DeclarePublisher, Contract!DeclarePublisher, Users!declare_publisher,
       Contract!declare_publisher
  <2>5. Users!DeclareSubscriber(c) => Contract!DeclareSubscriber(c)
    BY DEF Users!DeclareSubscriber, Contract!DeclareSubscriber, Users!declare_subscriber,
       Contract!declare_subscriber
  <2>6. Users!UndeclarePublisher(c) => Contract!UndeclarePublisher(c)
    BY DEF Users!UndeclarePublisher, Contract!UndeclarePublisher, Users!undeclare_publisher,
       Contract!undeclare_publisher
  <2>7. Users!UndeclareSubscriber(c) => Contract!UndeclareSubscriber(c)
    BY DEF Users!UndeclareSubscriber, Contract!UndeclareSubscriber, Users!undeclare_subscriber,
       Contract!undeclare_subscriber
  <2>8. Users!PublishCheck(c) => Contract!PublishCheck(c)
    BY DEF Users!PublishCheck, Contract!PublishCheck, Users!PublishAccepts, Contract!PublishAccepts
  <2>9. Users!PublishPut(c) => Contract!PublishPut(c)
    BY DEF Users!PublishPut, Contract!PublishPut
  <2>10. Users!TeardownUndeclare(c) => Contract!TeardownUndeclare(c)
    BY DEF Users!TeardownUndeclare, Contract!TeardownUndeclare, Users!destroy_undeclare,
       Contract!destroy_undeclare, Users!undeclare_publisher, Contract!undeclare_publisher,
       Users!undeclare_subscriber, Contract!undeclare_subscriber
  <2>11. Users!TeardownClose(c) => Contract!TeardownClose(c)
    BY DEF Users!TeardownClose, Contract!TeardownClose, Users!destroy_close, Contract!destroy_close,
       Users!Close, Contract!Close
  <2> QED
    BY <1>2, <2>1, <2>2, <2>3, <2>4, <2>5, <2>6, <2>7, <2>8, <2>9, <2>10, <2>11
       DEF Users!UserNext, Contract!UserNext
<1>3. Users!ReceiveSample \/ Users!HandlerDone => Contract!ReceiveSample \/ Contract!HandlerDone
  BY DEF Users!ReceiveSample, Contract!ReceiveSample, Users!rx_dispatch, Contract!rx_dispatch,
     Users!HandlerDone, Contract!HandlerDone, Users!rx_done, Contract!rx_done
<1>4. UNCHANGED Users!vars => UNCHANGED Contract!vars
  BY DEF Users!vars, Contract!vars
<1> QED
  BY <1>1, <1>2, <1>3, <1>4 DEF Users!Next, Contract!Next

(* Client implements TransportUsers: whatever its clients do, with failed  *)
(* declarations and aborted threads, the transport sees users that take one *)
(* reference, declare one publisher and one subscriber at most, never put   *)
(* in destroy() and give the reference back once.                           *)
THEOREM ContractKept == Spec => KeepsContract
<1>1. Init => Contract!Init
  BY InitKeeps, SameContract
<1>2. ClientInv /\ [Next]_vars => [Contract!Next]_(Contract!vars)
  BY StepKeepsContract, SameContract
<1> QED
  BY <1>1, <1>2, ClientInvariant, PTL DEF Spec, KeepsContract, Contract!Spec
=================================================================================
