---------------------------- MODULE TransportProofs ----------------------------
(***************************************************************************)
(* TransportInv is an invariant of TransportUsers for every finite set of  *)
(* users and every size of the pools.                                      *)
(***************************************************************************)
EXTENDS TransportUsers, FiniteSetTheorems, TLAPS

\* Cardinality facts about the users that hold a reference.
LEMMA AttachedFinite == IsFiniteSet(Attached) /\ Cardinality(Attached) \in Nat
  <1>1. Attached \subseteq Users
    BY DEF Attached
  <1> QED
    BY <1>1, UsersAssumption, FS_Subset, FS_CardinalityType

LEMMA InitTransportInv == Init => TransportInv
  <1> SUFFICES ASSUME Init PROVE TransportInv
    OBVIOUS
  <1> USE UsersAssumption DEF Init, TransportInit
  <1>1. Attached = {}
    BY DEF Attached
  <1>2. TypeOK
    BY PoolsAssumption DEF TypeOK, TransportTypeOK, FreePub, FreeSub, Null
  <1>3. RefCountExact
    BY <1>1, FS_EmptySet DEF RefCountExact
  <1>4. SessionForUsers
    BY <1>1 DEF SessionForUsers
  <1>5. HandlesValid /\ HandlesExclusive /\ PutOnLivePublisher
    BY DEF HandlesValid, HandlesExclusive, PutOnLivePublisher
  <1>6. NothingOutlivesSession
    BY DEF NothingOutlivesSession, PubsInUse, SubsInUse, FreePub, FreeSub
  <1>7. MutexInTeardown /\ HandlesOfAttached
    BY DEF MutexInTeardown, HandlesOfAttached
  <1> QED
    BY <1>2, <1>3, <1>4, <1>5, <1>6, <1>7 DEF TransportInv

\* The user's own step: who is attached after it.
LEMMA AttachedGrows ==
  ASSUME TypeOK, NEW u \in Users, state[u] = "detached", Become(u, "attached")
  PROVE  /\ Attached' = Attached \cup {u}
         /\ Cardinality(Attached') = Cardinality(Attached) + 1
  <1>1. Attached' = Attached \cup {u}
    BY DEF Attached, Become, TypeOK
  <1>2. u \notin Attached
    BY DEF Attached
  <1> QED
    BY <1>1, <1>2, AttachedFinite, FS_AddElement

LEMMA AttachedShrinks ==
  ASSUME TypeOK, NEW u \in Users, state[u] = "attached", NEW s \in {"detached", "destroying"},
         Become(u, s)
  PROVE  /\ Attached' = Attached \ {u}
         /\ Cardinality(Attached') = Cardinality(Attached) - 1
         /\ Cardinality(Attached) = 1 => Attached' = {}
         /\ Cardinality(Attached) > 1 => Attached' # {}
  <1>1. Attached' = Attached \ {u}
    BY DEF Attached, Become, TypeOK
  <1>2. u \in Attached
    BY DEF Attached
  <1>3. Cardinality(Attached') = Cardinality(Attached) - 1
    BY <1>1, <1>2, AttachedFinite, FS_RemoveElement
  <1>4. IsFiniteSet(Attached')
    BY <1>1, AttachedFinite, FS_RemoveElement
  <1> QED
    BY <1>1, <1>3, <1>4, AttachedFinite, FS_EmptySet

-------------------------------------------------------------------------------
LEMMA InitCallStep ==
  ASSUME TransportInv, NEW u \in Users, InitCall(u)
  PROVE  TransportInv'
  <1> USE DEF TransportInv, InitCall
  <1>0. /\ mutex = NoOne /\ mutex' = NoOne
        /\ UNCHANGED <<pub_pool, sub_pool, rx_slot, rx_for, hpub, hsub, putting>>
    BY UsersAssumption DEF transport_init, CanLock, MutexInTeardown, rxVars
  <1>1. CASE transport_init(u, FALSE) /\ UNCHANGED state
    <2>1. UNCHANGED vars
      BY <1>1 DEF transport_init, vars, transportVars, userVars, rxVars
    <2> QED
      BY <2>1 DEF vars, transportVars, userVars, TypeOK, TransportTypeOK, RefCountExact, Attached,
         SessionForUsers, HandlesValid, HandlesExclusive, PutOnLivePublisher,
         NothingOutlivesSession, PubsInUse, SubsInUse, MutexInTeardown, HandlesOfAttached
  <1>2. CASE transport_init(u, TRUE) /\ Become(u, "attached")
    <2>0. /\ Attached' = Attached \cup {u}
          /\ Cardinality(Attached') = Cardinality(Attached) + 1
      BY <1>2, AttachedGrows
    <2>1. is_initialized' = TRUE /\ session' = "open"
      BY <1>2 DEF transport_init, SessionForUsers, TypeOK, TransportTypeOK
    <2>2. RefCountExact'
      <3>1. CASE is_initialized
        BY <1>2, <2>0, <3>1 DEF transport_init, RefCountExact
      <3>2. CASE ~is_initialized
        <4>1. Attached = {}
          BY <1>0, <3>2 DEF SessionForUsers
        <4> QED
          BY <1>2, <2>0, <3>2, <4>1, FS_EmptySet DEF transport_init, RefCountExact
      <3> QED
        BY <3>1, <3>2
    <2>3. TypeOK'
      <3>1. transport_ref_count' \in Nat
        BY <1>2 DEF TypeOK, TransportTypeOK, transport_init
      <3>2. state' \in [Users -> {"detached", "attached", "destroying"}]
        BY <1>2 DEF TypeOK, Become
      <3> QED
        BY <1>0, <2>1, <3>1, <3>2 DEF TypeOK, TransportTypeOK
    <2>4. SessionForUsers'
      BY <1>0, <2>0, <2>1 DEF SessionForUsers
    <2>5. (HandlesValid /\ HandlesExclusive /\ PutOnLivePublisher)'
      BY <1>0 DEF HandlesValid, HandlesExclusive, PutOnLivePublisher
    <2>6. NothingOutlivesSession'
      BY <1>0, <2>1 DEF NothingOutlivesSession
    <2>7. MutexInTeardown' /\ HandlesOfAttached'
      BY <1>0, <1>2, UsersAssumption DEF MutexInTeardown, HandlesOfAttached, Become, TypeOK
    <2> QED
      BY <2>2, <2>3, <2>4, <2>5, <2>6, <2>7
  <1> QED
    BY <1>1, <1>2

\* Steps that change neither the session nor who is attached.
LEMMA SessionKept ==
  ASSUME TransportInv, UNCHANGED <<sessionVars, state>>
  PROVE  RefCountExact' /\ SessionForUsers' /\ MutexInTeardown'
  BY DEF TransportInv, sessionVars, RefCountExact, SessionForUsers, MutexInTeardown, Attached

LEMMA DeclarePublisherStep ==
  ASSUME TransportInv, NEW u \in Users, DeclarePublisher(u)
  PROVE  TransportInv'
  <1> USE DEF TransportInv
  <1>0. PICK h \in PubSlots \cup {Null} :
          declare_publisher(u, h) /\ hpub' = [hpub EXCEPT ![u] = h]
    BY DEF DeclarePublisher
  <1>1. /\ UNCHANGED <<sessionVars, sub_pool, rx_slot, rx_for, state, hsub, putting>>
        /\ state[u] = "attached" /\ hpub[u] = Null
    BY <1>0 DEF DeclarePublisher, declare_publisher, rxVars
  <1>2. RefCountExact' /\ SessionForUsers' /\ MutexInTeardown'
    BY <1>1, SessionKept
  <1>3. session = "open" /\ session' = "open"
    BY <1>1 DEF SessionForUsers, Attached, sessionVars
  <1>4. CASE UNCHANGED pub_pool /\ h = Null
    <2>1. hpub' = hpub
      BY <1>0, <1>1, <1>4 DEF TypeOK
    <2> QED
      BY <1>1, <1>2, <1>4, <2>1 DEF sessionVars, TypeOK, TransportTypeOK, HandlesValid,
         HandlesExclusive, PutOnLivePublisher, NothingOutlivesSession, PubsInUse, SubsInUse,
         HandlesOfAttached
  <1>5. CASE /\ IsLowest(h, PubSlots \ PubsInUse)
             /\ pub_pool' = [pub_pool EXCEPT ![h] = [in_use |-> TRUE, live |-> TRUE]]
    <2>0. h \in PubSlots /\ ~pub_pool[h].in_use /\ h # Null
      BY <1>5, PoolsAssumption DEF IsLowest, PubsInUse, PubSlots, Null
    <2>1. TypeOK'
      BY <1>0, <1>1, <1>5 DEF sessionVars, TypeOK, TransportTypeOK
    <2>2. \A v \in Users : hpub[v] # h
      BY <2>0 DEF HandlesValid
    <2>3. HandlesValid' /\ HandlesExclusive'
      BY <1>0, <1>1, <1>5, <2>0, <2>2 DEF HandlesValid, HandlesExclusive, TypeOK, TransportTypeOK
    <2>4. PutOnLivePublisher'
      BY <1>0, <1>1, <1>5, <2>2 DEF PutOnLivePublisher, TypeOK, TransportTypeOK
    <2>5. NothingOutlivesSession'
      BY <1>1, <1>3, <1>5 DEF NothingOutlivesSession, TypeOK, TransportTypeOK
    <2>6. HandlesOfAttached'
      BY <1>0, <1>1 DEF HandlesOfAttached, TypeOK
    <2> QED
      BY <1>2, <2>1, <2>3, <2>4, <2>5, <2>6
  <1> QED
    BY <1>0, <1>4, <1>5 DEF declare_publisher

LEMMA DeclareSubscriberStep ==
  ASSUME TransportInv, NEW u \in Users, DeclareSubscriber(u)
  PROVE  TransportInv'
  <1> USE DEF TransportInv
  <1>0. PICK h \in SubSlots \cup {Null} :
          declare_subscriber(u, u, h) /\ hsub' = [hsub EXCEPT ![u] = h]
    BY DEF DeclareSubscriber
  <1>1. /\ UNCHANGED <<sessionVars, pub_pool, rx_slot, rx_for, state, hpub, putting>>
        /\ state[u] = "attached" /\ hsub[u] = Null
    BY <1>0 DEF DeclareSubscriber, declare_subscriber, rxVars
  <1>2. RefCountExact' /\ SessionForUsers' /\ MutexInTeardown'
    BY <1>1, SessionKept
  <1>3. session = "open" /\ session' = "open"
    BY <1>1 DEF SessionForUsers, Attached, sessionVars
  <1>4. HandlesExclusive' /\ PutOnLivePublisher'
    BY <1>1 DEF HandlesExclusive, PutOnLivePublisher
  <1>5. HandlesOfAttached'
    BY <1>0, <1>1 DEF HandlesOfAttached, TypeOK
  <1>6. CASE UNCHANGED sub_pool /\ h = Null
    <2>1. hsub' = hsub
      BY <1>0, <1>1, <1>6 DEF TypeOK
    <2> QED
      BY <1>1, <1>2, <1>4, <1>5, <1>6, <2>1 DEF sessionVars, TypeOK, TransportTypeOK, HandlesValid,
         NothingOutlivesSession, PubsInUse, SubsInUse
  <1>7. ASSUME NEW i \in SubSlots, IsLowest(i, SubSlots \ SubsInUse), h \in {i, Null},
               sub_pool' = [sub_pool EXCEPT ![i] =
                              [in_use |-> h = i, live |-> h = i, user_data |-> u]]
        PROVE  TransportInv'
    <2>0. ~sub_pool[i].in_use /\ i # Null
      BY <1>7, PoolsAssumption DEF IsLowest, SubsInUse, SubSlots, Null
    <2>1. TypeOK'
      BY <1>0, <1>1, <1>7 DEF sessionVars, TypeOK, TransportTypeOK
    <2>2. \A v \in Users : hsub[v] # i
      BY <2>0 DEF HandlesValid
    <2>3. HandlesValid'
      <3>1. \A v \in Users : hpub'[v] # Null =>
               pub_pool'[hpub'[v]].in_use /\ pub_pool'[hpub'[v]].live
        BY <1>1 DEF HandlesValid
      <3>2. ASSUME NEW v \in Users, hsub'[v] # Null
            PROVE  /\ sub_pool'[hsub'[v]].in_use /\ sub_pool'[hsub'[v]].live
                   /\ sub_pool'[hsub'[v]].user_data = v
        <4>1. CASE v = u
          BY <1>0, <1>7, <3>2, <4>1 DEF TypeOK, TransportTypeOK
        <4>2. CASE v # u
          <5>1. hsub'[v] = hsub[v] /\ hsub[v] \in SubSlots
            BY <1>0, <3>2, <4>2 DEF TypeOK
          <5>2. sub_pool'[hsub[v]] = sub_pool[hsub[v]]
            BY <1>7, <2>2, <5>1 DEF TypeOK, TransportTypeOK
          <5> QED
            BY <3>2, <5>1, <5>2 DEF HandlesValid
        <4> QED
          BY <4>1, <4>2
      <3> QED
        BY <3>1, <3>2 DEF HandlesValid
    <2>4. NothingOutlivesSession'
      BY <1>1, <1>3, <1>7 DEF NothingOutlivesSession, TypeOK, TransportTypeOK
    <2> QED
      BY <1>2, <1>4, <1>5, <2>1, <2>3, <2>4
  <1> QED
    BY <1>0, <1>6, <1>7 DEF declare_subscriber

LEMMA UndeclarePublisherStep ==
  ASSUME TransportInv, NEW u \in Users, UndeclarePublisher(u)
  PROVE  TransportInv'
  <1> USE DEF TransportInv, UndeclarePublisher
  <1> DEFINE h == hpub[u]
  <1>0. /\ UNCHANGED <<sessionVars, sub_pool, rx_slot, rx_for, state, hsub, putting>>
        /\ state[u] = "attached" /\ h \in PubSlots /\ h # Null
    BY DEF undeclare_publisher, rxVars, TypeOK
  <1>1. RefCountExact' /\ SessionForUsers' /\ MutexInTeardown'
    BY <1>0, SessionKept
  <1>2. session = "open" /\ session' = "open" /\ is_initialized
    BY <1>0 DEF SessionForUsers, Attached, sessionVars
  <1>3. pub_pool' = [pub_pool EXCEPT ![h] = FreePub]
    BY <1>0, <1>2 DEF undeclare_publisher, HandlesValid, PubsInUse
  <1>4. \A v \in Users : v # u => hpub[v] # h /\ hpub'[v] = hpub[v]
    BY <1>0 DEF HandlesExclusive, TypeOK
  <1>5. hpub'[u] = Null
    BY DEF TypeOK
  <1>6. TypeOK'
    BY <1>0, <1>3 DEF sessionVars, TypeOK, TransportTypeOK, FreePub
  <1>7. HandlesValid' /\ HandlesExclusive'
    BY <1>0, <1>3, <1>4, <1>5 DEF HandlesValid, HandlesExclusive, TypeOK, TransportTypeOK
  <1>8. PutOnLivePublisher'
    BY <1>0, <1>3, <1>4, <1>5 DEF PutOnLivePublisher, TypeOK, TransportTypeOK
  <1>9. NothingOutlivesSession'
    BY <1>0, <1>2, <1>3 DEF NothingOutlivesSession, TypeOK, TransportTypeOK, FreePub
  <1>10. HandlesOfAttached'
    BY <1>0, <1>4, <1>5 DEF HandlesOfAttached
  <1> QED
    BY <1>1, <1>6, <1>7, <1>8, <1>9, <1>10

LEMMA UndeclareSubscriberStep ==
  ASSUME TransportInv, NEW u \in Users, UndeclareSubscriber(u)
  PROVE  TransportInv'
  <1> USE DEF TransportInv, UndeclareSubscriber
  <1> DEFINE h == hsub[u]
  <1>0. /\ UNCHANGED <<sessionVars, pub_pool, rx_slot, rx_for, state, hpub, putting>>
        /\ state[u] = "attached" /\ h \in SubSlots /\ h # Null
    BY DEF undeclare_subscriber, rxVars, TypeOK
  <1>1. RefCountExact' /\ SessionForUsers' /\ MutexInTeardown'
    BY <1>0, SessionKept
  <1>2. session = "open" /\ session' = "open" /\ is_initialized
    BY <1>0 DEF SessionForUsers, Attached, sessionVars
  <1>3. sub_pool' = [sub_pool EXCEPT ![h] = FreeSub(@.user_data)]
    BY <1>0, <1>2 DEF undeclare_subscriber, HandlesValid, SubsInUse
  <1>4. \A v \in Users : v # u => hsub[v] # h /\ hsub'[v] = hsub[v]
    BY <1>0 DEF HandlesValid, TypeOK
  <1>5. hsub'[u] = Null
    BY DEF TypeOK
  <1>6. TypeOK'
    BY <1>0, <1>3 DEF sessionVars, TypeOK, TransportTypeOK, FreeSub
  <1>7. HandlesValid'
    BY <1>0, <1>3, <1>4, <1>5 DEF HandlesValid, TypeOK, TransportTypeOK
  <1>8. HandlesExclusive' /\ PutOnLivePublisher'
    BY <1>0 DEF HandlesExclusive, PutOnLivePublisher
  <1>9. NothingOutlivesSession'
    BY <1>0, <1>2, <1>3 DEF NothingOutlivesSession, TypeOK, TransportTypeOK, FreeSub
  <1>10. HandlesOfAttached'
    BY <1>0, <1>4, <1>5 DEF HandlesOfAttached
  <1> QED
    BY <1>1, <1>6, <1>7, <1>8, <1>9, <1>10

LEMMA PublishStep ==
  ASSUME TransportInv, NEW u \in Users, PublishCheck(u) \/ PublishPut(u)
  PROVE  TransportInv'
  <1> USE DEF TransportInv, PublishCheck, PublishPut, transportVars
  <1>0. RefCountExact' /\ SessionForUsers' /\ MutexInTeardown'
    BY SessionKept DEF sessionVars
  <1>1. TypeOK'
    BY DEF TypeOK, TransportTypeOK
  <1>2. HandlesValid' /\ HandlesExclusive'
    BY DEF HandlesValid, HandlesExclusive
  <1>3. PutOnLivePublisher'
    BY DEF PutOnLivePublisher, PublishAccepts, HandlesValid, TypeOK
  <1>4. NothingOutlivesSession'
    BY DEF NothingOutlivesSession, PubsInUse, SubsInUse
  <1>5. HandlesOfAttached'
    BY DEF HandlesOfAttached, TypeOK
  <1> QED
    BY <1>0, <1>1, <1>2, <1>3, <1>4, <1>5

LEMMA DestroyCallStep ==
  ASSUME TransportInv, NEW u \in Users, DestroyCall(u)
  PROVE  TransportInv'
  <1> USE DEF TransportInv, DestroyCall
  <1>0. /\ state[u] = "attached" /\ u \in Attached
        /\ is_initialized /\ session = "open" /\ mutex = NoOne
        /\ UNCHANGED <<is_initialized, session, pub_pool, sub_pool, rx_slot, rx_for, putting>>
    BY DEF Attached, SessionForUsers, destroy_release, destroy_last, EnterTeardown, ForgetHandles,
       rxVars
  <1>1. hpub'[u] = Null /\ hsub'[u] = Null
    BY DEF ForgetHandles, TypeOK
  <1>2. \A v \in Users : v # u => hpub'[v] = hpub[v] /\ hsub'[v] = hsub[v]
    BY DEF ForgetHandles, TypeOK
  <1>3. ~putting[u]
    OBVIOUS
  <1>4. HandlesValid' /\ HandlesExclusive' /\ PutOnLivePublisher'
    <2> HIDE DEF DestroyCall
    <2>1. HandlesValid'
      BY <1>0, <1>1, <1>2 DEF HandlesValid
    <2>2. HandlesExclusive'
      BY <1>1, <1>2 DEF HandlesExclusive
    <2>3. PutOnLivePublisher'
      BY <1>0, <1>2, <1>3 DEF PutOnLivePublisher
    <2> QED
      BY <2>1, <2>2, <2>3
  <1>5. NothingOutlivesSession'
    BY <1>0 DEF NothingOutlivesSession
  <1>6. transport_ref_count = Cardinality(Attached) /\ Cardinality(Attached) # 0
    <2>1. Attached # {}
      BY <1>0
    <2> QED
      BY <2>1, AttachedFinite, FS_EmptySet DEF RefCountExact
  <1>7. hpub' \in [Users -> PubSlots \cup {Null}] /\ hsub' \in [Users -> SubSlots \cup {Null}]
    BY DEF ForgetHandles, TypeOK
  <1>8. CASE destroy_release(u) /\ Become(u, "detached")
    <2>1. transport_ref_count > 1 /\ transport_ref_count' = transport_ref_count - 1 /\ mutex' = mutex
      BY <1>0, <1>6, <1>8 DEF destroy_release
    <2>2. /\ Attached' = Attached \ {u}
          /\ Cardinality(Attached') = Cardinality(Attached) - 1
          /\ Attached' # {}
      BY <1>0, <1>6, <1>8, <2>1, AttachedShrinks
    <2>3. TypeOK'
      BY <1>0, <1>7, <1>8, <2>1 DEF TypeOK, TransportTypeOK, Become
    <2>4. RefCountExact' /\ SessionForUsers'
      BY <1>0, <1>6, <2>1, <2>2 DEF RefCountExact, SessionForUsers
    <2>5. MutexInTeardown' /\ HandlesOfAttached'
      BY <1>0, <1>1, <1>2, <1>8, <2>1, UsersAssumption
         DEF MutexInTeardown, HandlesOfAttached, Become, TypeOK
    <2> QED
      BY <1>4, <1>5, <2>3, <2>4, <2>5
  <1>9. CASE destroy_last(u) /\ Become(u, "destroying")
    <2>1. transport_ref_count = 1 /\ transport_ref_count' = transport_ref_count - 1 /\ mutex' = u
      BY <1>9 DEF destroy_last, EnterTeardown
    <2>2. Attached' = {} /\ Cardinality(Attached') = Cardinality(Attached) - 1
      BY <1>0, <1>6, <1>9, <2>1, AttachedShrinks
    <2>3. TypeOK'
      BY <1>0, <1>7, <1>9, <2>1 DEF TypeOK, TransportTypeOK, Become
    <2>4. RefCountExact' /\ SessionForUsers'
      BY <1>0, <1>6, <2>1, <2>2, UsersAssumption DEF RefCountExact, SessionForUsers
    <2>5. MutexInTeardown' /\ HandlesOfAttached'
      BY <1>0, <1>1, <1>2, <1>3, <1>9, <2>1, UsersAssumption
         DEF MutexInTeardown, HandlesOfAttached, Become, TypeOK
    <2> QED
      BY <1>4, <1>5, <2>3, <2>4, <2>5
  <1> QED
    BY <1>8, <1>9

LEMMA TeardownUndeclareStep ==
  ASSUME TransportInv, NEW u \in Users, TeardownUndeclare(u)
  PROVE  TransportInv'
  <1> USE DEF TransportInv, TeardownUndeclare
  <1>0. /\ mutex = u /\ UNCHANGED <<sessionVars, state, hpub, hsub, putting, rx_slot, rx_for>>
    BY DEF destroy_undeclare, undeclare_publisher, undeclare_subscriber, userVars, rxVars
  <1>1. RefCountExact' /\ SessionForUsers' /\ MutexInTeardown'
    BY <1>0, SessionKept
  <1>2. \A v \in Users : hpub[v] = Null /\ hsub[v] = Null /\ ~putting[v]
    BY <1>0, UsersAssumption DEF HandlesOfAttached, SessionForUsers, Attached
  <1>3. (HandlesValid /\ HandlesExclusive /\ PutOnLivePublisher /\ HandlesOfAttached)'
    BY <1>0, <1>2 DEF HandlesValid, HandlesExclusive, PutOnLivePublisher, HandlesOfAttached
  <1>4. ASSUME NEW i \in PubSlots, i \in PubsInUse, undeclare_publisher(u, i)
        PROVE  TypeOK' /\ NothingOutlivesSession'
    <2>1. /\ UNCHANGED sub_pool /\ session = "open"
          /\ pub_pool' = [pub_pool EXCEPT ![i] = FreePub]
      BY <1>4 DEF undeclare_publisher, NothingOutlivesSession, SessionForUsers, TypeOK,
         TransportTypeOK
    <2>2. TypeOK'
      BY <1>0, <2>1 DEF TypeOK, TransportTypeOK, FreePub, sessionVars
    <2>3. NothingOutlivesSession'
      BY <1>0, <2>1 DEF NothingOutlivesSession, TypeOK, TransportTypeOK, FreePub, sessionVars
    <2> QED
      BY <2>2, <2>3
  <1>5. ASSUME NEW i \in SubSlots, i \in SubsInUse, undeclare_subscriber(u, i)
        PROVE  TypeOK' /\ NothingOutlivesSession'
    <2>1. /\ UNCHANGED pub_pool /\ session = "open"
          /\ sub_pool' = [sub_pool EXCEPT ![i] = FreeSub(@.user_data)]
      BY <1>5 DEF undeclare_subscriber, NothingOutlivesSession, SessionForUsers, TypeOK,
         TransportTypeOK
    <2>2. TypeOK'
      BY <1>0, <2>1 DEF TypeOK, TransportTypeOK, FreeSub, sessionVars
    <2>3. NothingOutlivesSession'
      BY <1>0, <2>1 DEF NothingOutlivesSession, TypeOK, TransportTypeOK, FreeSub, sessionVars
    <2> QED
      BY <2>2, <2>3
  <1>6. TypeOK' /\ NothingOutlivesSession'
    BY <1>4, <1>5 DEF destroy_undeclare, IsLowest
  <1> QED
    BY <1>1, <1>3, <1>6

LEMMA TeardownCloseStep ==
  ASSUME TransportInv, NEW u \in Users, TeardownClose(u)
  PROVE  TransportInv'
  <1> USE DEF TransportInv, TeardownClose, destroy_close, Close
  <1>0. /\ mutex = u /\ mutex' = NoOne /\ session' = "closed" /\ is_initialized' = FALSE
        /\ state[u] = "destroying"
        /\ UNCHANGED <<transport_ref_count, pub_pool, sub_pool, rx_slot, rx_for, hpub, hsub, putting>>
    BY DEF rxVars
  <1>1. Attached = {} /\ Attached' = Attached
    BY <1>0, UsersAssumption DEF SessionForUsers, Attached, Become, TypeOK
  <1>2. TypeOK'
    BY <1>0 DEF TypeOK, TransportTypeOK, Become
  <1>3. RefCountExact' /\ SessionForUsers'
    BY <1>0, <1>1 DEF RefCountExact, SessionForUsers
  <1>4. (HandlesValid /\ HandlesExclusive /\ PutOnLivePublisher)'
    BY <1>0 DEF HandlesValid, HandlesExclusive, PutOnLivePublisher
  <1>5. NothingOutlivesSession'
    BY <1>0 DEF NothingOutlivesSession, PubsInUse, SubsInUse
  <1>6. MutexInTeardown' /\ HandlesOfAttached'
    BY <1>0, UsersAssumption DEF MutexInTeardown, HandlesOfAttached, Become, TypeOK
  <1> QED
    BY <1>2, <1>3, <1>4, <1>5, <1>6

LEMMA ReceiveStep ==
  ASSUME TransportInv, ReceiveSample \/ HandlerDone
  PROVE  TransportInv'
  <1> USE DEF TransportInv, ReceiveSample, HandlerDone, rx_dispatch, rx_done
  <1>0. UNCHANGED <<sessionVars, pub_pool, sub_pool, state, hpub, hsub, putting>>
    BY DEF userVars
  <1>1. RefCountExact' /\ SessionForUsers' /\ MutexInTeardown'
    BY <1>0, SessionKept
  <1>2. TypeOK'
    BY <1>0 DEF TypeOK, TransportTypeOK, sessionVars
  <1>3. (HandlesValid /\ HandlesExclusive /\ PutOnLivePublisher /\ HandlesOfAttached)'
    BY <1>0 DEF HandlesValid, HandlesExclusive, PutOnLivePublisher, HandlesOfAttached
  <1>4. NothingOutlivesSession'
    BY <1>0 DEF NothingOutlivesSession, PubsInUse, SubsInUse, sessionVars
  <1> QED
    BY <1>1, <1>2, <1>3, <1>4

LEMMA StutterTransport ==
  ASSUME TransportInv, UNCHANGED vars
  PROVE  TransportInv'
  BY DEF TransportInv, vars, transportVars, userVars, TypeOK, TransportTypeOK, RefCountExact,
     Attached, SessionForUsers, HandlesValid, HandlesExclusive, PutOnLivePublisher,
     NothingOutlivesSession, PubsInUse, SubsInUse, MutexInTeardown, HandlesOfAttached

LEMMA NextTransportInv == TransportInv /\ [Next]_vars => TransportInv'
  <1> SUFFICES ASSUME TransportInv, [Next]_vars PROVE TransportInv'
    OBVIOUS
  <1>1. ASSUME NEW u \in Users, UserNext(u) PROVE TransportInv'
    <2>1. CASE SpuriousDestroy(u)
      <3>1. UNCHANGED vars
        BY <2>1 DEF SpuriousDestroy, destroy_release, vars, transportVars, userVars, rxVars
      <3> QED
        BY <3>1, StutterTransport
    <2> QED
      BY <1>1, <2>1, InitCallStep, DestroyCallStep, DeclarePublisherStep, DeclareSubscriberStep,
         UndeclarePublisherStep, UndeclareSubscriberStep, PublishStep, TeardownUndeclareStep,
         TeardownCloseStep DEF UserNext
  <1> QED
    BY <1>1, ReceiveStep, StutterTransport DEF Next

(* For any users that keep the header's contract and any pool sizes: the    *)
(* reference count is exact, the session lives exactly as long as somebody  *)
(* is attached, held handles stay valid and exclusive, no put reaches an    *)
(* undeclared publisher, and a closed session leaves nothing behind.        *)
THEOREM TransportInvariant == Spec => []TransportInv
  BY InitTransportInv, NextTransportInv, PTL DEF Spec

(* publish checks in_use without transport_mutex; still no z_publisher_put  *)
(* runs on a publisher that destroy or undeclare_publisher has undeclared.  *)
THEOREM PutsAreSafe == Spec => []PutOnLivePublisher
  <1>1. TransportInv => PutOnLivePublisher
    BY DEF TransportInv
  <1> QED
    BY <1>1, TransportInvariant, PTL
===============================================================================
