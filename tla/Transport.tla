------------------------------- MODULE Transport -------------------------------
(***************************************************************************)
(* zenbedded_transport/src/zenoh_transport.c: one Zenoh session for the    *)
(* whole image, counted by reference, with two static pools of publishers  *)
(* and subscribers.  Every call but publish and the receive handler takes  *)
(* transport_mutex, a reentrant k_mutex, for its whole duration: such a    *)
(* call is one step, except the teardown, whose steps are seen by the two  *)
(* that do not take the mutex.                                             *)
(*                                                                         *)
(* The actions have no specification of their own: TransportUsers and      *)
(* Client say who calls them.  An argument t is the calling thread, h or   *)
(* ok what the call returns.                                               *)
(***************************************************************************)
EXTENDS Naturals

CONSTANTS
  MaxPublishers,   \* CONFIG_ZENBEDDED_MAX_PUBLISHERS
  MaxSubscribers,  \* CONFIG_ZENBEDDED_MAX_SUBSCRIBERS
  NoOne            \* "the mutex is free" / a null user_data

ASSUME PoolsAssumption == MaxPublishers \in Nat /\ MaxSubscribers \in Nat

VARIABLES
  mutex,                \* owner of transport_mutex between two steps
  is_initialized,
  transport_ref_count,
  session,              \* z_session and its tasks: "open" or "closed"
  pub_pool,             \* in_use: the flag; live: z_pub is declared
  sub_pool,             \* the same, and user_data
  rx_slot,              \* the subscriber whose handler runs, Null if none
  rx_for                \* the user_data of that subscriber at the dispatch

transportVars ==
  <<mutex, is_initialized, transport_ref_count, session, pub_pool, sub_pool, rx_slot, rx_for>>
sessionVars == <<mutex, is_initialized, transport_ref_count, session>>
rxVars == <<rx_slot, rx_for>>

Null == 0
PubSlots == 1..MaxPublishers
SubSlots == 1..MaxSubscribers

FreePub == [in_use |-> FALSE, live |-> FALSE]
FreeSub(d) == [in_use |-> FALSE, live |-> FALSE, user_data |-> d]

TransportTypeOK(Threads, Data) ==
  /\ mutex \in Threads \cup {NoOne}
  /\ is_initialized \in BOOLEAN
  /\ transport_ref_count \in Nat
  /\ session \in {"open", "closed"}
  /\ pub_pool \in [PubSlots -> [in_use : BOOLEAN, live : BOOLEAN]]
  /\ sub_pool \in [SubSlots -> [in_use : BOOLEAN, live : BOOLEAN, user_data : Data \cup {NoOne}]]
  /\ rx_slot \in SubSlots \cup {Null}
  /\ rx_for \in Data \cup {NoOne}

TransportInit ==
  /\ mutex = NoOne
  /\ is_initialized = FALSE
  /\ transport_ref_count = 0
  /\ session = "closed"
  /\ pub_pool = [i \in PubSlots |-> FreePub]
  /\ sub_pool = [i \in SubSlots |-> FreeSub(NoOne)]
  /\ rx_slot = Null
  /\ rx_for = NoOne

\* k_mutex_lock: a k_mutex may be locked again by its owner.
MutexNotReentrant(t) == mutex = NoOne
CanLock(t) == mutex \in {NoOne, t}

PubsInUse == {i \in PubSlots : pub_pool[i].in_use}
SubsInUse == {i \in SubSlots : sub_pool[i].in_use}
IsLowest(i, S) == i \in S /\ \A j \in S : i <= j

-------------------------------------------------------------------------------
\* zenbedded_transport_init: a further reference, or z_open and its outcome.
transport_init(t, ok) ==
  /\ CanLock(t)
  /\ IF is_initialized
     THEN /\ ok
          /\ transport_ref_count' = transport_ref_count + 1
          /\ UNCHANGED <<is_initialized, session>>
     ELSE IF ok
     THEN /\ session' = "open"
          /\ is_initialized' = TRUE
          /\ transport_ref_count' = 1
     ELSE UNCHANGED <<is_initialized, session, transport_ref_count>>
  /\ UNCHANGED <<mutex, pub_pool, sub_pool, rxVars>>

\* Faulty variant: an error path of declare_publisher that keeps the slot.
declare_publisher_leak(t, h) ==
  /\ CanLock(t)
  /\ \/ h = Null /\ (~is_initialized \/ PubsInUse = PubSlots) /\ UNCHANGED pub_pool
     \/ /\ is_initialized
        /\ \E i \in PubSlots :
             /\ IsLowest(i, PubSlots \ PubsInUse)
             /\ h \in {i, Null}
             /\ pub_pool' = [pub_pool EXCEPT ![i] = [in_use |-> TRUE, live |-> h = i]]
  /\ UNCHANGED <<sessionVars, sub_pool, rxVars>>

\* Null without a session, without a free slot, for a type that is unknown
\* (Tier 1), or when Zenoh refuses: the slot is released again.
declare_publisher(t, h) ==
  /\ CanLock(t)
  /\ \/ h = Null /\ UNCHANGED pub_pool
     \/ /\ is_initialized
        /\ IsLowest(h, PubSlots \ PubsInUse)
        /\ pub_pool' = [pub_pool EXCEPT ![h] = [in_use |-> TRUE, live |-> TRUE]]
  /\ UNCHANGED <<sessionVars, sub_pool, rxVars>>

\* The same; user_data is stored before the error paths and stays there.
declare_subscriber(t, data, h) ==
  /\ CanLock(t)
  /\ \/ /\ h = Null
        /\ ~is_initialized \/ SubsInUse = SubSlots
        /\ UNCHANGED sub_pool
     \/ /\ is_initialized
        /\ \E i \in SubSlots :
             /\ IsLowest(i, SubSlots \ SubsInUse)
             /\ h \in {i, Null}
             /\ sub_pool' = [sub_pool EXCEPT ![i] =
                  [in_use |-> h = i, live |-> h = i, user_data |-> data]]
  /\ UNCHANGED <<sessionVars, pub_pool, rxVars>>

\* undeclare_*: -EINVAL, and no effect, for a slot that is not in use.
undeclare_publisher(t, i) ==
  /\ CanLock(t)
  /\ pub_pool' = IF is_initialized /\ i \in PubsInUse
                 THEN [pub_pool EXCEPT ![i] = FreePub] ELSE pub_pool
  /\ UNCHANGED <<sessionVars, sub_pool, rxVars>>

undeclare_subscriber(t, i) ==
  /\ CanLock(t)
  /\ sub_pool' = IF is_initialized /\ i \in SubsInUse
                 THEN [sub_pool EXCEPT ![i] = FreeSub(@.user_data)] ELSE sub_pool
  /\ UNCHANGED <<sessionVars, pub_pool, rxVars>>

-------------------------------------------------------------------------------
\* zenbedded_transport_destroy, first part: a call that is not the last one.
destroy_release(t) ==
  /\ CanLock(t)
  /\ IF ~is_initialized \/ transport_ref_count = 0
     THEN UNCHANGED transport_ref_count
     ELSE /\ transport_ref_count > 1
          /\ transport_ref_count' = transport_ref_count - 1
  /\ UNCHANGED <<mutex, is_initialized, session, pub_pool, sub_pool, rxVars>>

EnterTeardown(t) ==
  /\ mutex' = t
  /\ transport_ref_count' = transport_ref_count - 1
  /\ UNCHANGED <<is_initialized, session, pub_pool, sub_pool, rxVars>>

\* The last reference: the mutex is kept for the whole teardown.
destroy_last(t) ==
  CanLock(t) /\ is_initialized /\ transport_ref_count = 1 /\ EnterTeardown(t)

\* The two loops of the teardown, each turn a nested undeclare call.
destroy_undeclare(t) ==
  /\ mutex = t
  /\ \/ \E i \in PubSlots : IsLowest(i, PubsInUse) /\ undeclare_publisher(t, i)
     \/ /\ PubsInUse = {}
        /\ \E i \in SubSlots : IsLowest(i, SubsInUse) /\ undeclare_subscriber(t, i)

Close(t) ==
  /\ mutex = t
  /\ session' = "closed"
  /\ is_initialized' = FALSE
  /\ mutex' = NoOne
  /\ UNCHANGED <<transport_ref_count, pub_pool, sub_pool, rxVars>>

\* Faulty variants: subscribers left declared; a read task that is not joined.
destroy_close_early(t) == PubsInUse = {} /\ rx_slot = Null /\ Close(t)
destroy_close_unjoined(t) == PubsInUse = {} /\ SubsInUse = {} /\ Close(t)

\* z_close joins the read task: no handler is running when it returns.
destroy_close(t) == PubsInUse = {} /\ SubsInUse = {} /\ rx_slot = Null /\ Close(t)

-------------------------------------------------------------------------------
(* The Zenoh read task, one thread.  It looks the subscription up, then    *)
(* runs internal_sub_handler, outside Zenoh's lock and outside the mutex.  *)
rx_dispatch(i) ==
  /\ session = "open" /\ rx_slot = Null
  /\ sub_pool[i].live
  /\ rx_slot' = i
  /\ rx_for' = sub_pool[i].user_data
  /\ UNCHANGED <<sessionVars, pub_pool, sub_pool>>

\* The handler ends: an empty or oversized sample is dropped, any other one
\* was given to user_cb with the slot's present user_data.
rx_done ==
  /\ rx_slot # Null
  /\ rx_slot' = Null
  /\ rx_for' = NoOne
  /\ UNCHANGED <<sessionVars, pub_pool, sub_pool>>

\* publish looks at in_use without the mutex; z_publisher_put comes later.
PublishAccepts(h) == h # Null /\ pub_pool[h].in_use
===============================================================================
