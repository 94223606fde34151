---------------------------- MODULE TransportUsers ----------------------------
(***************************************************************************)
(* Users of the transport that keep the contract of zenoh_transport.h:     *)
(* each has a thread that takes a reference, declares at most one          *)
(* publisher and one subscriber, publishes, and balances its successful    *)
(* init with one destroy, after which it forgets its handles.  A user need *)
(* not undeclare before it destroys: ZenbeddedClient never does.           *)
(***************************************************************************)
EXTENDS Transport, FiniteSets

CONSTANT Users

ASSUME UsersAssumption == IsFiniteSet(Users) /\ NoOne \notin Users

VARIABLES
  state,    \* per user: "detached", "attached", "destroying"
  hpub,     \* per user: its publisher handle or Null
  hsub,     \* per user: its subscriber handle or Null
  putting   \* per user: between publish's check of in_use and the put

userVars == <<state, hpub, hsub, putting>>
vars == <<transportVars, userVars>>

Attached == {u \in Users : state[u] = "attached"}

TypeOK ==
  /\ TransportTypeOK(Users, Users)
  /\ state \in [Users -> {"detached", "attached", "destroying"}]
  /\ hpub \in [Users -> PubSlots \cup {Null}]
  /\ hsub \in [Users -> SubSlots \cup {Null}]
  /\ putting \in [Users -> BOOLEAN]

Init ==
  /\ TransportInit
  /\ state = [u \in Users |-> "detached"]
  /\ hpub = [u \in Users |-> Null]
  /\ hsub = [u \in Users |-> Null]
  /\ putting = [u \in Users |-> FALSE]

Become(u, s) == state' = [state EXCEPT ![u] = s]

-------------------------------------------------------------------------------
InitCall(u) ==
  /\ state[u] = "detached"
  /\ \/ transport_init(u, TRUE) /\ Become(u, "attached")
     \/ transport_init(u, FALSE) /\ UNCHANGED state
  /\ UNCHANGED <<hpub, hsub, putting>>

DeclarePublisher(u) ==
  /\ state[u] = "attached" /\ hpub[u] = Null
  /\ \E h \in PubSlots \cup {Null} :
       declare_publisher(u, h) /\ hpub' = [hpub EXCEPT ![u] = h]
  /\ UNCHANGED <<state, hsub, putting>>

DeclareSubscriber(u) ==
  /\ state[u] = "attached" /\ hsub[u] = Null
  /\ \E h \in SubSlots \cup {Null} :
       declare_subscriber(u, u, h) /\ hsub' = [hsub EXCEPT ![u] = h]
  /\ UNCHANGED <<state, hpub, putting>>

UndeclarePublisher(u) ==
  /\ state[u] = "attached" /\ hpub[u] # Null /\ ~putting[u]
  /\ undeclare_publisher(u, hpub[u])
  /\ hpub' = [hpub EXCEPT ![u] = Null]
  /\ UNCHANGED <<state, hsub, putting>>

UndeclareSubscriber(u) ==
  /\ state[u] = "attached" /\ hsub[u] # Null
  /\ undeclare_subscriber(u, hsub[u])
  /\ hsub' = [hsub EXCEPT ![u] = Null]
  /\ UNCHANGED <<state, hpub, putting>>

\* publish: -1 when the handle is null or its slot not in use.
PublishCheck(u) ==
  /\ state[u] = "attached" /\ ~putting[u]
  /\ PublishAccepts(hpub[u])
  /\ putting' = [putting EXCEPT ![u] = TRUE]
  /\ UNCHANGED <<transportVars, state, hpub, hsub>>

PublishPut(u) ==
  /\ putting[u]
  /\ putting' = [putting EXCEPT ![u] = FALSE]
  /\ UNCHANGED <<transportVars, state, hpub, hsub>>

ForgetHandles(u) ==
  /\ hpub' = [hpub EXCEPT ![u] = Null]
  /\ hsub' = [hsub EXCEPT ![u] = Null]
  /\ UNCHANGED putting

DestroyCall(u) ==
  /\ state[u] = "attached" /\ ~putting[u]
  /\ \/ destroy_release(u) /\ Become(u, "detached")
     \/ destroy_last(u) /\ Become(u, "destroying")
  /\ ForgetHandles(u)

\* A destroy that nothing balances, by a user without a reference: the
\* contract promises that it is ignored when there is no session.
SpuriousDestroy(u) ==
  /\ state[u] = "detached" /\ ~is_initialized
  /\ destroy_release(u)
  /\ UNCHANGED userVars

TeardownUndeclare(u) ==
  /\ state[u] = "destroying"
  /\ destroy_undeclare(u)
  /\ UNCHANGED userVars

TeardownClose(u) ==
  /\ state[u] = "destroying"
  /\ destroy_close(u)
  /\ Become(u, "detached")
  /\ UNCHANGED <<hpub, hsub, putting>>

ReceiveSample == (\E i \in SubSlots : rx_dispatch(i)) /\ UNCHANGED userVars
HandlerDone == rx_done /\ UNCHANGED userVars

UserNext(u) ==
  \/ InitCall(u) \/ DestroyCall(u) \/ SpuriousDestroy(u)
  \/ DeclarePublisher(u) \/ DeclareSubscriber(u)
  \/ UndeclarePublisher(u) \/ UndeclareSubscriber(u)
  \/ PublishCheck(u) \/ PublishPut(u)
  \/ TeardownUndeclare(u) \/ TeardownClose(u)

Next == (\E u \in Users : UserNext(u)) \/ ReceiveSample \/ HandlerDone

(* A thread inside destroy goes on (its loops and Zenoh's close return),   *)
(* and so does the read task inside a handler: no user callback blocks.    *)
Fairness ==
  /\ \A u \in Users : WF_vars(TeardownUndeclare(u)) /\ WF_vars(TeardownClose(u))
  /\ WF_vars(HandlerDone)

Spec == Init /\ [][Next]_vars
FairSpec == Spec /\ Fairness

-------------------------------------------------------------------------------
(* transport_ref_count is the number of users whose init is not balanced    *)
(* yet: no call loses or doubles a reference.                               *)
RefCountExact == transport_ref_count = Cardinality(Attached)

(* Who is attached has a session: it is never closed under a user, whatever *)
(* the others do, and outside a teardown it is open only for somebody.      *)
SessionForUsers ==
  /\ Attached # {} => is_initialized /\ session = "open" /\ mutex = NoOne
  /\ mutex = NoOne => (is_initialized <=> Attached # {})
  /\ is_initialized <=> session = "open"

(* A handle that a user still holds designates a declared entity, its own:  *)
(* no other user's calls release or reuse the slot under it.                *)
HandlesValid ==
  \A u \in Users :
    /\ hpub[u] # Null => pub_pool[hpub[u]].in_use /\ pub_pool[hpub[u]].live
    /\ hsub[u] # Null => /\ sub_pool[hsub[u]].in_use /\ sub_pool[hsub[u]].live
                         /\ sub_pool[hsub[u]].user_data = u
HandlesExclusive ==
  \A u, v \in Users : u # v /\ hpub[u] # Null => hpub[u] # hpub[v]

(* z_publisher_put never runs on an undeclared publisher, although publish  *)
(* checks in_use without the mutex.                                         *)
PutOnLivePublisher == \A u \in Users : putting[u] => hpub[u] # Null /\ pub_pool[hpub[u]].live

(* Nothing outlives the session: when it is closed both pools are free      *)
(* again and no receive handler runs.  An error path never keeps a slot.    *)
NothingOutlivesSession ==
  /\ session = "closed" => PubsInUse = {} /\ SubsInUse = {} /\ rx_slot = Null
  /\ \A i \in PubSlots : pub_pool[i].in_use <=> pub_pool[i].live
  /\ \A i \in SubSlots : sub_pool[i].in_use <=> sub_pool[i].live

(* The mutex that destroy keeps while it calls undeclare_* is given back:   *)
(* a teardown ends, nobody waits on anybody for ever.                       *)
TeardownEnds == mutex # NoOne ~> mutex = NoOne

(* The inductive invariant: the above, with who owns the mutex between two  *)
(* steps (the user in a teardown) and who may hold handles (the attached).  *)
MutexInTeardown == \A u \in Users : state[u] = "destroying" <=> mutex = u
HandlesOfAttached ==
  \A u \in Users : state[u] # "attached" => hpub[u] = Null /\ hsub[u] = Null /\ ~putting[u]
TransportInv ==
  /\ TypeOK /\ RefCountExact /\ SessionForUsers /\ HandlesValid /\ HandlesExclusive
  /\ PutOnLivePublisher /\ NothingOutlivesSession /\ MutexInTeardown /\ HandlesOfAttached
===============================================================================
