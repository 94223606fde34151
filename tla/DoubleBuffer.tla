----------------------------- MODULE DoubleBuffer -----------------------------
(***************************************************************************)
(* DoubleByteBuffer<Capacity> and DoubleBuffer<T> of                       *)
(* zenbedded_rcl/double_buffer.hpp: two slots, an index of the active one  *)
(* and a Zephyr spinlock.  A writer takes the index of the inactive slot   *)
(* under the lock, fills the slot WITHOUT the lock, and flips the index    *)
(* under the lock.  A reader copies the active slot while it holds the     *)
(* lock.  The two memcpy are modelled word by word, so that a reader and   *)
(* a writer on another core (or an interrupted writer) interleave inside   *)
(* them.                                                                   *)
(*                                                                         *)
(* The state buffer of a client is written by the application thread and   *)
(* read by the control thread; the command buffer is written by the Zenoh  *)
(* read task and read by the application thread: one writer each.  The     *)
(* class itself does not enforce that, so Writers is a parameter and the   *)
(* theorems have SingleWriter as a hypothesis.                             *)
(***************************************************************************)
EXTENDS Naturals

CONSTANTS
  Writers, Readers,  \* the threads that call write and read_latest
  Values,            \* what distinguishes one payload from another
  Zero,              \* the payload memset leaves in a slot
  Capacity,          \* Capacity of the template, in words
  PayloadSize,       \* the size the callers pass, in words
  NoThread           \* "lock_ is free" / "no payload"

ASSUME ConstantsAssumption ==
  /\ Zero \in Values
  /\ Capacity \in Nat /\ PayloadSize \in Nat
  /\ NoThread \notin Readers

VARIABLES
  lock,        \* lock_: the reader inside read_latest's critical section
  active_idx,  \* active_idx_
  buffer,      \* buffer_: buffer[s][i] is word i of slot s
  wpc,         \* per writer: "idle", "prepare" (wants the lock), "fill"
  data,        \* per writer: the payload of the current call
  write_idx,   \* per writer: the local write_idx
  wtodo,       \* per writer: the words its memcpy has not stored yet
  rpc,         \* per reader: "idle", "lock" (wants it), "copy", "done"
  out,         \* per reader: the caller's buffer
  rtodo        \* per reader: the words its memcpy has not loaded yet

vars == <<lock, active_idx, buffer, wpc, data, write_idx, wtodo, rpc, out, rtodo>>
writerVars == <<wpc, data, write_idx, wtodo>>
readerVars == <<rpc, out, rtodo>>

Slots == {0, 1}
Words == 1..PayloadSize
Payload(v) == [i \in Words |-> v]
Payloads == {Payload(v) : v \in Values}

ASSUME NoThreadAssumption == NoThread \notin Payloads

\* Every thread but the two-step critical section of read_latest takes and
\* releases lock_ in one step: those sections are a single memory access.
LockFree == lock = NoThread

TypeOK ==
  /\ lock \in Readers \cup {NoThread}
  /\ active_idx \in Slots
  /\ buffer \in [Slots -> [Words -> Values]]
  /\ wpc \in [Writers -> {"idle", "prepare", "fill"}]
  /\ data \in [Writers -> Values]
  /\ write_idx \in [Writers -> Slots]
  /\ wtodo \in [Writers -> SUBSET Words]
  /\ rpc \in [Readers -> {"idle", "lock", "copy", "done"}]
  /\ out \in [Readers -> [Words -> Values]]
  /\ rtodo \in [Readers -> SUBSET Words]

Init ==
  /\ lock = NoThread
  /\ active_idx = 0
  /\ buffer = [s \in Slots |-> Payload(Zero)]
  /\ wpc = [w \in Writers |-> "idle"]
  /\ data = [w \in Writers |-> Zero]
  /\ write_idx = [w \in Writers |-> 0]
  /\ wtodo = [w \in Writers |-> {}]
  /\ rpc = [r \in Readers |-> "idle"]
  /\ out = [r \in Readers |-> Payload(Zero)]
  /\ rtodo = [r \in Readers |-> {}]

-------------------------------------------------------------------------------
(* reset, called by reset_buffers() from the constructor and from init(),   *)
(* before the subscription exists and while write_state() returns early: no *)
(* write is in progress.  Nothing in the class sees to that, it is assumed  *)
(* of its one client, whose init and write_state run in one thread.         *)
Reset ==
  /\ LockFree
  /\ \A w \in Writers : wpc[w] = "idle"
  /\ active_idx' = 0
  /\ buffer' = [s \in Slots |-> Payload(Zero)]
  /\ UNCHANGED <<lock, writerVars, readerVars>>

(* write(data, size), or write_state() around prepare_write/commit_write.   *)
(* An oversized payload makes the call return false at once.                *)
Write(w) ==
  /\ wpc[w] = "idle"
  /\ PayloadSize <= Capacity
  /\ \E v \in Values : data' = [data EXCEPT ![w] = v]
  /\ wpc' = [wpc EXCEPT ![w] = "prepare"]
  /\ UNCHANGED <<lock, active_idx, buffer, write_idx, wtodo, readerVars>>

PrepareWriteInto(w, idx) ==
  /\ wpc[w] = "prepare"
  /\ LockFree
  /\ write_idx' = [write_idx EXCEPT ![w] = idx]
  /\ wtodo' = [wtodo EXCEPT ![w] = Words]
  /\ wpc' = [wpc EXCEPT ![w] = "fill"]
  /\ UNCHANGED <<lock, active_idx, buffer, data, readerVars>>

PrepareWrite(w) == PrepareWriteInto(w, 1 - active_idx)

\* One word of the memcpy (or of StateCodec::write) into the slot: no lock.
StoreWord(w) ==
  /\ wpc[w] = "fill"
  /\ \E i \in wtodo[w] :
       /\ buffer' = [buffer EXCEPT ![write_idx[w]][i] = data[w]]
       /\ wtodo' = [wtodo EXCEPT ![w] = @ \ {i}]
  /\ UNCHANGED <<lock, active_idx, wpc, data, write_idx, readerVars>>

Flip(w) ==
  /\ wpc[w] = "fill"
  /\ active_idx' = write_idx[w]
  /\ wpc' = [wpc EXCEPT ![w] = "idle"]
  /\ UNCHANGED <<lock, buffer, data, write_idx, wtodo, readerVars>>

\* Faulty variant: a flip without lock_.
CommitWriteUnlocked(w) == wtodo[w] = {} /\ Flip(w)

CommitWrite(w) == wtodo[w] = {} /\ LockFree /\ Flip(w)

-------------------------------------------------------------------------------
\* read_latest(out, size): an oversized request returns false at once.
ReadLatest(r) ==
  /\ rpc[r] \in {"idle", "done"}
  /\ PayloadSize <= Capacity
  /\ rpc' = [rpc EXCEPT ![r] = "lock"]
  /\ UNCHANGED <<lock, active_idx, buffer, writerVars, out, rtodo>>

AcquireLock(r) ==
  /\ rpc[r] = "lock"
  /\ LockFree
  /\ lock' = r
  /\ rtodo' = [rtodo EXCEPT ![r] = Words]
  /\ rpc' = [rpc EXCEPT ![r] = "copy"]
  /\ UNCHANGED <<active_idx, buffer, writerVars, out>>

\* One word of the memcpy out of the active slot, under the lock.
LoadWord(r) ==
  /\ rpc[r] = "copy"
  /\ \E i \in rtodo[r] :
       /\ out' = [out EXCEPT ![r][i] = buffer[active_idx][i]]
       /\ rtodo' = [rtodo EXCEPT ![r] = @ \ {i}]
  /\ UNCHANGED <<lock, active_idx, buffer, writerVars, rpc>>

ReleaseLock(r) ==
  /\ rpc[r] = "copy"
  /\ rtodo[r] = {}
  /\ lock' = NoThread
  /\ rpc' = [rpc EXCEPT ![r] = "done"]
  /\ UNCHANGED <<active_idx, buffer, writerVars, out, rtodo>>

WriterNext(w) == Write(w) \/ PrepareWrite(w) \/ StoreWord(w) \/ CommitWrite(w)
ReaderNext(r) == ReadLatest(r) \/ AcquireLock(r) \/ LoadWord(r) \/ ReleaseLock(r)

Next ==
  \/ \E w \in Writers : WriterNext(w)
  \/ \E r \in Readers : ReaderNext(r)
  \/ Reset

Spec == Init /\ [][Next]_vars

-------------------------------------------------------------------------------
(* No torn read: what read_latest hands to its caller is one payload, every *)
(* word of it, never the words of two writes.                               *)
NoTornRead == \A r \in Readers : rpc[r] = "done" => out[r] \in Payloads

(* No data race: the slot that a writer fills without the lock is never the *)
(* slot that a reader may be copying.                                       *)
SlotsDisjoint == \A w \in Writers : wpc[w] = "fill" => write_idx[w] # active_idx

(* Implementation: the buffer is an atomic register whose content is the    *)
(* active slot; a write takes effect at commit_write, a read at the release *)
(* of the lock.                                                             *)
Register == INSTANCE AtomicRegister WITH
  Blank <- Payload(Zero),
  None <- NoThread,
  reg <- buffer[active_idx],
  pending <- [w \in Writers |-> IF wpc[w] = "idle" THEN NoThread ELSE Payload(data[w])],
  got <- [r \in Readers |-> IF rpc[r] = "done" THEN out[r] ELSE NoThread]

ImplementsRegister == Register!Spec

SingleWriter == \A v, w \in Writers : v = w

(* The strengthening of NoTornRead that is inductive. *)
LockHeld == \A r \in Readers : rpc[r] = "copy" <=> lock = r
FilledSoFar ==
  \A w \in Writers : wpc[w] = "fill" =>
    \A i \in Words \ wtodo[w] : buffer[write_idx[w]][i] = data[w]
CopiedSoFar ==
  \A r \in Readers : rpc[r] = "copy" =>
    \A i \in Words \ rtodo[r] : out[r][i] = buffer[active_idx][i]
ActiveWhole == buffer[active_idx] \in Payloads

(* The inductive invariant: the holder of lock_ is the reader that copies,  *)
(* the active slot holds one whole payload, and what a memcpy has moved so  *)
(* far is what it was given.                                                *)
BufferInv ==
  /\ TypeOK /\ LockHeld /\ SlotsDisjoint /\ FilledSoFar
  /\ CopiedSoFar /\ ActiveWhole /\ NoTornRead
===============================================================================
