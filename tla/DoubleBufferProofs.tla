-------------------------- MODULE DoubleBufferProofs --------------------------
(***************************************************************************)
(* Proofs about DoubleBuffer for any threads, payloads and sizes: with at  *)
(* most one writer no read is torn, and the buffer implements an atomic    *)
(* register.  The one fact a reader of double_buffer.hpp has to see is     *)
(* SlotsDisjoint: between prepare_write and commit_write nobody else can   *)
(* flip active_idx_, so the unlocked memcpy stays in the inactive slot.    *)
(***************************************************************************)
EXTENDS DoubleBuffer, TLAPS

LEMMA PayloadType == \A v \in Values : Payload(v) \in [Words -> Values] /\ Payload(v) \in Payloads
  BY DEF Payload, Payloads

LEMMA InitBufferInv == Init => BufferInv
  <1> SUFFICES ASSUME Init PROVE BufferInv
    OBVIOUS
  <1> USE ConstantsAssumption, PayloadType DEF Init
  <1>1. TypeOK
    BY DEF TypeOK, Slots
  <1>2. LockHeld /\ SlotsDisjoint /\ FilledSoFar /\ CopiedSoFar /\ NoTornRead
    BY DEF LockHeld, SlotsDisjoint, FilledSoFar, CopiedSoFar, NoTornRead
  <1>3. ActiveWhole
    BY DEF ActiveWhole, Slots
  <1> QED
    BY <1>1, <1>2, <1>3 DEF BufferInv

LEMMA WriterStep ==
  ASSUME SingleWriter, BufferInv, NEW w \in Writers, WriterNext(w)
  PROVE  BufferInv'
  <1> USE DEF BufferInv, TypeOK, readerVars, writerVars, LockFree
  <1>1. CASE Write(w)
    BY <1>1 DEF Write, LockHeld, SlotsDisjoint, FilledSoFar, CopiedSoFar, ActiveWhole, NoTornRead
  <1>2. CASE PrepareWrite(w)
    <2> USE <1>2 DEF PrepareWrite, PrepareWriteInto
    <2>1. TypeOK'
      BY DEF Slots
    <2>2. SlotsDisjoint'
      BY DEF SlotsDisjoint, Slots
    <2>3. FilledSoFar'
      BY DEF FilledSoFar
    <2>4. (LockHeld /\ CopiedSoFar /\ ActiveWhole /\ NoTornRead)'
      BY DEF LockHeld, CopiedSoFar, ActiveWhole, NoTornRead
    <2> QED
      BY <2>1, <2>2, <2>3, <2>4
  <1>3. CASE StoreWord(w)
    <2> USE <1>3 DEF StoreWord
    <2>0. PICK i \in wtodo[w] :
            /\ buffer' = [buffer EXCEPT ![write_idx[w]][i] = data[w]]
            /\ wtodo' = [wtodo EXCEPT ![w] = @ \ {i}]
      OBVIOUS
    <2>1. TypeOK'
      BY <2>0
    <2>2. SlotsDisjoint'
      BY DEF SlotsDisjoint
    <2>3. buffer'[active_idx'] = buffer[active_idx]
      BY <2>0 DEF SlotsDisjoint
    <2>4. FilledSoFar'
      <3> SUFFICES ASSUME NEW v \in Writers, wpc'[v] = "fill", NEW j \in Words \ wtodo'[v]
                   PROVE buffer'[write_idx'[v]][j] = data'[v]
        BY DEF FilledSoFar
      <3>1. v = w
        BY DEF SingleWriter
      <3> QED
        BY <2>0, <3>1 DEF FilledSoFar
    <2>5. CopiedSoFar' /\ ActiveWhole'
      <3> HIDE DEF TypeOK
      <3>1. UNCHANGED <<rpc, out, rtodo>>
        OBVIOUS
      <3> QED
        BY <2>3, <3>1 DEF CopiedSoFar, ActiveWhole
    <2>6. LockHeld' /\ NoTornRead'
      BY DEF LockHeld, NoTornRead
    <2> QED
      BY <2>1, <2>2, <2>4, <2>5, <2>6
  <1>4. CASE CommitWrite(w)
    <2> USE <1>4 DEF CommitWrite, Flip
    <2>1. TypeOK'
      OBVIOUS
    <2>2. SlotsDisjoint' /\ FilledSoFar'
      BY DEF SlotsDisjoint, FilledSoFar, SingleWriter
    <2>3. CopiedSoFar'
      BY ConstantsAssumption DEF CopiedSoFar, LockHeld
    <2>4. ActiveWhole'
      <3>1. \A i \in Words : buffer[write_idx[w]][i] = data[w]
        BY DEF FilledSoFar
      <3>2. buffer[write_idx[w]] = Payload(data[w])
        BY <3>1 DEF Payload
      <3> QED
        BY <3>2, PayloadType DEF ActiveWhole
    <2>5. LockHeld' /\ NoTornRead'
      BY DEF LockHeld, NoTornRead
    <2> QED
      BY <2>1, <2>2, <2>3, <2>4, <2>5
  <1> QED
    BY <1>1, <1>2, <1>3, <1>4 DEF WriterNext

\* What the reader holds at the end of its memcpy is the active slot.
LEMMA CopyComplete ==
  ASSUME BufferInv, NEW r \in Readers, rpc[r] = "copy", rtodo[r] = {}
  PROVE  out[r] = buffer[active_idx]
  <1>1. \A i \in Words : out[r][i] = buffer[active_idx][i]
    BY DEF BufferInv, CopiedSoFar
  <1> QED
    BY <1>1 DEF BufferInv, TypeOK

LEMMA ReaderStep ==
  ASSUME BufferInv, NEW r \in Readers, ReaderNext(r)
  PROVE  BufferInv'
  <1> USE DEF BufferInv, TypeOK, readerVars, writerVars, LockFree
  <1>1. CASE ReadLatest(r)
    BY <1>1 DEF ReadLatest, LockHeld, SlotsDisjoint, FilledSoFar, CopiedSoFar, ActiveWhole, NoTornRead
  <1>2. CASE AcquireLock(r)
    <2> USE <1>2 DEF AcquireLock
    <2>1. TypeOK'
      OBVIOUS
    <2>2. LockHeld'
      BY ConstantsAssumption DEF LockHeld
    <2>3. CopiedSoFar'
      BY DEF CopiedSoFar
    <2>4. (SlotsDisjoint /\ FilledSoFar /\ ActiveWhole /\ NoTornRead)'
      BY DEF SlotsDisjoint, FilledSoFar, ActiveWhole, NoTornRead
    <2> QED
      BY <2>1, <2>2, <2>3, <2>4
  <1>3. CASE LoadWord(r)
    <2> USE <1>3 DEF LoadWord
    <2>0. PICK i \in rtodo[r] :
            /\ out' = [out EXCEPT ![r][i] = buffer[active_idx][i]]
            /\ rtodo' = [rtodo EXCEPT ![r] = @ \ {i}]
      OBVIOUS
    <2>1. TypeOK'
      BY <2>0
    <2>2. CopiedSoFar'
      BY <2>0 DEF CopiedSoFar
    <2>3. NoTornRead'
      BY <2>0 DEF NoTornRead
    <2>4. (LockHeld /\ SlotsDisjoint /\ FilledSoFar /\ ActiveWhole)'
      BY DEF LockHeld, SlotsDisjoint, FilledSoFar, ActiveWhole
    <2> QED
      BY <2>1, <2>2, <2>3, <2>4
  <1>4. CASE ReleaseLock(r)
    <2> USE <1>4 DEF ReleaseLock
    <2>1. TypeOK'
      OBVIOUS
    <2>2. LockHeld'
      BY ConstantsAssumption DEF LockHeld
    <2>3. NoTornRead'
      BY CopyComplete DEF NoTornRead, ActiveWhole
    <2>4. (SlotsDisjoint /\ FilledSoFar /\ CopiedSoFar /\ ActiveWhole)'
      BY DEF SlotsDisjoint, FilledSoFar, CopiedSoFar, ActiveWhole
    <2> QED
      BY <2>1, <2>2, <2>3, <2>4
  <1> QED
    BY <1>1, <1>2, <1>3, <1>4 DEF ReaderNext

LEMMA ResetStep ==
  ASSUME BufferInv, Reset
  PROVE  BufferInv'
  <1> USE ConstantsAssumption, PayloadType DEF BufferInv, Reset, readerVars, writerVars, LockFree
  <1>1. TypeOK'
    BY DEF TypeOK, Slots
  <1>2. CopiedSoFar'
    BY DEF CopiedSoFar, LockHeld
  <1>3. ActiveWhole'
    BY DEF ActiveWhole, Slots
  <1>4. (LockHeld /\ SlotsDisjoint /\ FilledSoFar /\ NoTornRead)'
    BY DEF LockHeld, SlotsDisjoint, FilledSoFar, NoTornRead
  <1> QED
    BY <1>1, <1>2, <1>3, <1>4

LEMMA StutterStep ==
  ASSUME BufferInv, UNCHANGED vars
  PROVE  BufferInv'
  BY DEF BufferInv, vars, TypeOK, LockHeld, SlotsDisjoint, FilledSoFar, CopiedSoFar,
         ActiveWhole, NoTornRead

LEMMA NextBufferInv ==
  ASSUME SingleWriter PROVE BufferInv /\ [Next]_vars => BufferInv'
  BY WriterStep, ReaderStep, ResetStep, StutterStep DEF Next

(* With one writer the inductive invariant holds in every reachable state:  *)
(* in particular no read_latest returns a torn payload, and the unlocked    *)
(* memcpy of a write never touches the active slot.                         *)
THEOREM BufferInvariant == ASSUME SingleWriter PROVE Spec => []BufferInv
  BY InitBufferInv, NextBufferInv, PTL DEF Spec

(* No torn reads, for any number of readers, any payload size and any       *)
(* interleaving of the word copies of double_buffer.hpp.                    *)
THEOREM NoTornReads == ASSUME SingleWriter PROVE Spec => []NoTornRead
  <1>1. BufferInv => NoTornRead
    BY DEF BufferInv
  <1> QED
    BY <1>1, BufferInvariant, PTL

-------------------------------------------------------------------------------
(* Implementation of the atomic register. *)
LEMMA InitRefines == Init => Register!Init
  BY ConstantsAssumption DEF Init, Register!Init, Slots

LEMMA WriterRefines ==
  ASSUME SingleWriter, BufferInv, NEW w \in Writers, WriterNext(w)
  PROVE  [Register!Next]_(Register!vars)
  <1> USE DEF BufferInv, TypeOK, readerVars, writerVars, LockFree
  <1>1. CASE Write(w)
    <2>1. PICK v \in Values : data' = [data EXCEPT ![w] = v]
      BY <1>1 DEF Write
    <2>2. Payload(v) \in Payloads
      BY PayloadType
    <2>3. Register!BeginWrite(w)
      BY <1>1, <2>1, <2>2 DEF Write, Register!BeginWrite
    <2> QED
      BY <2>3 DEF Register!Next
  <1>2. CASE PrepareWrite(w)
    <2>1. UNCHANGED <<buffer, active_idx, data, rpc, out>>
      BY <1>2 DEF PrepareWrite, PrepareWriteInto
    <2>2. \A v \in Writers : (wpc'[v] = "idle") <=> (wpc[v] = "idle")
      BY <1>2 DEF PrepareWrite, PrepareWriteInto
    <2> QED
      BY <2>1, <2>2 DEF Register!vars
  <1>3. CASE StoreWord(w)
    <2>1. UNCHANGED <<active_idx, wpc, data, rpc, out>>
      BY <1>3 DEF StoreWord
    <2>2. buffer'[active_idx] = buffer[active_idx]
      BY <1>3 DEF StoreWord, SlotsDisjoint
    <2> QED
      BY <2>1, <2>2 DEF Register!vars
  <1>4. CASE CommitWrite(w)
    <2>1. \A i \in Words : buffer[write_idx[w]][i] = data[w]
      BY <1>4 DEF CommitWrite, Flip, FilledSoFar
    <2>2. buffer[write_idx[w]] = Payload(data[w])
      BY <2>1 DEF Payload
    <2>3. Payload(data[w]) # NoThread
      BY PayloadType, NoThreadAssumption
    <2>4. Register!EndWrite(w)
      BY <1>4, <2>2, <2>3 DEF CommitWrite, Flip, Register!EndWrite
    <2> QED
      BY <2>4 DEF Register!Next
  <1> QED
    BY <1>1, <1>2, <1>3, <1>4 DEF WriterNext

LEMMA ReaderRefines ==
  ASSUME BufferInv, NEW r \in Readers, ReaderNext(r)
  PROVE  [Register!Next]_(Register!vars)
  <1> USE DEF BufferInv, TypeOK, readerVars, writerVars, LockFree
  <1>1. CASE ReadLatest(r)
    <2>1. Register!BeginRead(r)
      BY <1>1 DEF ReadLatest, Register!BeginRead
    <2> QED
      BY <2>1 DEF Register!Next
  <1>2. CASE AcquireLock(r)
    BY <1>2 DEF AcquireLock, Register!vars
  <1>3. CASE LoadWord(r)
    <2>1. UNCHANGED <<buffer, active_idx, wpc, data, rpc>>
      BY <1>3 DEF LoadWord
    <2>2. \A q \in Readers : rpc[q] = "done" => out'[q] = out[q]
      BY <1>3 DEF LoadWord
    <2> QED
      BY <2>1, <2>2 DEF Register!vars
  <1>4. CASE ReleaseLock(r)
    <2>1. out[r] = buffer[active_idx]
      BY <1>4, CopyComplete DEF ReleaseLock
    <2>2. Register!EndRead(r)
      BY <1>4, <2>1 DEF ReleaseLock, Register!EndRead
    <2> QED
      BY <2>2 DEF Register!Next
  <1> QED
    BY <1>1, <1>2, <1>3, <1>4 DEF ReaderNext

LEMMA ResetRefines ==
  ASSUME BufferInv, Reset
  PROVE  [Register!Next]_(Register!vars)
  <1>1. Register!Reset
    BY DEF Reset, Register!Reset, Slots, readerVars, writerVars
  <1> QED
    BY <1>1 DEF Register!Next

(* With one writer, every behaviour of double_buffer.hpp is one of an atomic *)
(* register: a write takes effect whole at commit_write, and read_latest     *)
(* returns the payload that is current at an instant of the call.            *)
THEOREM Implementation == ASSUME SingleWriter PROVE Spec => ImplementsRegister
  <1>1. ASSUME BufferInv, [Next]_vars PROVE [Register!Next]_(Register!vars)
    <2>1. CASE UNCHANGED vars
      BY <2>1 DEF vars, Register!vars
    <2> QED
      BY <1>1, <2>1, WriterRefines, ReaderRefines, ResetRefines DEF Next
  <1> QED
    BY <1>1, InitRefines, BufferInvariant, PTL DEF Spec, ImplementsRegister, Register!Spec
===============================================================================
