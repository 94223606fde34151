---------------------------- MODULE AtomicRegister ----------------------------
(***************************************************************************)
(* What a double buffer of zenbedded_rcl promises its users: a register    *)
(* that holds one whole payload.  A write takes effect at one instant, the *)
(* call to commit_write; a read returns the payload that the register      *)
(* holds at one instant between its call and its return.  Nothing is said  *)
(* of slots, of an active index or of a lock.                              *)
(***************************************************************************)
CONSTANTS Writers, Readers, Payloads, Blank, None

VARIABLES
  reg,      \* the payload in the register
  pending,  \* pending[w]: what w is writing, None outside a write
  got       \* got[r]: what the last read of r returned, None during a read

vars == <<reg, pending, got>>

Init ==
  /\ reg = Blank
  /\ pending = [w \in Writers |-> None]
  /\ got = [r \in Readers |-> None]

\* A write begins: the register still holds the previous payload.
BeginWrite(w) ==
  /\ pending[w] = None
  /\ \E p \in Payloads : pending' = [pending EXCEPT ![w] = p]
  /\ UNCHANGED <<reg, got>>

\* The write takes effect, whole.
EndWrite(w) ==
  /\ pending[w] # None
  /\ reg' = pending[w]
  /\ pending' = [pending EXCEPT ![w] = None]
  /\ UNCHANGED got

BeginRead(r) ==
  /\ got' = [got EXCEPT ![r] = None]
  /\ UNCHANGED <<reg, pending>>

\* The read takes effect and returns.
EndRead(r) ==
  /\ got[r] = None
  /\ got' = [got EXCEPT ![r] = reg]
  /\ UNCHANGED <<reg, pending>>

\* reset() blanks the register; nobody is writing.
Reset ==
  /\ \A w \in Writers : pending[w] = None
  /\ reg' = Blank
  /\ UNCHANGED <<pending, got>>

Next ==
  \/ \E w \in Writers : BeginWrite(w) \/ EndWrite(w)
  \/ \E r \in Readers : BeginRead(r) \/ EndRead(r)
  \/ Reset

Spec == Init /\ [][Next]_vars
===============================================================================
