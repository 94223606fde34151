------------------------- MODULE PendulumTier1Proofs -------------------------
(***************************************************************************)
(* Tier 1, for every value of the constants.  First the watchdog of its    *)
(* loop; then the CDR messages: what the client publishes is the encoding  *)
(* of a JointState, and a JointCommand is read as it was sent, whatever    *)
(* the strings, the number of joints and the history of calls are.         *)
(***************************************************************************)
EXTENDS PendulumTier1, JointCdr, WellFoundedInduction, TLAPS

-------------------------------------------------------------------------------
(* The watchdog.                                                            *)

LEMMA InitTier1Inv == Init => Tier1Inv
  <1> SUFFICES ASSUME Init PROVE Tier1Inv
    OBVIOUS
  <1> USE Tier1Assumption DEF Init
  <1>1. TypeOK
    <2>1. velocity \in Commands
      BY DEF Commands
    <2>2. burst \in 0..(CountModulus - 1) /\ stale \in 0..StaleCap
          /\ cycles_since_command \in 0..Timeout
      BY DEF StaleCap
    <2> QED
      BY <2>1, <2>2 DEF TypeOK
  <1>2. Counters
    BY DEF Counters, CountAhead
  <1>3. Staleness /\ Followed
    BY DEF Staleness, Behind, Followed
  <1> QED
    BY <1>1, <1>2, <1>3 DEF Tier1Inv

LEMMA ReadTaskStep ==
  ASSUME Tier1Inv, StoreCommand \/ CountCommand \/ HostGone
  PROVE  Tier1Inv'
  <1> USE Tier1Assumption DEF Tier1Inv, loopVars, historyVars
  <1>1. CASE StoreCommand
    <2>1. TypeOK'
      BY <1>1 DEF StoreCommand, TypeOK
    <2>2. Counters'
      BY <1>1 DEF StoreCommand, Counters, CountAhead
    <2>3. Staleness' /\ Followed'
      BY <1>1 DEF StoreCommand, Staleness, Behind, Followed
    <2> QED
      BY <2>1, <2>2, <2>3
  <1>2. CASE CountCommand
    <2>1. TypeOK'
      BY <1>2 DEF CountCommand, TypeOK, Successor, Counters
    <2>2. Counters'
      BY <1>2 DEF CountCommand, Counters, CountAhead, Successor, TypeOK
    <2>3. Staleness' /\ Followed'
      BY <1>2 DEF CountCommand, Staleness, Behind, Followed, TypeOK
    <2> QED
      BY <2>1, <2>2, <2>3
  <1>3. CASE HostGone
    BY <1>3 DEF HostGone, TypeOK, Counters, CountAhead, Staleness, Behind, Followed
  <1> QED
    BY <1>1, <1>2, <1>3

LEMMA SampleStep ==
  ASSUME Tier1Inv, SampleCount
  PROVE  Tier1Inv'
  <1> USE Tier1Assumption DEF Tier1Inv, SampleCount, hostVars
  <1>1. TypeOK'
    BY DEF TypeOK, StaleCap
  <1>2. Counters'
    BY DEF Counters, CountAhead, TypeOK, StaleCap
  <1>3. Staleness'
    BY DEF Staleness, Behind, TypeOK, StaleCap
  <1>4. Followed'
    BY DEF Followed, TypeOK, StaleCap
  <1> QED
    BY <1>1, <1>2, <1>3, <1>4

LEMMA DecideStep ==
  ASSUME Tier1Inv, Decide
  PROVE  Tier1Inv'
  <1> USE Tier1Assumption DEF Tier1Inv, InDecide, hostVars, historyVars
  <1>0. pc = "decide" /\ InDecide
    BY DEF Decide
  <1>1. CASE NewCommand
    <2>1. TypeOK'
      BY <1>0, <1>1 DEF NewCommand, TypeOK
    <2>2. Counters'
      BY <1>0, <1>1 DEF NewCommand, Counters, CountAhead
    <2>3. Staleness' /\ Followed'
      BY <1>0, <1>1 DEF NewCommand, Staleness, Behind, Followed, Counters, TypeOK
    <2> QED
      BY <2>1, <2>2, <2>3
  <1>2. CASE Waiting
    <2>1. TypeOK'
      BY <1>0, <1>2 DEF Waiting, TypeOK
    <2>2. Counters'
      BY <1>0, <1>2 DEF Waiting, Counters, CountAhead
    <2>3. Staleness' /\ Followed'
      BY <1>0, <1>2 DEF Waiting, Staleness, Behind, Followed, Counters, TypeOK, StaleCap
    <2> QED
      BY <2>1, <2>2, <2>3
  <1>3. CASE TimedOut
    <2>1. TypeOK'
      BY <1>0, <1>3 DEF TimedOut, TypeOK, Commands
    <2>2. Counters'
      BY <1>0, <1>3 DEF TimedOut, Counters, CountAhead
    <2>3. Staleness' /\ Followed'
      BY <1>0, <1>3 DEF TimedOut, Staleness, Behind, Followed, Counters, TypeOK, StaleCap
    <2> QED
      BY <2>1, <2>2, <2>3
  <1> QED
    BY <1>1, <1>2, <1>3 DEF Decide

LEMMA ReadAndDriveStep ==
  ASSUME Tier1Inv, ReadCommand \/ Drive
  PROVE  Tier1Inv'
  <1> USE Tier1Assumption DEF Tier1Inv, hostVars, loopVars, historyVars
  <1>1. CASE ReadCommand
    BY <1>1 DEF ReadCommand, TypeOK, Counters, CountAhead, Staleness, Behind, Followed
  <1>2. CASE Drive
    <2>1. motion' \in {"stopped", "moving"}
      BY <1>2 DEF Drive, StopStepper, RunStepper, DriverFails, TypeOK
    <2> QED
      BY <1>2, <2>1 DEF Drive, EndOfTurn, TypeOK, Counters, CountAhead, Staleness, Behind, Followed
  <1> QED
    BY <1>1, <1>2

LEMMA NextTier1Inv == Tier1Inv /\ [Next]_vars => Tier1Inv'
  <1>1. ASSUME Tier1Inv, UNCHANGED vars PROVE Tier1Inv'
    BY <1>1 DEF vars, hostVars, loopVars, historyVars, Tier1Inv, TypeOK, Counters, CountAhead,
       Staleness, Behind, Followed
  <1> QED
    BY <1>1, ReadTaskStep, SampleStep, DecideStep, ReadAndDriveStep DEF Next, Loop

(* Tier1Inv holds in every reachable state of the Tier 1 loop: the counter  *)
(* arithmetic modulo 2^32 and the staleness count are consistent.           *)
THEOREM Tier1Invariant == Spec => []Tier1Inv
  BY InitTier1Inv, NextTier1Inv, PTL DEF Spec

(* The watchdog is not late: after more than Timeout samples without a new  *)
(* command the velocity is zero, through wraps of the counter.              *)
THEOREM WatchdogStops == Spec => []StaleCommandStops
  <1>1. Tier1Inv => StaleCommandStops
    BY DEF Tier1Inv, Staleness, Behind, StaleCommandStops
  <1> QED
    BY <1>1, Tier1Invariant, PTL

(* Nor is it early: until then the loop follows the newest command.         *)
THEOREM WatchdogNotEarly == Spec => []NewestCommandFollowed
  <1>1. Tier1Inv => NewestCommandFollowed
    BY DEF Tier1Inv, Followed, NewestCommandFollowed
  <1> QED
    BY <1>1, Tier1Invariant, PTL

-------------------------------------------------------------------------------
(* The CDR messages.  Recursive functions over the strings and the doubles  *)
(* of a message are reasoned about by induction on the number of items: a   *)
(* set of numbers that has 0 and every successor is Nat, since < is         *)
(* well-founded.                                                            *)

LEMMA InductionSet ==
  ASSUME NEW S \in SUBSET Nat, 0 \in S, \A n \in S : n + 1 \in S
  PROVE  S = Nat
  <1> DEFINE T == Nat \ S
             R == OpToRel(<, Nat)
  <1> SUFFICES ASSUME T # {} PROVE FALSE
    OBVIOUS
  <1>1. PICK x \in T : \A y \in T : ~ (<<y, x>> \in R)
    BY NatLessThanWellFounded, WFMin, Zenon
  <1>2. x # 0 /\ x - 1 \in Nat /\ x - 1 < x
    OBVIOUS
  <1>3. <<x - 1, x>> \in R
    BY <1>2 DEF OpToRel
  <1>4. x - 1 \in S
    BY <1>1, <1>2, <1>3
  <1> QED
    BY <1>4

(* ALIGN_UP rounds up, counted from the end of the header, and so adds the  *)
(* padding that a primitive of 4 or 8 bytes needs.                          *)
LEMMA Padding ==
  ASSUME NEW size \in Nat, size >= CDR_HEADER_SIZE
  PROVE  /\ ALIGN_UP(size, 4) = size + ((-(size - CDR_HEADER_SIZE)) % 4)
         /\ ALIGN_UP(size, 8) = size + ((-(size - CDR_HEADER_SIZE)) % 8)
         /\ ALIGN_UP(size, 4) \in Nat /\ ALIGN_UP(size, 4) >= size
         /\ ALIGN_UP(size, 8) \in Nat /\ ALIGN_UP(size, 8) >= size
  <1>1. \A x \in Nat : ((x + 3) \div 4) * 4 = x + ((-x) % 4)
    OBVIOUS
  <1>2. \A x \in Nat : ((x + 7) \div 8) * 8 = x + ((-x) % 8)
    OBVIOUS
  <1>3. \A x \in Nat : (-x) % 4 \in Nat /\ (-x) % 8 \in Nat
    OBVIOUS
  <1>4. size - CDR_HEADER_SIZE \in Nat
    BY DEF CDR_HEADER_SIZE
  <1>5. /\ ((size - CDR_HEADER_SIZE + 4 - 1) \div 4) * 4
             = size - CDR_HEADER_SIZE + ((-(size - CDR_HEADER_SIZE)) % 4)
        /\ ((size - CDR_HEADER_SIZE + 8 - 1) \div 8) * 8
             = size - CDR_HEADER_SIZE + ((-(size - CDR_HEADER_SIZE)) % 8)
    BY <1>1, <1>2, <1>4 DEF CDR_HEADER_SIZE
  <1> QED
    BY <1>3, <1>4, <1>5 DEF ALIGN_UP, CDR_HEADER_SIZE

(* Doubles that follow an aligned offset need no padding.                   *)
LEMMA AlignedStays ==
  ASSUME NEW size \in Nat, size >= CDR_HEADER_SIZE, NEW k \in Nat
  PROVE  ALIGN_UP(ALIGN_UP(size, 8) + 8 * k, 8) = ALIGN_UP(size, 8) + 8 * k
  <1> DEFINE q == (size - CDR_HEADER_SIZE + 8 - 1) \div 8
  <1>1. q \in Int
    BY DEF CDR_HEADER_SIZE
  <1>2. ALIGN_UP(size, 8) = 4 + q * 8
    BY DEF ALIGN_UP, CDR_HEADER_SIZE
  <1> HIDE DEF q
  <1>3. (q * 8 + 8 * k + 8 - 1) \div 8 = q + k
    BY <1>1
  <1> QED
    BY <1>1, <1>2, <1>3 DEF ALIGN_UP, CDR_HEADER_SIZE

-------------------------------------------------------------------------------
(* Memories: what memcpy of an item and of an array of doubles does to      *)
(* them.                                                                    *)

Items == ({"header", "uint32"} \X Nat) \cup ({"chars"} \X Strings) \cup ({"double"} \X Doubles)
IsMemory(m) == DOMAIN m \in SUBSET Nat /\ m \in [DOMAIN m -> Items]
(* A message has a header, and every item ends before its size.             *)
IsMessage(m) ==
  /\ m = [size |-> m.size, memory |-> m.memory]
  /\ m.size \in Nat /\ m.size >= CDR_HEADER_SIZE
  /\ IsMemory(m.memory)
  /\ \A o \in DOMAIN m.memory : o + SizeOf(m.memory[o]) <= m.size

(* Where the doubles of an array are.                                       *)
Spot(offset, i) == offset + 8 * (i - 1)
Spots(offset, n) == {Spot(offset, i) : i \in 1..n}
(* A memory after the two integers of a stamp are written.                  *)
Stamped(memory, s) ==
  Put(Put(memory, CDR_HEADER_SIZE, <<"uint32", s>>), CDR_HEADER_SIZE + 4, <<"uint32", s>>)

(* Items have the sizes of CDR primitives.                                  *)
LEMMA ItemSizes ==
  /\ \A n \in Nat : <<"uint32", n>> \in Items /\ SizeOf(<<"uint32", n>>) = 4
  /\ SizeOf(<<"header", 0>>) = 4 /\ <<"header", 0>> \in Items
  /\ \A s \in Strings : /\ <<"chars", s>> \in Items /\ SizeOf(<<"chars", s>>) = CharsOf(s)
                        /\ CharsOf(s) \in Nat \ {0}
  /\ \A d \in Doubles : <<"double", d>> \in Items /\ SizeOf(<<"double", d>>) = 8
  /\ \A item \in Items : SizeOf(item) \in Nat \ {0}
  BY DEF Items, SizeOf, CharsOf, Strings

(* A memcpy keeps a memory one; the later of two to one place counts, two   *)
(* to different places commute, and zeros in a place that is zero change    *)
(* nothing.                                                                 *)
LEMMA PutIsMemory ==
  ASSUME NEW m, IsMemory(m), NEW o \in Nat, NEW item \in Items
  PROVE  IsMemory(Put(m, o, item))
  BY DEF Put, IsMemory

LEMMA PutTwice ==
  ASSUME NEW m, NEW o, NEW item, NEW item2
  PROVE  Put(Put(m, o, item), o, item2) = Put(m, o, item2)
  BY DEF Put

LEMMA PutsCommute ==
  ASSUME NEW m, NEW o, NEW o2, o # o2, NEW item, NEW item2
  PROVE  Put(Put(m, o, item), o2, item2) = Put(Put(m, o2, item2), o, item)
  BY DEF Put

LEMMA PutNothing ==
  ASSUME NEW m, IsMemory(m), NEW o, o \notin DOMAIN m,
         NEW item \in {<<"uint32", 0>>, <<"double", ZeroValue>>}
  PROVE  Put(m, o, item) = m
  BY DEF Put, IsMemory

(* write_state stamps again and again: only the last stamp counts.          *)
LEMMA StampedTwice ==
  ASSUME NEW m, NEW s, NEW s2
  PROVE  Stamped(Stamped(m, s), s2) = Stamped(m, s2)
  BY PutTwice, PutsCommute DEF Stamped, CDR_HEADER_SIZE

(* What is written behind the stamp does not touch it.                      *)
LEMMA PutAfterStamp ==
  ASSUME NEW m, NEW s, NEW o \in Nat, o >= CDR_HEADER_SIZE + 8, NEW item
  PROVE  Put(Stamped(m, s), o, item) = Stamped(Put(m, o, item), s)
  BY PutsCommute DEF Stamped, CDR_HEADER_SIZE

LEMMA DoublesIsFunction ==
  ASSUME NEW m, NEW offset, NEW values
  PROVE  PutDoubles(m, offset, values) =
           [q \in DOMAIN PutDoubles(m, offset, values) |-> PutDoubles(m, offset, values)[q]]
  BY DEF PutDoubles

(* PutDoubles item by item: inside the array ...                            *)
LEMMA DoublesInside ==
  ASSUME NEW m, NEW offset \in Nat, NEW values \in Seq(Doubles), NEW i \in 1..Len(values)
  PROVE  /\ Spot(offset, i) \in DOMAIN PutDoubles(m, offset, values) <=> values[i] # ZeroValue
         /\ Spot(offset, i) \in DOMAIN PutDoubles(m, offset, values) =>
              PutDoubles(m, offset, values)[Spot(offset, i)] = <<"double", values[i]>>
  <1> DEFINE At(j) == offset + 8 * (j - 1)
             n == Len(values)
             spots == {At(j) : j \in 1..n}
             zeros == {At(j) : j \in {k \in 1..n : values[k] = ZeroValue}}
             r == PutDoubles(m, offset, values)
  <1>1. r = [q \in (DOMAIN m \cup spots) \ zeros
               |-> IF q \in spots THEN <<"double", values[((q - offset) \div 8) + 1]>> ELSE m[q]]
    BY DEF PutDoubles
  <1>2. n \in Nat /\ At(i) \in spots
    OBVIOUS
  <1>3. ((At(i) - offset) \div 8) + 1 = i
    BY <1>2
  <1>4. At(i) \in zeros <=> values[i] = ZeroValue
    BY <1>2
  <1> HIDE DEF At, spots, zeros, r, n
  <1>5. /\ At(i) \in DOMAIN r <=> values[i] # ZeroValue
        /\ At(i) \in DOMAIN r => r[At(i)] = <<"double", values[i]>>
    BY <1>1, <1>2, <1>3, <1>4
  <1> QED
    BY <1>5 DEF r, At, Spot

LEMMA SameInside ==
  ASSUME NEW m, NEW m2, NEW offset \in Nat, NEW values \in Seq(Doubles),
         NEW q \in Spots(offset, Len(values))
  PROVE  /\ q \in DOMAIN PutDoubles(m, offset, values)
              <=> q \in DOMAIN PutDoubles(m2, offset, values)
         /\ q \in DOMAIN PutDoubles(m, offset, values) =>
              PutDoubles(m, offset, values)[q] = PutDoubles(m2, offset, values)[q]
  <1>1. PICK i \in 1..Len(values) : q = Spot(offset, i)
    BY DEF Spots
  <1>2. /\ q \in DOMAIN PutDoubles(m, offset, values) <=> values[i] # ZeroValue
        /\ q \in DOMAIN PutDoubles(m, offset, values) =>
             PutDoubles(m, offset, values)[q] = <<"double", values[i]>>
    BY <1>1, DoublesInside
  <1>3. /\ q \in DOMAIN PutDoubles(m2, offset, values) <=> values[i] # ZeroValue
        /\ q \in DOMAIN PutDoubles(m2, offset, values) =>
             PutDoubles(m2, offset, values)[q] = <<"double", values[i]>>
    BY <1>1, DoublesInside
  <1> QED
    BY <1>2, <1>3

(* ... and outside of it, where nothing changes.                            *)
LEMMA DoublesOutside ==
  ASSUME NEW m, NEW offset, NEW values, NEW q, q \notin Spots(offset, Len(values))
  PROVE  /\ q \in DOMAIN PutDoubles(m, offset, values) <=> q \in DOMAIN m
         /\ q \in DOMAIN PutDoubles(m, offset, values) => PutDoubles(m, offset, values)[q] = m[q]
  <1> DEFINE At(j) == offset + 8 * (j - 1)
             spots == {At(j) : j \in 1..Len(values)}
             zeros == {At(j) : j \in {k \in 1..Len(values) : values[k] = ZeroValue}}
             r == PutDoubles(m, offset, values)
  <1>1. r = [o \in (DOMAIN m \cup spots) \ zeros
               |-> IF o \in spots THEN <<"double", values[((o - offset) \div 8) + 1]>> ELSE m[o]]
    BY DEF PutDoubles
  <1>2. spots = Spots(offset, Len(values)) /\ zeros \subseteq spots
    BY DEF Spots, Spot
  <1> HIDE DEF spots, zeros, r
  <1>3. (q \in DOMAIN r <=> q \in DOMAIN m) /\ (q \in DOMAIN r => r[q] = m[q])
    BY <1>1, <1>2
  <1> QED
    BY <1>3 DEF r

LEMMA SpotsApart ==
  ASSUME NEW offset \in Nat, NEW n \in Nat
  PROVE  /\ \A o \in Spots(offset, n) : o \in Nat /\ offset <= o /\ o + 8 <= offset + 8 * n
         /\ \A o \in Spots(offset, n) : \E i \in 1..n : o = Spot(offset, i)
  BY DEF Spots, Spot

(* An array that is patched again is as if it had been patched once,        *)
LEMMA DoublesOverwritten ==
  ASSUME NEW m, NEW offset \in Nat, NEW v \in Seq(Doubles), NEW w \in Seq(Doubles),
         Len(v) = Len(w)
  PROVE  PutDoubles(PutDoubles(m, offset, v), offset, w) = PutDoubles(m, offset, w)
  <1> DEFINE n == Len(v)
             m1 == PutDoubles(m, offset, v)
             r1 == PutDoubles(m1, offset, w)
             r2 == PutDoubles(m, offset, w)
  <1>0. n \in Nat
    OBVIOUS
  <1>1. /\ r1 = [q \in DOMAIN r1 |-> r1[q]]
        /\ r2 = [q \in DOMAIN r2 |-> r2[q]]
    BY DoublesIsFunction
  <1>2. ASSUME NEW q \in Spots(offset, n)
        PROVE  (q \in DOMAIN r1 <=> q \in DOMAIN r2) /\ (q \in DOMAIN r1 => r1[q] = r2[q])
    <2>1. q \in Spots(offset, Len(w))
      OBVIOUS
    <2> HIDE DEF m1
    <2> QED
      BY <2>1, SameInside
  <1>3. ASSUME NEW q, q \notin Spots(offset, n)
        PROVE  (q \in DOMAIN r1 <=> q \in DOMAIN r2) /\ (q \in DOMAIN r1 => r1[q] = r2[q])
    <2>1. (q \in DOMAIN r1 <=> q \in DOMAIN m1) /\ (q \in DOMAIN r1 => r1[q] = m1[q])
      BY <1>3, DoublesOutside
    <2>2. (q \in DOMAIN m1 <=> q \in DOMAIN m) /\ (q \in DOMAIN m1 => m1[q] = m[q])
      BY <1>3, DoublesOutside
    <2>3. (q \in DOMAIN r2 <=> q \in DOMAIN m) /\ (q \in DOMAIN r2 => r2[q] = m[q])
      BY <1>3, DoublesOutside
    <2> QED
      BY <2>1, <2>2, <2>3
  <1> HIDE DEF m1, r1, r2
  <1>4. DOMAIN r1 = DOMAIN r2 /\ \A q \in DOMAIN r1 : r1[q] = r2[q]
    BY <1>2, <1>3
  <1>5. r1 = r2
    BY <1>1, <1>4
  <1> QED
    BY <1>5 DEF r1, r2, m1

(* items outside of an array can be written before or after it,             *)
LEMMA PutAfterDoubles ==
  ASSUME NEW m, NEW offset \in Nat, NEW v \in Seq(Doubles),
         NEW o, o \notin Spots(offset, Len(v)), NEW item
  PROVE  Put(PutDoubles(m, offset, v), o, item) = PutDoubles(Put(m, o, item), offset, v)
  <1> DEFINE S == Spots(offset, Len(v))
             m1 == PutDoubles(m, offset, v)
             m2 == Put(m, o, item)
             r1 == Put(m1, o, item)
             r2 == PutDoubles(m2, offset, v)
  <1>1. /\ \A q \in S : (q \in DOMAIN m1 <=> q \in DOMAIN r2) /\ (q \in DOMAIN m1 => m1[q] = r2[q])
        /\ o \notin S
    <2> HIDE DEF m2
    <2> QED
      BY SameInside
  <1>2. ASSUME NEW q, q \notin S
        PROVE  /\ (q \in DOMAIN m1 <=> q \in DOMAIN m) /\ (q \in DOMAIN m1 => m1[q] = m[q])
               /\ (q \in DOMAIN r2 <=> q \in DOMAIN m2) /\ (q \in DOMAIN r2 => r2[q] = m2[q])
    <2> HIDE DEF m2
    <2> QED
      BY <1>2, DoublesOutside
  <1>3. r2 = [q \in DOMAIN r2 |-> r2[q]]
    <2> HIDE DEF m2
    <2> QED
      BY DoublesIsFunction
  <1> HIDE DEF S, m1, r2
  <1>4. /\ r1 = [q \in DOMAIN r1 |-> r1[q]]
        /\ \A q : q # o =>
             /\ (q \in DOMAIN r1 <=> q \in DOMAIN m1) /\ (q \in DOMAIN m1 => r1[q] = m1[q])
             /\ (q \in DOMAIN m2 <=> q \in DOMAIN m) /\ (q \in DOMAIN m => m2[q] = m[q])
        /\ o \in DOMAIN r1 <=> o \in DOMAIN m2
        /\ o \in DOMAIN r1 => r1[o] = item /\ m2[o] = item
    BY DEF Put
  <1> HIDE DEF m2, r1
  <1>5. DOMAIN r1 = DOMAIN r2 /\ \A q \in DOMAIN r1 : r1[q] = r2[q]
    <2>1. ASSUME NEW q
          PROVE  (q \in DOMAIN r1 <=> q \in DOMAIN r2) /\ (q \in DOMAIN r1 => r1[q] = r2[q])
      <3>1. CASE q \in S
        BY <3>1, <1>1, <1>4
      <3>2. CASE q \notin S
        BY <3>2, <1>2, <1>4
      <3> QED
        BY <3>1, <3>2
    <2> QED
      BY <2>1
  <1>6. r1 = r2
    BY <1>3, <1>4, <1>5
  <1> QED
    BY <1>6 DEF r1, r2, m1, m2

(* and two arrays one behind the other can be written in either order.      *)
LEMMA DoublesCommute ==
  ASSUME NEW m, NEW a \in Nat, NEW v \in Seq(Doubles), NEW b \in Nat, NEW w \in Seq(Doubles),
         a + 8 * Len(v) <= b
  PROVE  PutDoubles(PutDoubles(m, a, v), b, w) = PutDoubles(PutDoubles(m, b, w), a, v)
  <1> DEFINE ma == PutDoubles(m, a, v)
             mb == PutDoubles(m, b, w)
             r1 == PutDoubles(ma, b, w)
             r2 == PutDoubles(mb, a, v)
             A == Spots(a, Len(v))
             B == Spots(b, Len(w))
  <1>0. Len(v) \in Nat /\ Len(w) \in Nat
    OBVIOUS
  <1>1. r1 = [q \in DOMAIN r1 |-> r1[q]] /\ r2 = [q \in DOMAIN r2 |-> r2[q]]
    BY DoublesIsFunction
  <1>2. A \cap B = {}
    <2>1. \A o \in A : o \in Nat /\ o + 8 <= a + 8 * Len(v)
      BY <1>0, SpotsApart
    <2>2. \A o \in B : o \in Nat /\ b <= o
      BY <1>0, SpotsApart
    <2> HIDE DEF A, B
    <2> QED
      BY <1>0, <2>1, <2>2
  <1>3. ASSUME NEW q, q \notin A
        PROVE  /\ (q \in DOMAIN ma <=> q \in DOMAIN m) /\ (q \in DOMAIN ma => ma[q] = m[q])
               /\ (q \in DOMAIN r2 <=> q \in DOMAIN mb) /\ (q \in DOMAIN r2 => r2[q] = mb[q])
    BY <1>3, DoublesOutside
  <1>4. ASSUME NEW q, q \notin B
        PROVE  /\ (q \in DOMAIN mb <=> q \in DOMAIN m) /\ (q \in DOMAIN mb => mb[q] = m[q])
               /\ (q \in DOMAIN r1 <=> q \in DOMAIN ma) /\ (q \in DOMAIN r1 => r1[q] = ma[q])
    BY <1>4, DoublesOutside
  <1>5. ASSUME NEW q \in A
        PROVE  (q \in DOMAIN ma <=> q \in DOMAIN r2) /\ (q \in DOMAIN ma => ma[q] = r2[q])
    <2>1. q \in Spots(a, Len(v))
      OBVIOUS
    <2> HIDE DEF mb, A, B
    <2> QED
      BY ONLY <2>1, a \in Nat, v \in Seq(Doubles), SameInside
  <1>6. ASSUME NEW q \in B
        PROVE  (q \in DOMAIN r1 <=> q \in DOMAIN mb) /\ (q \in DOMAIN r1 => r1[q] = mb[q])
    <2> HIDE DEF ma
    <2> QED
      BY SameInside
  <1> HIDE DEF ma, mb, r1, r2, A, B
  <1>7. DOMAIN r1 = DOMAIN r2 /\ \A q \in DOMAIN r1 : r1[q] = r2[q]
    BY <1>2, <1>3, <1>4, <1>5, <1>6
  <1>8. r1 = r2
    BY <1>1, <1>7
  <1> QED
    BY <1>8 DEF r1, r2, ma, mb

LEMMA DoublesAfterStamp ==
  ASSUME NEW m, NEW s, NEW a \in Nat, a >= CDR_HEADER_SIZE + 8, NEW v \in Seq(Doubles)
  PROVE  PutDoubles(Stamped(m, s), a, v) = Stamped(PutDoubles(m, a, v), s)
  <1>1. 4 \notin Spots(a, Len(v)) /\ 8 \notin Spots(a, Len(v))
    BY DEF Spots, Spot, CDR_HEADER_SIZE
  <1> QED
    BY <1>1, PutAfterDoubles DEF Stamped, CDR_HEADER_SIZE

(* A template holds zeros where no double has been written.                 *)
LEMMA ZerosAlreadyThere ==
  ASSUME NEW m, IsMemory(m), NEW a \in Nat, NEW v \in Seq(Doubles),
         \A i \in 1..Len(v) : v[i] = ZeroValue,
         Spots(a, Len(v)) \cap DOMAIN m = {}
  PROVE  PutDoubles(m, a, v) = m
  <1> DEFINE r == PutDoubles(m, a, v)
  <1>0. Len(v) \in Nat
    OBVIOUS
  <1>1. r = [q \in DOMAIN r |-> r[q]] /\ m = [q \in DOMAIN m |-> m[q]]
    BY DoublesIsFunction DEF IsMemory
  <1>2. ASSUME NEW q, q \notin Spots(a, Len(v))
        PROVE  (q \in DOMAIN r <=> q \in DOMAIN m) /\ (q \in DOMAIN r => r[q] = m[q])
    BY <1>2, DoublesOutside
  <1>3. ASSUME NEW q \in Spots(a, Len(v))
        PROVE  q \notin DOMAIN r
    <2>1. PICK i \in 1..Len(v) : q = Spot(a, i)
      BY DEF Spots
    <2> QED
      BY <2>1, DoublesInside
  <1> HIDE DEF r
  <1>4. DOMAIN r = DOMAIN m /\ \A q \in DOMAIN r : r[q] = m[q]
    BY <1>2, <1>3
  <1>5. r = m
    BY <1>1, <1>4
  <1> QED
    BY <1>5 DEF r

-------------------------------------------------------------------------------
(* The recursive functions of JointCdr are defined by their recursions.     *)

Laid(f, first, strings, n) ==
  f = [i \in 0..n |-> IF i = 0 THEN first ELSE LayString(f[i - 1], strings[i])]
StringsAdded(f, first, strings, n) ==
  f = [i \in 0..n |-> IF i = 0 THEN first ELSE AddString(f[i - 1], strings[i])]
DoublesAdded(f, first, values, n) ==
  f = [i \in 0..n |-> IF i = 0 THEN first ELSE AddPrimitive(f[i - 1], <<"double", values[i]>>)]

LEMMA LaidExist ==
  ASSUME NEW first, NEW strings
  PROVE  \A n \in Nat : \E f : Laid(f, first, strings, n)
  <1> DEFINE S == {n \in Nat : \E f : Laid(f, first, strings, n)}
  <1>1. 0 \in S
    <2> DEFINE f == [i \in 0..0 |-> first]
    <2>1. Laid(f, first, strings, 0)
      BY DEF Laid
    <2> QED
      BY <2>1
  <1>2. ASSUME NEW n \in S PROVE n + 1 \in S
    <2>1. PICK f : Laid(f, first, strings, n)
      OBVIOUS
    <2>2. n \in Nat
      OBVIOUS
    <2> DEFINE g == [i \in 0..(n + 1) |-> IF i = 0 THEN first ELSE LayString(f[i - 1], strings[i])]
    <2>3. \A i \in 0..n : g[i] = f[i]
      BY <2>1, <2>2 DEF Laid
    <2>4. g = [i \in 0..(n + 1) |-> IF i = 0 THEN first ELSE LayString(f[i - 1], strings[i])]
      OBVIOUS
    <2> HIDE DEF g, S
    <2>5. \A i \in 0..(n + 1) : (IF i = 0 THEN first ELSE LayString(f[i - 1], strings[i]))
                               = (IF i = 0 THEN first ELSE LayString(g[i - 1], strings[i]))
      BY <2>2, <2>3
    <2>6. g = [i \in 0..(n + 1) |-> IF i = 0 THEN first ELSE LayString(g[i - 1], strings[i])]
      BY <2>4, <2>5, Zenon
    <2>7. Laid(g, first, strings, n + 1)
      BY <2>6 DEF Laid
    <2> QED
      BY <2>2, <2>7 DEF S
  <1>3. S \in SUBSET Nat
    OBVIOUS
  <1> HIDE DEF S
  <1>4. S = Nat
    BY <1>1, <1>2, <1>3, InductionSet
  <1> QED
    BY <1>4 DEF S

LEMMA LayStringsUnfolds ==
  ASSUME NEW cursor, NEW strings, Len(strings) \in Nat
  PROVE  \E f : /\ Laid(f, cursor, strings, Len(strings))
                /\ LayStrings(cursor, strings) = f[Len(strings)]
  <1> DEFINE f == CHOOSE f : Laid(f, cursor, strings, Len(strings))
  <1>1. Laid(f, cursor, strings, Len(strings))
    BY LaidExist
  <1>2. LayStrings(cursor, strings) = f[Len(strings)]
    BY DEF LayStrings, Laid
  <1> QED
    BY <1>1, <1>2

LEMMA StringsAddedExist ==
  ASSUME NEW first, NEW strings
  PROVE  \A n \in Nat : \E f : StringsAdded(f, first, strings, n)
  <1> DEFINE S == {n \in Nat : \E f : StringsAdded(f, first, strings, n)}
  <1>1. 0 \in S
    <2> DEFINE f == [i \in 0..0 |-> first]
    <2>1. StringsAdded(f, first, strings, 0)
      BY DEF StringsAdded
    <2> QED
      BY <2>1
  <1>2. ASSUME NEW n \in S PROVE n + 1 \in S
    <2>1. PICK f : StringsAdded(f, first, strings, n)
      OBVIOUS
    <2>2. n \in Nat
      OBVIOUS
    <2> DEFINE g == [i \in 0..(n + 1) |-> IF i = 0 THEN first ELSE AddString(f[i - 1], strings[i])]
    <2>3. \A i \in 0..n : g[i] = f[i]
      BY <2>1, <2>2 DEF StringsAdded
    <2>4. g = [i \in 0..(n + 1) |-> IF i = 0 THEN first ELSE AddString(f[i - 1], strings[i])]
      OBVIOUS
    <2> HIDE DEF g, S
    <2>5. \A i \in 0..(n + 1) : (IF i = 0 THEN first ELSE AddString(f[i - 1], strings[i]))
                               = (IF i = 0 THEN first ELSE AddString(g[i - 1], strings[i]))
      BY <2>2, <2>3
    <2>6. g = [i \in 0..(n + 1) |-> IF i = 0 THEN first ELSE AddString(g[i - 1], strings[i])]
      BY <2>4, <2>5, Zenon
    <2>7. StringsAdded(g, first, strings, n + 1)
      BY <2>6 DEF StringsAdded
    <2> QED
      BY <2>2, <2>7 DEF S
  <1>3. S \in SUBSET Nat
    OBVIOUS
  <1> HIDE DEF S
  <1>4. S = Nat
    BY <1>1, <1>2, <1>3, InductionSet
  <1> QED
    BY <1>4 DEF S

LEMMA AddStringsUnfolds ==
  ASSUME NEW message, NEW strings, Len(strings) \in Nat
  PROVE  \E f :
           /\ StringsAdded(f, AddPrimitive(message, <<"uint32", Len(strings)>>), strings, Len(strings))
           /\ AddStrings(message, strings) = f[Len(strings)]
  <1> DEFINE f == CHOOSE f :
                    StringsAdded(f, AddPrimitive(message, <<"uint32", Len(strings)>>), strings, Len(strings))
  <1>1. StringsAdded(f, AddPrimitive(message, <<"uint32", Len(strings)>>), strings, Len(strings))
    BY StringsAddedExist
  <1>2. AddStrings(message, strings) = f[Len(strings)]
    BY DEF AddStrings, StringsAdded
  <1> QED
    BY <1>1, <1>2

LEMMA DoublesAddedExist ==
  ASSUME NEW first, NEW values
  PROVE  \A n \in Nat : \E f : DoublesAdded(f, first, values, n)
  <1> DEFINE S == {n \in Nat : \E f : DoublesAdded(f, first, values, n)}
  <1>1. 0 \in S
    <2> DEFINE f == [i \in 0..0 |-> first]
    <2>1. DoublesAdded(f, first, values, 0)
      BY DEF DoublesAdded
    <2> QED
      BY <2>1
  <1>2. ASSUME NEW n \in S PROVE n + 1 \in S
    <2>1. PICK f : DoublesAdded(f, first, values, n)
      OBVIOUS
    <2>2. n \in Nat
      OBVIOUS
    <2> DEFINE g == [i \in 0..(n + 1) |->
                       IF i = 0 THEN first ELSE AddPrimitive(f[i - 1], <<"double", values[i]>>)]
    <2>3. \A i \in 0..n : g[i] = f[i]
      BY <2>1, <2>2 DEF DoublesAdded
    <2>4. g = [i \in 0..(n + 1) |->
                IF i = 0 THEN first ELSE AddPrimitive(f[i - 1], <<"double", values[i]>>)]
      OBVIOUS
    <2> HIDE DEF g, S
    <2>5. \A i \in 0..(n + 1) :
            (IF i = 0 THEN first ELSE AddPrimitive(f[i - 1], <<"double", values[i]>>))
              = (IF i = 0 THEN first ELSE AddPrimitive(g[i - 1], <<"double", values[i]>>))
      BY <2>2, <2>3
    <2>6. g = [i \in 0..(n + 1) |->
                IF i = 0 THEN first ELSE AddPrimitive(g[i - 1], <<"double", values[i]>>)]
      BY <2>4, <2>5, Zenon
    <2>7. DoublesAdded(g, first, values, n + 1)
      BY <2>6 DEF DoublesAdded
    <2> QED
      BY <2>2, <2>7 DEF S
  <1>3. S \in SUBSET Nat
    OBVIOUS
  <1> HIDE DEF S
  <1>4. S = Nat
    BY <1>1, <1>2, <1>3, InductionSet
  <1> QED
    BY <1>4 DEF S

LEMMA AddDoublesUnfolds ==
  ASSUME NEW message, NEW values, Len(values) \in Nat
  PROVE  \E f :
           /\ DoublesAdded(f, AddPrimitive(message, <<"uint32", Len(values)>>), values, Len(values))
           /\ AddDoubles(message, values) = f[Len(values)]
  <1> DEFINE f == CHOOSE f :
                    DoublesAdded(f, AddPrimitive(message, <<"uint32", Len(values)>>), values, Len(values))
  <1>1. DoublesAdded(f, AddPrimitive(message, <<"uint32", Len(values)>>), values, Len(values))
    BY DoublesAddedExist
  <1>2. AddDoubles(message, values) = f[Len(values)]
    BY DEF AddDoubles, DoublesAdded
  <1> QED
    BY <1>1, <1>2

-------------------------------------------------------------------------------
(* The reference encoder: what one primitive adds to a message.             *)

LEMMA AddNumber ==
  ASSUME NEW m, m.size \in Nat, m.size >= CDR_HEADER_SIZE, NEW n \in Nat
  PROVE  AddPrimitive(m, <<"uint32", n>>) =
           [size |-> ALIGN_UP(m.size, 4) + 4,
            memory |-> Put(m.memory, ALIGN_UP(m.size, 4), <<"uint32", n>>)]
  BY ItemSizes, Padding DEF AddPrimitive

LEMMA AddChars ==
  ASSUME NEW m, m.size \in Nat, m.size >= CDR_HEADER_SIZE, NEW s \in Strings
  PROVE  AddPrimitive(m, <<"chars", s>>) =
           [size |-> m.size + CharsOf(s), memory |-> Put(m.memory, m.size, <<"chars", s>>)]
  <1>1. (-(m.size - CDR_HEADER_SIZE)) % 1 = 0
    BY DEF CDR_HEADER_SIZE
  <1> QED
    BY <1>1, ItemSizes DEF AddPrimitive

LEMMA AddDouble ==
  ASSUME NEW m, m.size \in Nat, m.size >= CDR_HEADER_SIZE, NEW d \in Doubles
  PROVE  AddPrimitive(m, <<"double", d>>) =
           [size |-> ALIGN_UP(m.size, 8) + 8,
            memory |-> Put(m.memory, ALIGN_UP(m.size, 8), <<"double", d>>)]
  BY ItemSizes, Padding DEF AddPrimitive

(* What is added is a message again.                                        *)
LEMMA PutKeepsMessage ==
  ASSUME NEW m, IsMessage(m), NEW o \in Nat, NEW item \in Items,
         NEW end \in Nat, end >= o + SizeOf(item), end >= m.size
  PROVE  IsMessage([size |-> end, memory |-> Put(m.memory, o, item)])
  <1> DEFINE r == Put(m.memory, o, item)
  <1>1. IsMemory(r)
    BY PutIsMemory DEF IsMessage
  <1>2. SizeOf(item) \in Nat \ {0}
    BY ItemSizes
  <1>3. \A q \in DOMAIN r : q \in DOMAIN m.memory \cup {o} /\ r[q] = IF q = o THEN item ELSE m.memory[q]
    BY DEF Put
  <1>4. \A q \in DOMAIN m.memory : q \in Nat /\ m.memory[q] \in Items /\ SizeOf(m.memory[q]) \in Nat
                                  /\ q + SizeOf(m.memory[q]) <= m.size
    BY ItemSizes DEF IsMessage, IsMemory
  <1>5. m.size \in Nat /\ m.size >= CDR_HEADER_SIZE
    BY DEF IsMessage
  <1> HIDE DEF r
  <1>6. \A q \in DOMAIN r : q + SizeOf(r[q]) <= end
    <2> SUFFICES ASSUME NEW q \in DOMAIN r PROVE q + SizeOf(r[q]) <= end
      OBVIOUS
    <2>1. CASE q = o
      BY <2>1, <1>2, <1>3
    <2>2. CASE q # o
      <3>1. q \in DOMAIN m.memory /\ r[q] = m.memory[q]
        BY <2>2, <1>3
      <3> QED
        BY <3>1, <1>2, <1>4, <1>5
    <2> QED
      BY <2>1, <2>2
  <1>7. end >= CDR_HEADER_SIZE
    BY <1>5 DEF CDR_HEADER_SIZE
  <1> QED
    BY <1>1, <1>6, <1>7 DEF IsMessage, r

LEMMA AddingKeepsMessage ==
  ASSUME NEW m, IsMessage(m)
  PROVE  /\ \A n \in Nat : IsMessage(AddPrimitive(m, <<"uint32", n>>))
         /\ \A s \in Strings : IsMessage(AddPrimitive(m, <<"chars", s>>))
         /\ \A d \in Doubles : IsMessage(AddPrimitive(m, <<"double", d>>))
         /\ \A s \in Strings : IsMessage(AddString(m, s))
  <1>0. ASSUME NEW m1, IsMessage(m1)
        PROVE  /\ \A n \in Nat : IsMessage(AddPrimitive(m1, <<"uint32", n>>))
               /\ \A s \in Strings : IsMessage(AddPrimitive(m1, <<"chars", s>>))
               /\ \A d \in Doubles : IsMessage(AddPrimitive(m1, <<"double", d>>))
    <2>0. /\ m1.size \in Nat /\ m1.size >= CDR_HEADER_SIZE
          /\ ALIGN_UP(m1.size, 4) \in Nat /\ ALIGN_UP(m1.size, 4) >= m1.size
          /\ ALIGN_UP(m1.size, 8) \in Nat /\ ALIGN_UP(m1.size, 8) >= m1.size
      BY <1>0, Padding DEF IsMessage
    <2>1. ASSUME NEW n \in Nat PROVE IsMessage(AddPrimitive(m1, <<"uint32", n>>))
      <3>1. <<"uint32", n>> \in Items /\ SizeOf(<<"uint32", n>>) = 4 /\ 4 \in Nat
        BY ItemSizes
      <3>2. ALIGN_UP(m1.size, 4) + 4 \in Nat /\ ALIGN_UP(m1.size, 4) + 4 >= m1.size
            /\ ALIGN_UP(m1.size, 4) + 4 >= ALIGN_UP(m1.size, 4) + SizeOf(<<"uint32", n>>)
        BY <2>0, <3>1
      <3>3. IsMessage([size |-> ALIGN_UP(m1.size, 4) + 4,
                       memory |-> Put(m1.memory, ALIGN_UP(m1.size, 4), <<"uint32", n>>)])
        BY <1>0, <2>0, <3>1, <3>2, PutKeepsMessage
      <3> QED
        BY <2>0, <3>3, AddNumber
    <2>2. ASSUME NEW s \in Strings PROVE IsMessage(AddPrimitive(m1, <<"chars", s>>))
      <3>1. <<"chars", s>> \in Items /\ SizeOf(<<"chars", s>>) = CharsOf(s) /\ CharsOf(s) \in Nat
        BY ItemSizes
      <3>2. m1.size + CharsOf(s) \in Nat /\ m1.size + CharsOf(s) >= m1.size
            /\ m1.size + CharsOf(s) >= m1.size + SizeOf(<<"chars", s>>)
        BY <2>0, <3>1
      <3>3. IsMessage([size |-> m1.size + CharsOf(s), memory |-> Put(m1.memory, m1.size, <<"chars", s>>)])
        BY <1>0, <2>0, <3>1, <3>2, PutKeepsMessage
      <3> QED
        BY <2>0, <3>3, AddChars
    <2>3. ASSUME NEW d \in Doubles PROVE IsMessage(AddPrimitive(m1, <<"double", d>>))
      <3>1. <<"double", d>> \in Items /\ SizeOf(<<"double", d>>) = 8 /\ 8 \in Nat
        BY ItemSizes
      <3>2. ALIGN_UP(m1.size, 8) + 8 \in Nat /\ ALIGN_UP(m1.size, 8) + 8 >= m1.size
            /\ ALIGN_UP(m1.size, 8) + 8 >= ALIGN_UP(m1.size, 8) + SizeOf(<<"double", d>>)
        BY <2>0, <3>1
      <3>3. IsMessage([size |-> ALIGN_UP(m1.size, 8) + 8,
                       memory |-> Put(m1.memory, ALIGN_UP(m1.size, 8), <<"double", d>>)])
        BY <1>0, <2>0, <3>1, <3>2, PutKeepsMessage
      <3> QED
        BY <2>0, <3>3, AddDouble
    <2> QED
      BY <2>1, <2>2, <2>3
  <1>1. ASSUME NEW s \in Strings PROVE IsMessage(AddString(m, s))
    BY <1>0, ItemSizes DEF AddString
  <1> QED
    BY <1>0, <1>1

-------------------------------------------------------------------------------
(* serialization.c lays what the reference encoder adds: a cursor at the    *)
(* end of a message, and the message with another stamp.                    *)

Same(cursor, m) == cursor = [at |-> m.size, memory |-> m.memory]
WithStamp(m, s) == [size |-> m.size, memory |-> Stamped(m.memory, s)]

LEMMA MessageSize ==
  ASSUME NEW m, IsMessage(m)
  PROVE  m.size \in Nat /\ m.size >= CDR_HEADER_SIZE
  BY DEF IsMessage

LEMMA LayCountAdds ==
  ASSUME NEW c, NEW m, IsMessage(m), Same(c, m), NEW n \in Nat
  PROVE  Same(LayCount(c, n), AddPrimitive(m, <<"uint32", n>>))
  <1>1. AlignTo(c, 4) = [at |-> ALIGN_UP(m.size, 4), memory |-> m.memory]
    BY DEF AlignTo, Same
  <1>2. LayCount(c, n) = [at |-> ALIGN_UP(m.size, 4) + 4,
                         memory |-> Put(m.memory, ALIGN_UP(m.size, 4), <<"uint32", n>>)]
    BY <1>1, ItemSizes DEF LayCount, Lay
  <1>3. AddPrimitive(m, <<"uint32", n>>) =
          [size |-> ALIGN_UP(m.size, 4) + 4,
           memory |-> Put(m.memory, ALIGN_UP(m.size, 4), <<"uint32", n>>)]
    BY MessageSize, AddNumber
  <1> QED
    BY <1>2, <1>3 DEF Same

LEMMA LayStringAdds ==
  ASSUME NEW c, NEW m, IsMessage(m), Same(c, m), NEW s \in Strings
  PROVE  Same(LayString(c, s), AddString(m, s)) /\ IsMessage(AddString(m, s))
  <1> DEFINE m1 == AddPrimitive(m, <<"uint32", CharsOf(s)>>)
             c1 == LayCount(c, CharsOf(s))
  <1>1. CharsOf(s) \in Nat
    BY ItemSizes
  <1>2. Same(c1, m1) /\ IsMessage(m1)
    BY <1>1, LayCountAdds, AddingKeepsMessage
  <1>3. LayString(c, s) = Lay(c1, <<"chars", s>>)
    BY DEF LayString, LayCount
  <1>4. AddString(m, s) = AddPrimitive(m1, <<"chars", s>>)
    BY DEF AddString
  <1> HIDE DEF c1, m1
  <1>5. Same(Lay(c1, <<"chars", s>>), AddPrimitive(m1, <<"chars", s>>))
    <2>1. c1 = [at |-> m1.size, memory |-> m1.memory]
      BY <1>2 DEF Same
    <2>2. Lay(c1, <<"chars", s>>) = [at |-> m1.size + CharsOf(s),
                                    memory |-> Put(m1.memory, m1.size, <<"chars", s>>)]
      BY <2>1, ItemSizes DEF Lay
    <2>3. AddPrimitive(m1, <<"chars", s>>) =
            [size |-> m1.size + CharsOf(s), memory |-> Put(m1.memory, m1.size, <<"chars", s>>)]
      BY <1>2, MessageSize, AddChars
    <2> QED
      BY <2>2, <2>3 DEF Same
  <1> QED
    BY <1>3, <1>4, <1>5, AddingKeepsMessage

(* The joint names, for any number of them.                                 *)
LEMMA LayStringsAdds ==
  ASSUME NEW c, NEW m, IsMessage(m), Same(c, m), NEW strings \in Seq(Strings)
  PROVE  /\ Same(LayStrings(LayCount(c, Len(strings)), strings), AddStrings(m, strings))
         /\ IsMessage(AddStrings(m, strings))
  <1> DEFINE n == Len(strings)
             c0 == LayCount(c, n)
             m0 == AddPrimitive(m, <<"uint32", n>>)
  <1>0. n \in Nat /\ \A i \in 1..n : strings[i] \in Strings
    OBVIOUS
  <1>1. Same(c0, m0) /\ IsMessage(m0)
    BY <1>0, LayCountAdds, AddingKeepsMessage
  <1>2. PICK f : Laid(f, c0, strings, n) /\ LayStrings(c0, strings) = f[n]
    <2> HIDE DEF c0
    <2> QED
      BY <1>0, LayStringsUnfolds
  <1>3. PICK g : StringsAdded(g, m0, strings, n) /\ AddStrings(m, strings) = g[n]
    BY <1>0, AddStringsUnfolds
  <1> DEFINE S == {i \in Nat : i <= n => Same(f[i], g[i]) /\ IsMessage(g[i])}
  <1> HIDE DEF n, c0, m0
  <1>4. f[0] = c0 /\ g[0] = m0
    BY <1>0, <1>2, <1>3 DEF Laid, StringsAdded
  <1>5. 0 \in S
    BY <1>1, <1>4
  <1>6. ASSUME NEW i \in S PROVE i + 1 \in S
    <2>1. i \in Nat
      OBVIOUS
    <2>2. SUFFICES ASSUME i + 1 <= n PROVE Same(f[i + 1], g[i + 1]) /\ IsMessage(g[i + 1])
      BY <2>1
    <2>3. Same(f[i], g[i]) /\ IsMessage(g[i])
      BY <2>1, <2>2, <1>0
    <2>4. i + 1 \in 0..n /\ i + 1 \in 1..n /\ i + 1 # 0 /\ i + 1 - 1 = i
      BY <2>1, <2>2, <1>0
    <2>5. f[i + 1] = LayString(f[i], strings[i + 1])
      <3>1. \A j \in 0..n : f[j] = IF j = 0 THEN c0 ELSE LayString(f[j - 1], strings[j])
        BY <1>2 DEF Laid
      <3> QED
        BY <2>4, <3>1
    <2>6. g[i + 1] = AddString(g[i], strings[i + 1])
      <3>1. \A j \in 0..n : g[j] = IF j = 0 THEN m0 ELSE AddString(g[j - 1], strings[j])
        BY <1>3 DEF StringsAdded
      <3> QED
        BY <2>4, <3>1
    <2> QED
      BY <2>3, <2>4, <2>5, <2>6, <1>0, LayStringAdds
  <1>7. S = Nat
    <2>1. S \in SUBSET Nat
      OBVIOUS
    <2> HIDE DEF S
    <2> QED
      BY <2>1, <1>5, <1>6, InductionSet
  <1>8. Same(f[n], g[n]) /\ IsMessage(g[n])
    BY <1>0, <1>7
  <1> QED
    BY <1>2, <1>3, <1>8 DEF c0, n

(* The encoder does not look at the stamp: what it adds to a message with   *)
(* another stamp is the same.                                               *)
LEMMA AddAfterStamp ==
  ASSUME NEW m, m.size \in Nat, m.size >= CDR_HEADER_SIZE + 8, NEW st
  PROVE  /\ \A n \in Nat : AddPrimitive(WithStamp(m, st), <<"uint32", n>>)
                             = WithStamp(AddPrimitive(m, <<"uint32", n>>), st)
         /\ \A s \in Strings : AddPrimitive(WithStamp(m, st), <<"chars", s>>)
                                 = WithStamp(AddPrimitive(m, <<"chars", s>>), st)
  <1> DEFINE w == WithStamp(m, st)
  <1>0. w.size = m.size /\ w.memory = Stamped(m.memory, st)
    BY DEF WithStamp
  <1>a. m.size >= CDR_HEADER_SIZE
    BY DEF CDR_HEADER_SIZE
  <1>b. ALIGN_UP(m.size, 4) \in Nat /\ ALIGN_UP(m.size, 4) >= m.size
    BY <1>a, Padding
  <1>1. /\ ALIGN_UP(m.size, 4) \in Nat /\ ALIGN_UP(m.size, 4) >= CDR_HEADER_SIZE + 8
        /\ m.size >= CDR_HEADER_SIZE
    BY <1>a, <1>b DEF CDR_HEADER_SIZE
  <1> HIDE DEF w
  <1>2. ASSUME NEW n \in Nat
        PROVE  AddPrimitive(w, <<"uint32", n>>) = WithStamp(AddPrimitive(m, <<"uint32", n>>), st)
    <2>1. Put(Stamped(m.memory, st), ALIGN_UP(m.size, 4), <<"uint32", n>>)
            = Stamped(Put(m.memory, ALIGN_UP(m.size, 4), <<"uint32", n>>), st)
      BY <1>1, PutAfterStamp
    <2>2. AddPrimitive(w, <<"uint32", n>>) =
            [size |-> ALIGN_UP(w.size, 4) + 4,
             memory |-> Put(w.memory, ALIGN_UP(w.size, 4), <<"uint32", n>>)]
      BY <1>0, <1>1, AddNumber
    <2>3. AddPrimitive(m, <<"uint32", n>>) =
            [size |-> ALIGN_UP(m.size, 4) + 4,
             memory |-> Put(m.memory, ALIGN_UP(m.size, 4), <<"uint32", n>>)]
      BY <1>1, AddNumber
    <2> QED
      BY <1>0, <2>1, <2>2, <2>3 DEF WithStamp
  <1>3. ASSUME NEW s \in Strings
        PROVE  AddPrimitive(w, <<"chars", s>>) = WithStamp(AddPrimitive(m, <<"chars", s>>), st)
    <2>1. Put(Stamped(m.memory, st), m.size, <<"chars", s>>)
            = Stamped(Put(m.memory, m.size, <<"chars", s>>), st)
      BY <1>1, PutAfterStamp
    <2>2. AddPrimitive(w, <<"chars", s>>) =
            [size |-> w.size + CharsOf(s), memory |-> Put(w.memory, w.size, <<"chars", s>>)]
      BY <1>0, <1>1, AddChars
    <2>3. AddPrimitive(m, <<"chars", s>>) =
            [size |-> m.size + CharsOf(s), memory |-> Put(m.memory, m.size, <<"chars", s>>)]
      BY <1>1, AddChars
    <2> QED
      BY <1>0, <2>1, <2>2, <2>3 DEF WithStamp
  <1> QED
    BY <1>2, <1>3 DEF w

LEMMA AddingGrows ==
  ASSUME NEW m, IsMessage(m)
  PROVE  /\ \A n \in Nat : AddPrimitive(m, <<"uint32", n>>).size >= m.size
         /\ \A s \in Strings : AddString(m, s).size >= m.size
  <1>0. /\ m.size \in Nat /\ m.size >= CDR_HEADER_SIZE
        /\ ALIGN_UP(m.size, 4) \in Nat /\ ALIGN_UP(m.size, 4) >= m.size
    BY MessageSize, Padding
  <1>1. ASSUME NEW n \in Nat
        PROVE  /\ AddPrimitive(m, <<"uint32", n>>).size = ALIGN_UP(m.size, 4) + 4
               /\ AddPrimitive(m, <<"uint32", n>>).size >= m.size
    <2>1. AddPrimitive(m, <<"uint32", n>>) =
            [size |-> ALIGN_UP(m.size, 4) + 4,
             memory |-> Put(m.memory, ALIGN_UP(m.size, 4), <<"uint32", n>>)]
      BY <1>0, AddNumber
    <2>2. AddPrimitive(m, <<"uint32", n>>).size = ALIGN_UP(m.size, 4) + 4
      BY <2>1
    <2> QED
      BY <1>0, <2>2
  <1>2. ASSUME NEW s \in Strings PROVE AddString(m, s).size >= m.size
    <2> DEFINE m1 == AddPrimitive(m, <<"uint32", CharsOf(s)>>)
    <2>1. CharsOf(s) \in Nat
      BY ItemSizes
    <2>2. IsMessage(m1) /\ m1.size >= m.size /\ m1.size \in Nat
      BY <2>1, <1>1, AddingKeepsMessage, MessageSize
    <2>3. AddString(m, s) = AddPrimitive(m1, <<"chars", s>>)
      BY DEF AddString
    <2> HIDE DEF m1
    <2>a. AddPrimitive(m1, <<"chars", s>>) =
            [size |-> m1.size + CharsOf(s), memory |-> Put(m1.memory, m1.size, <<"chars", s>>)]
      BY <2>2, AddChars, MessageSize
    <2>4. AddString(m, s).size = m1.size + CharsOf(s)
      BY <2>3, <2>a
    <2> QED
      BY <1>0, <2>1, <2>2, <2>4
  <1> QED
    BY <1>1, <1>2

LEMMA AddStringAfterStamp ==
  ASSUME NEW m, IsMessage(m), m.size >= CDR_HEADER_SIZE + 8, NEW st, NEW s \in Strings
  PROVE  AddString(WithStamp(m, st), s) = WithStamp(AddString(m, s), st)
  <1> DEFINE m1 == AddPrimitive(m, <<"uint32", CharsOf(s)>>)
  <1>1. CharsOf(s) \in Nat /\ m.size \in Nat
    BY ItemSizes, MessageSize
  <1>2. AddPrimitive(WithStamp(m, st), <<"uint32", CharsOf(s)>>) = WithStamp(m1, st)
    BY <1>1, AddAfterStamp
  <1>3. m1.size \in Nat /\ m1.size >= CDR_HEADER_SIZE + 8
    <2>1. IsMessage(m1) /\ m1.size >= m.size
      BY <1>1, AddingKeepsMessage, AddingGrows
    <2> HIDE DEF m1
    <2> QED
      BY <1>1, <2>1, MessageSize DEF CDR_HEADER_SIZE
  <1>4. AddPrimitive(WithStamp(m1, st), <<"chars", s>>) = WithStamp(AddPrimitive(m1, <<"chars", s>>), st)
    <2> HIDE DEF m1
    <2> QED
      BY <1>3, AddAfterStamp
  <1> QED
    BY <1>2, <1>4 DEF AddString

LEMMA AddStringsAfterStamp ==
  ASSUME NEW m, IsMessage(m), m.size >= CDR_HEADER_SIZE + 8, NEW st, NEW strings \in Seq(Strings)
  PROVE  /\ AddStrings(WithStamp(m, st), strings) = WithStamp(AddStrings(m, strings), st)
         /\ IsMessage(AddStrings(m, strings))
         /\ AddStrings(m, strings).size >= CDR_HEADER_SIZE + 8
  <1> DEFINE n == Len(strings)
             w == WithStamp(m, st)
             f0 == AddPrimitive(w, <<"uint32", n>>)
             g0 == AddPrimitive(m, <<"uint32", n>>)
             Big(x) == IsMessage(x) /\ x.size >= CDR_HEADER_SIZE + 8
  <1>0. n \in Nat /\ m.size \in Nat /\ \A i \in 1..n : strings[i] \in Strings
    BY MessageSize
  <1>1. f0 = WithStamp(g0, st) /\ IsMessage(g0) /\ g0.size >= m.size
    BY <1>0, AddAfterStamp, AddingKeepsMessage, AddingGrows
  <1>2. PICK f : StringsAdded(f, f0, strings, n) /\ AddStrings(w, strings) = f[n]
    <2> HIDE DEF w
    <2> QED
      BY <1>0, AddStringsUnfolds
  <1>3. PICK g : StringsAdded(g, g0, strings, n) /\ AddStrings(m, strings) = g[n]
    BY <1>0, AddStringsUnfolds
  <1> HIDE DEF n, f0, g0, w
  <1>a. Big(g0)
    BY <1>0, <1>1, MessageSize DEF CDR_HEADER_SIZE
  <1> DEFINE S == {i \in Nat : i <= n => f[i] = WithStamp(g[i], st) /\ Big(g[i])}
  <1>4. /\ \A j \in 0..n : f[j] = IF j = 0 THEN f0 ELSE AddString(f[j - 1], strings[j])
        /\ \A j \in 0..n : g[j] = IF j = 0 THEN g0 ELSE AddString(g[j - 1], strings[j])
    BY <1>2, <1>3 DEF StringsAdded
  <1>5. 0 \in S
    <2>1. f[0] = f0 /\ g[0] = g0
      BY <1>0, <1>4
    <2> QED
      BY <1>1, <1>a, <2>1
  <1>6. ASSUME NEW i \in S PROVE i + 1 \in S
    <2>1. i \in Nat
      OBVIOUS
    <2>2. SUFFICES ASSUME i + 1 <= n PROVE f[i + 1] = WithStamp(g[i + 1], st) /\ Big(g[i + 1])
      BY <2>1
    <2>3. f[i] = WithStamp(g[i], st) /\ Big(g[i])
      BY <2>1, <2>2, <1>0
    <2>4. i + 1 \in 0..n /\ i + 1 \in 1..n /\ i + 1 # 0 /\ i + 1 - 1 = i
      BY <2>1, <2>2, <1>0
    <2> HIDE DEF S
    <2>5. f[i + 1] = AddString(f[i], strings[i + 1]) /\ g[i + 1] = AddString(g[i], strings[i + 1])
      <3>1. \A j \in 0..n : f[j] = IF j = 0 THEN f0 ELSE AddString(f[j - 1], strings[j])
        BY <1>2 DEF StringsAdded
      <3>2. \A j \in 0..n : g[j] = IF j = 0 THEN g0 ELSE AddString(g[j - 1], strings[j])
        BY <1>3 DEF StringsAdded
      <3>3. f[i + 1] = AddString(f[i], strings[i + 1])
        BY <2>1, <2>4, <3>1
      <3>4. g[i + 1] = AddString(g[i], strings[i + 1])
        BY <2>1, <2>4, <3>2
      <3> QED
        BY <3>3, <3>4
    <2>6. strings[i + 1] \in Strings
      BY <2>4, <1>0
    <2>7. f[i + 1] = WithStamp(g[i + 1], st)
      BY <2>3, <2>5, <2>6, AddStringAfterStamp
    <2>8. IsMessage(g[i + 1]) /\ g[i + 1].size >= g[i].size
      BY <2>3, <2>5, <2>6, AddingKeepsMessage, AddingGrows
    <2>9. g[i + 1].size >= CDR_HEADER_SIZE + 8
      BY <2>3, <2>8, MessageSize DEF CDR_HEADER_SIZE
    <2> QED
      BY <2>7, <2>8, <2>9
  <1>7. S = Nat
    <2>1. S \in SUBSET Nat
      OBVIOUS
    <2> HIDE DEF S
    <2> QED
      BY <2>1, <1>5, <1>6, InductionSet
  <1>8. f[n] = WithStamp(g[n], st) /\ Big(g[n])
    BY <1>0, <1>7
  <1> QED
    BY <1>2, <1>3, <1>8 DEF w

(* A message of a header and a stamp of zeros.                              *)
Blank == [size |-> 12, memory |-> [o \in {0} |-> <<"header", 0>>]]

LEMMA BlankMessage ==
  /\ IsMessage(Blank) /\ Blank.size = 12
  /\ \A st \in Nat :
       AddPrimitive(AddPrimitive([size |-> CDR_HEADER_SIZE, memory |-> [o \in {0} |-> <<"header", 0>>]],
                                 <<"uint32", st>>), <<"uint32", st>>) = WithStamp(Blank, st)
  /\ WithStamp(Blank, 0) = Blank
  <1> DEFINE h == [o \in {0} |-> <<"header", 0>>]
             m0 == [size |-> CDR_HEADER_SIZE, memory |-> h]
  <1>1. IsMemory(h) /\ DOMAIN h = {0} /\ h[0] = <<"header", 0>>
    BY ItemSizes DEF IsMemory
  <1>2. IsMessage(Blank) /\ Blank.size = 12
    BY <1>1, ItemSizes DEF IsMessage, Blank, CDR_HEADER_SIZE
  <1>3. ALIGN_UP(4, 4) = 4 /\ ALIGN_UP(8, 4) = 8
    BY DEF ALIGN_UP, CDR_HEADER_SIZE
  <1> HIDE DEF h
  <1>4. ASSUME NEW st \in Nat
        PROVE  AddPrimitive(AddPrimitive(m0, <<"uint32", st>>), <<"uint32", st>>) = WithStamp(Blank, st)
    <2> DEFINE m1 == [size |-> 8, memory |-> Put(h, 4, <<"uint32", st>>)]
    <2>1. AddPrimitive(m0, <<"uint32", st>>) = m1
      BY <1>3, AddNumber DEF CDR_HEADER_SIZE
    <2>2. AddPrimitive(m1, <<"uint32", st>>)
            = [size |-> 12, memory |-> Put(m1.memory, 8, <<"uint32", st>>)]
      <3>1. m1.size = 8 /\ m1.size \in Nat /\ m1.size >= CDR_HEADER_SIZE
        BY DEF CDR_HEADER_SIZE
      <3> HIDE DEF m1
      <3>2. AddPrimitive(m1, <<"uint32", st>>)
              = [size |-> ALIGN_UP(m1.size, 4) + 4,
                 memory |-> Put(m1.memory, ALIGN_UP(m1.size, 4), <<"uint32", st>>)]
        BY <3>1, AddNumber
      <3> QED
        BY <3>1, <3>2, <1>3
    <2> QED
      BY <2>1, <2>2 DEF WithStamp, Stamped, Blank, CDR_HEADER_SIZE, h
  <1>5. WithStamp(Blank, 0) = Blank
    <2>1. Put(h, 4, <<"uint32", 0>>) = h /\ Put(h, 8, <<"uint32", 0>>) = h
      BY <1>1, PutNothing
    <2> QED
      BY <2>1 DEF WithStamp, Stamped, Blank, CDR_HEADER_SIZE, h
  <1> QED
    BY <1>2, <1>4, <1>5 DEF h

(* The beginning of an encoded message differs from the one of a template   *)
(* only in the stamp.                                                       *)
LEMMA HeadingStamped ==
  ASSUME NEW frame \in Strings, NEW names \in Seq(Strings)
  PROVE  /\ \A st \in Nat : Heading(st, frame, names) = WithStamp(Heading(0, frame, names), st)
         /\ Heading(0, frame, names) = AddStrings(AddString(Blank, frame), names)
         /\ IsMessage(Heading(0, frame, names))
         /\ Heading(0, frame, names).size >= CDR_HEADER_SIZE + 8
  <1> DEFINE m == AddString(Blank, frame)
  <1>1. IsMessage(m) /\ m.size >= CDR_HEADER_SIZE + 8
    <2>1. IsMessage(m) /\ m.size >= Blank.size
      BY BlankMessage, AddingKeepsMessage, AddingGrows
    <2> QED
      BY <2>1, BlankMessage DEF CDR_HEADER_SIZE
  <1>2. ASSUME NEW st \in Nat
        PROVE  Heading(st, frame, names) = WithStamp(AddStrings(m, names), st)
    <2>1. Heading(st, frame, names) = AddStrings(AddString(WithStamp(Blank, st), frame), names)
      BY BlankMessage DEF Heading
    <2>2. Blank.size >= CDR_HEADER_SIZE + 8
      BY BlankMessage DEF CDR_HEADER_SIZE
    <2>3. AddString(WithStamp(Blank, st), frame) = WithStamp(m, st)
      BY <2>2, BlankMessage, AddStringAfterStamp
    <2> HIDE DEF m
    <2> QED
      BY <2>1, <2>3, <1>1, AddStringsAfterStamp
  <1>3. Heading(0, frame, names) = AddStrings(m, names)
    BY BlankMessage DEF Heading
  <1> HIDE DEF m
  <1>4. IsMessage(AddStrings(m, names)) /\ AddStrings(m, names).size >= CDR_HEADER_SIZE + 8
    BY <1>1, AddStringsAfterStamp
  <1> QED
    BY <1>2, <1>3, <1>4 DEF m

(* The layout that zcdr_init_joint_state and zcdr_init_joint_command begin  *)
(* with is the encoding of a heading with a stamp of zeros.                 *)
LEMMA LayNamesIsHeading ==
  ASSUME NEW p, Given(p.frame_id) \in Strings, p.joint_names \in Seq(Strings)
  PROVE  Same(LayNames(p, <<>>), Heading(0, Given(p.frame_id), p.joint_names))
  <1> DEFINE frame == Given(p.frame_id)
             names == p.joint_names
             c0 == [at |-> 12, memory |-> [o \in {0} |-> <<"header", 0>>]]
  <1>1. Put(<<>>, 0, <<"header", 0>>) = [o \in {0} |-> <<"header", 0>>]
    BY DEF Put
  <1>2. [Lay([at |-> 0, memory |-> <<>>], <<"header", 0>>) EXCEPT !.at = @ + 8] = c0
    BY <1>1, ItemSizes DEF Lay
  <1>3. LayNames(p, <<>>) = LayStrings(LayCount(LayString(c0, frame), Len(names)), names)
    BY <1>2 DEF LayNames
  <1>4. Same(c0, Blank)
    BY DEF Same, Blank
  <1> HIDE DEF c0
  <1>5. Same(LayString(c0, frame), AddString(Blank, frame)) /\ IsMessage(AddString(Blank, frame))
    BY <1>4, BlankMessage, LayStringAdds
  <1>6. Same(LayStrings(LayCount(LayString(c0, frame), Len(names)), names),
             AddStrings(AddString(Blank, frame), names))
    BY <1>5, LayStringsAdds
  <1> QED
    BY <1>3, <1>6, HeadingStamped

-------------------------------------------------------------------------------
(* Arrays of doubles: added one by one with padding, they are where         *)
(* serialization.c puts them, at the aligned end of their count.            *)

LEMMA DoublesExtend ==
  ASSUME NEW m, NEW o \in Nat, NEW v \in Seq(Doubles), NEW i \in Nat, i + 1 <= Len(v)
  PROVE  Put(PutDoubles(m, o, SubSeq(v, 1, i)), Spot(o, i + 1), <<"double", v[i + 1]>>)
           = PutDoubles(m, o, SubSeq(v, 1, i + 1))
  <1> DEFINE u == SubSeq(v, 1, i)
             w == SubSeq(v, 1, i + 1)
             d == <<"double", v[i + 1]>>
             m1 == PutDoubles(m, o, u)
             at == Spot(o, i + 1)
             r1 == Put(m1, at, d)
             r2 == PutDoubles(m, o, w)
  <1>1. /\ u \in Seq(Doubles) /\ Len(u) = i /\ \A j \in 1..i : u[j] = v[j]
        /\ w \in Seq(Doubles) /\ Len(w) = i + 1 /\ \A j \in 1..(i + 1) : w[j] = v[j]
    OBVIOUS
  <1> HIDE DEF u, w
  <1>2. at \in Spots(o, i + 1) /\ at \notin Spots(o, i)
    BY DEF Spots, Spot
  <1>3. \A q \in Spots(o, i) : \E j \in 1..i : q = Spot(o, j)
    BY DEF Spots
  <1>4. \A q \in Spots(o, i + 1) : q # at => q \in Spots(o, i)
    BY DEF Spots, Spot
  <1>5. Spots(o, i) \subseteq Spots(o, i + 1)
    BY DEF Spots, Spot
  <1>6. r2 = [q \in DOMAIN r2 |-> r2[q]]
    BY DoublesIsFunction
  <1>7. /\ r1 = [q \in DOMAIN r1 |-> r1[q]]
        /\ \A q : q # at => /\ q \in DOMAIN r1 <=> q \in DOMAIN m1
                            /\ q \in DOMAIN m1 => r1[q] = m1[q]
        /\ at \in DOMAIN r1 <=> v[i + 1] # ZeroValue
        /\ at \in DOMAIN r1 => r1[at] = d
    <2> HIDE DEF m1, at
    <2>1. v[i + 1] = ZeroValue <=> d \in {<<"uint32", 0>>, <<"double", ZeroValue>>}
      OBVIOUS
    <2> HIDE DEF d
    <2> QED
      BY <2>1 DEF Put
  <1>8. /\ at \in DOMAIN r2 <=> v[i + 1] # ZeroValue
        /\ at \in DOMAIN r2 => r2[at] = d
    <2>1. PICK j \in 1..Len(w) : j = i + 1 /\ w[j] = v[i + 1]
      BY <1>1
    <2>2. /\ Spot(o, j) \in DOMAIN PutDoubles(m, o, w) <=> w[j] # ZeroValue
          /\ Spot(o, j) \in DOMAIN PutDoubles(m, o, w) =>
               PutDoubles(m, o, w)[Spot(o, j)] = <<"double", w[j]>>
      BY ONLY <1>1, o \in Nat, DoublesInside
    <2> QED
      BY <2>1, <2>2
  <1>9. ASSUME NEW q \in Spots(o, i)
        PROVE  (q \in DOMAIN m1 <=> q \in DOMAIN r2) /\ (q \in DOMAIN m1 => m1[q] = r2[q])
    <2>1. PICK j \in 1..i : q = Spot(o, j)
      BY <1>3
    <2>2. j \in 1..Len(u) /\ j \in 1..Len(w) /\ u[j] = v[j] /\ w[j] = v[j]
      BY <1>1
    <2>3. /\ Spot(o, j) \in DOMAIN PutDoubles(m, o, u) <=> u[j] # ZeroValue
          /\ Spot(o, j) \in DOMAIN PutDoubles(m, o, u) =>
               PutDoubles(m, o, u)[Spot(o, j)] = <<"double", u[j]>>
      BY ONLY <1>1, <2>2, o \in Nat, DoublesInside
    <2>4. /\ Spot(o, j) \in DOMAIN PutDoubles(m, o, w) <=> w[j] # ZeroValue
          /\ Spot(o, j) \in DOMAIN PutDoubles(m, o, w) =>
               PutDoubles(m, o, w)[Spot(o, j)] = <<"double", w[j]>>
      BY ONLY <1>1, <2>2, o \in Nat, DoublesInside
    <2> QED
      BY <2>1, <2>2, <2>3, <2>4
  <1>10. ASSUME NEW q, q \notin Spots(o, i + 1)
         PROVE  (q \in DOMAIN m1 <=> q \in DOMAIN r2) /\ (q \in DOMAIN m1 => m1[q] = r2[q])
    <2>1. q \notin Spots(o, Len(u)) /\ q \notin Spots(o, Len(w))
      BY <1>1, <1>5, <1>10
    <2>2. (q \in DOMAIN m1 <=> q \in DOMAIN m) /\ (q \in DOMAIN m1 => m1[q] = m[q])
      BY <2>1, DoublesOutside
    <2>3. (q \in DOMAIN r2 <=> q \in DOMAIN m) /\ (q \in DOMAIN r2 => r2[q] = m[q])
      BY <2>1, DoublesOutside
    <2> QED
      BY <2>2, <2>3
  <1> HIDE DEF m1, at, r1, r2, d
  <1>11. DOMAIN r1 = DOMAIN r2 /\ \A q \in DOMAIN r1 : r1[q] = r2[q]
    <2>1. ASSUME NEW q
          PROVE  (q \in DOMAIN r1 <=> q \in DOMAIN r2) /\ (q \in DOMAIN r1 => r1[q] = r2[q])
      <3>1. CASE q = at
        BY <3>1, <1>7, <1>8
      <3>2. CASE q # at /\ q \in Spots(o, i)
        BY <3>2, <1>7, <1>9
      <3>3. CASE q # at /\ q \notin Spots(o, i)
        BY <3>3, <1>4, <1>7, <1>10
      <3> QED
        BY <3>1, <3>2, <3>3
    <2> QED
      BY <2>1
  <1>12. r1 = r2
    BY <1>6, <1>7, <1>11
  <1> QED
    BY <1>12 DEF r1, r2, m1, at, d, u, w

\* Where the doubles of an array begin that is added to a message.
Base(size) == ALIGN_UP(ALIGN_UP(size, 4) + 4, 8)
Counted(m, n) == Put(m.memory, ALIGN_UP(m.size, 4), <<"uint32", n>>)

LEMMA BaseFacts ==
  ASSUME NEW size \in Nat, size >= CDR_HEADER_SIZE
  PROVE  /\ Base(size) \in Nat /\ Base(size) >= ALIGN_UP(size, 4) + 4
         /\ ALIGN_UP(size, 4) \in Nat /\ ALIGN_UP(size, 4) >= size
         /\ \A k \in Nat : ALIGN_UP(Base(size) + 8 * k, 8) = Base(size) + 8 * k
  <1> DEFINE c == ALIGN_UP(size, 4) + 4
  <1>1. ALIGN_UP(size, 4) \in Nat /\ ALIGN_UP(size, 4) >= size
    BY Padding
  <1>2. c \in Nat /\ c >= CDR_HEADER_SIZE
    BY <1>1 DEF CDR_HEADER_SIZE
  <1>3. Base(size) = ALIGN_UP(c, 8)
    BY DEF Base
  <1> HIDE DEF c
  <1>4. ALIGN_UP(c, 8) \in Nat /\ ALIGN_UP(c, 8) >= c
    BY <1>2, Padding
  <1>5. \A k \in Nat : ALIGN_UP(ALIGN_UP(c, 8) + 8 * k, 8) = ALIGN_UP(c, 8) + 8 * k
    BY <1>2, AlignedStays
  <1> QED
    BY <1>1, <1>3, <1>4, <1>5 DEF c

(* An array that ROS adds double by double is a PutDoubles at Base.         *)
LEMMA AddDoublesIs ==
  ASSUME NEW m, IsMessage(m), NEW values \in Seq(Doubles), values # <<>>
  PROVE  /\ AddDoubles(m, values) =
              [size |-> Base(m.size) + 8 * Len(values),
               memory |-> PutDoubles(Counted(m, Len(values)), Base(m.size), values)]
         /\ IsMessage(AddDoubles(m, values))
  <1> DEFINE n == Len(values)
             b == Base(m.size)
             M0 == Counted(m, n)
             g0 == AddPrimitive(m, <<"uint32", n>>)
             u(i) == SubSeq(values, 1, i)
  <1>0. n \in Nat /\ n >= 1 /\ (\A i \in 1..n : values[i] \in Doubles) /\ u(n) = values
    OBVIOUS
  <1>1. m.size \in Nat /\ m.size >= CDR_HEADER_SIZE
    BY MessageSize
  <1>2. b \in Nat /\ \A k \in Nat : ALIGN_UP(b + 8 * k, 8) = b + 8 * k
    BY <1>1, BaseFacts
  <1>3. g0 = [size |-> ALIGN_UP(m.size, 4) + 4, memory |-> M0]
    BY <1>0, <1>1, AddNumber DEF Counted
  <1>4. g0.memory = M0 /\ ALIGN_UP(g0.size, 8) = b /\ g0 = [size |-> g0.size, memory |-> g0.memory]
    BY <1>3 DEF Base
  <1>5. IsMessage(g0)
    BY <1>0, AddingKeepsMessage
  <1>6. PICK g : DoublesAdded(g, g0, values, n) /\ AddDoubles(m, values) = g[n]
    BY <1>0, AddDoublesUnfolds
  <1>7. PutDoubles(M0, b, u(0)) = M0
    <2>1. u(0) \in Seq(Doubles) /\ Len(u(0)) = 0
      OBVIOUS
    <2>2. Spots(b, 0) = {}
      BY DEF Spots
    <2>3. IsMemory(M0)
      BY <1>4, <1>5 DEF IsMessage
    <2> HIDE DEF M0, b, u
    <2> QED
      BY <1>2, <2>1, <2>2, <2>3, ZerosAlreadyThere
  <1> DEFINE Step(i) == /\ IsMessage(g[i])
                        /\ ALIGN_UP(g[i].size, 8) = b + 8 * i
                        /\ g[i].memory = PutDoubles(M0, b, u(i))
                        /\ i # 0 => g[i].size = b + 8 * i
             S == {i \in Nat : i <= n => Step(i)}
  <1>8. 0 \in S
    <2>1. g[0] = g0
      BY <1>0, <1>6 DEF DoublesAdded
    <2> HIDE DEF g0, b, M0, n, u
    <2>2. Step(0)
      BY <2>1, <1>2, <1>4, <1>5, <1>7
    <2> QED
      BY <2>2
  <1>9. ASSUME NEW i \in S PROVE i + 1 \in S
    <2>1. i \in Nat
      OBVIOUS
    <2>2. SUFFICES ASSUME i + 1 <= n PROVE Step(i + 1)
      BY <2>1
    <2>3. Step(i)
      BY <2>1, <2>2, <1>0
    <2>4. i + 1 \in 0..n /\ i + 1 \in 1..n /\ i + 1 # 0 /\ i + 1 - 1 = i
      BY <2>1, <2>2, <1>0
    <2> HIDE DEF S, n, g0, b, M0
    <2>5. g[i + 1] = AddPrimitive(g[i], <<"double", values[i + 1]>>)
      <3>1. \A j \in 0..n : g[j] = IF j = 0 THEN g0 ELSE AddPrimitive(g[j - 1], <<"double", values[j]>>)
        BY <1>6 DEF DoublesAdded
      <3> QED
        BY <2>1, <2>4, <3>1
    <2>6. values[i + 1] \in Doubles
      BY <2>4, <1>0
    <2>7. IsMessage(g[i + 1])
      BY <2>3, <2>5, <2>6, AddingKeepsMessage
    <2>8. g[i + 1] = [size |-> ALIGN_UP(g[i].size, 8) + 8,
                     memory |-> Put(g[i].memory, ALIGN_UP(g[i].size, 8), <<"double", values[i + 1]>>)]
      BY <2>3, <2>5, <2>6, AddDouble, MessageSize
    <2>9. ALIGN_UP(g[i].size, 8) = Spot(b, i + 1)
      BY <2>1, <2>3, <1>2 DEF Spot
    <2>10. g[i + 1].size = b + 8 * (i + 1)
      BY <2>1, <2>3, <2>8, <1>2
    <2>11. g[i + 1].memory = PutDoubles(M0, b, u(i + 1))
      <3>1. g[i + 1].memory = Put(PutDoubles(M0, b, u(i)), Spot(b, i + 1), <<"double", values[i + 1]>>)
        BY <2>3, <2>8, <2>9
      <3>2. i + 1 <= Len(values)
        BY <2>2 DEF n
      <3> QED
        BY <3>1, <3>2, <2>1, <1>2, DoublesExtend
    <2>12. ALIGN_UP(g[i + 1].size, 8) = b + 8 * (i + 1)
      <3>1. PICK k \in Nat : k = i + 1
        BY <2>1
      <3>2. g[i + 1].size = b + 8 * k
        BY <2>10, <3>1
      <3>3. ALIGN_UP(b + 8 * k, 8) = b + 8 * k
        BY <1>2
      <3> QED
        BY <3>1, <3>2, <3>3
    <2> QED
      BY <2>7, <2>10, <2>11, <2>12
  <1>10. S = Nat
    <2>1. S \in SUBSET Nat
      OBVIOUS
    <2> HIDE DEF S
    <2> QED
      BY <2>1, <1>8, <1>9, InductionSet
  <1> HIDE DEF b, M0, n, g0, u
  <1>11. Step(n) /\ n # 0
    BY <1>0, <1>10
  <1>12. g[n] = [size |-> b + 8 * n, memory |-> PutDoubles(M0, b, values)]
    BY <1>0, <1>11 DEF IsMessage
  <1>13. IsMessage(AddDoubles(m, values))
    BY <1>6, <1>11
  <1>14. AddDoubles(m, values) = [size |-> b + 8 * n, memory |-> PutDoubles(M0, b, values)]
    BY <1>6, <1>12
  <1> QED
    BY <1>13, <1>14 DEF b, M0, n

-------------------------------------------------------------------------------
(* JointCommand: a message of the expected size is read as it was sent.     *)

LEMMA StampedMessage ==
  ASSUME NEW m, IsMessage(m), m.size >= CDR_HEADER_SIZE + 8, NEW st \in Nat
  PROVE  IsMessage(WithStamp(m, st))
  <1> DEFINE item == <<"uint32", st>>
             m1 == [size |-> m.size, memory |-> Put(m.memory, 4, item)]
  <1>1. item \in Items /\ SizeOf(item) = 4
    BY ItemSizes
  <1>2. m.size \in Nat /\ m.size >= 4 + SizeOf(item) /\ m.size >= 8 + SizeOf(item) /\ m.size >= m.size
    BY <1>1, MessageSize DEF CDR_HEADER_SIZE
  <1> HIDE DEF item
  <1>3. IsMessage(m1) /\ m1.size = m.size /\ m1.memory = Put(m.memory, 4, item)
    BY <1>1, <1>2, PutKeepsMessage
  <1> HIDE DEF m1
  <1>4. IsMessage([size |-> m.size, memory |-> Put(m1.memory, 8, item)])
    BY <1>1, <1>2, <1>3, PutKeepsMessage
  <1> QED
    BY <1>3, <1>4 DEF WithStamp, Stamped, CDR_HEADER_SIZE, item

LEMMA HeadingIsMessage ==
  ASSUME NEW st \in Nat, NEW frame \in Strings, NEW names \in Seq(Strings)
  PROVE  IsMessage(Heading(st, frame, names))
  BY HeadingStamped, StampedMessage

(* A double that was put behind a message is read back, although the memory *)
(* has no item for a zero.                                                  *)
LEMMA DoublesReadBack ==
  ASSUME NEW m, IsMessage(m), NEW b \in Nat, b >= m.size, NEW values \in Seq(Doubles),
         NEW i \in 1..Len(values)
  PROVE  GetDouble(PutDoubles(m.memory, b, values), Spot(b, i)) = values[i]
  <1> DEFINE n == Len(values)
             M == PutDoubles(m.memory, b, values)
             at == Spot(b, i)
             here == {o \in DOMAIN M : o < at + 8 /\ at < o + SizeOf(M[o])}
  <1>0. n \in Nat /\ i \in 1..n /\ m.size \in Nat
    BY MessageSize
  <1>1. /\ at \in DOMAIN M <=> values[i] # ZeroValue
        /\ at \in DOMAIN M => M[at] = <<"double", values[i]>>
    BY DoublesInside
  <1>2. at \in Nat /\ at >= b
    BY <1>0 DEF Spot
  <1>3. ASSUME NEW o \in DOMAIN M, o \in Spots(b, n), o # at
        PROVE  o \notin here
    <2>1. PICK j \in 1..n : o = Spot(b, j)
      BY <1>3 DEF Spots
    <2>2. M[o] = <<"double", values[j]>> /\ values[j] \in Doubles
      <3>1. Spot(b, j) \in DOMAIN PutDoubles(m.memory, b, values) =>
              PutDoubles(m.memory, b, values)[Spot(b, j)] = <<"double", values[j]>>
        BY ONLY j \in 1..n, b \in Nat, values \in Seq(Doubles), DoublesInside DEF n
      <3> QED
        BY <2>1, <3>1
    <2>3. SizeOf(M[o]) = 8
      BY <2>2, ItemSizes
    <2>4. j # i
      BY <2>1, <1>3
    <2>5. ~ (o < at + 8 /\ at < o + 8)
      <3>1. i \in Nat /\ j \in Nat /\ (i < j \/ j < i)
        BY <2>4, <1>0
      <3>2. o = b + 8 * (j - 1) /\ at = b + 8 * (i - 1)
        BY <2>1 DEF Spot
      <3> HIDE DEF at
      <3> QED
        BY <3>1, <3>2
    <2> HIDE DEF M, at
    <2> QED
      BY <2>3, <2>5
  <1>4. ASSUME NEW o \in DOMAIN M, o \notin Spots(b, n)
        PROVE  o \notin here
    <2>1. o \in DOMAIN m.memory /\ M[o] = m.memory[o]
      BY <1>4, DoublesOutside
    <2>2. o + SizeOf(M[o]) <= m.size /\ o \in Nat /\ SizeOf(M[o]) \in Nat
      BY <2>1, ItemSizes DEF IsMessage, IsMemory
    <2> HIDE DEF M, at
    <2> QED
      BY <2>2, <1>0, <1>2
  <1>5. CASE values[i] = ZeroValue
    <2>1. here = {}
      BY <1>1, <1>3, <1>4, <1>5
    <2> QED
      BY <2>1, <1>5 DEF GetDouble
  <1>6. CASE values[i] # ZeroValue
    <2>1. at \in DOMAIN M /\ M[at] = <<"double", values[i]>> /\ values[i] \in Doubles
      BY <1>1, <1>6
    <2>2. SizeOf(M[at]) = 8
      BY <2>1, ItemSizes
    <2>3. at \in here
      <3> HIDE DEF M, at
      <3> QED
        BY <2>1, <2>2, <1>2
    <2>4. here = {at}
      BY <2>3, <1>3, <1>4
    <2>5. M[at][1] = "double" /\ M[at][2] = values[i]
      BY <2>1
    <2>6. GetDouble(M, at) = IF here = {} THEN ZeroValue
                            ELSE IF here = {at} /\ M[at][1] = "double" THEN M[at][2] ELSE Garbage
      BY DEF GetDouble
    <2> HIDE DEF here, M, at
    <2>7. GetDouble(M, at) = values[i]
      BY <2>4, <2>5, <2>6
    <2> QED
      BY <2>7 DEF M, at
  <1> QED
    BY <1>5, <1>6

LEMMA ParamsFacts ==
  ASSUME NEW p \in Params
  PROVE  /\ Given(p.frame_id) \in Strings /\ Given(p.interface_name) \in Strings
         /\ p.joint_names \in Seq(Strings) /\ Len(p.joint_names) \in Nat /\ Len(p.joint_names) >= 1
  <1>1. /\ p.frame_id \in Strings \cup {Null} /\ p.interface_name \in Strings \cup {Null}
        /\ p.joint_names \in Seq(Strings) /\ p.joint_names # <<>>
    BY CdrAssumption
  <1>2. EmptyString \in Strings
    BY DEF EmptyString, Strings
  <1>3. Given(p.frame_id) \in Strings /\ Given(p.interface_name) \in Strings
    BY <1>1, <1>2 DEF Given
  <1>4. Len(p.joint_names) \in Nat /\ Len(p.joint_names) >= 1
    <2>1. \A names \in Seq(Strings) : names # <<>> => Len(names) \in Nat /\ Len(names) >= 1
      OBVIOUS
    <2> QED
      BY <1>1, <2>1
  <1> QED
    BY <1>1, <1>3, <1>4

\* What the client's own strings would begin a JointCommand with.
OwnBeginning(p) == AddString(Heading(0, Given(p.frame_id), p.joint_names), Given(p.interface_name))

(* The offsets that zcdr_init_joint_command computes are those of a message *)
(* with the client's own strings.                                           *)
LEMMA CommandContext ==
  ASSUME NEW p \in Params
  PROVE  /\ IsMessage(OwnBeginning(p))
         /\ zcdr_init_joint_command(p) =
              [num_joints |-> Len(p.joint_names), offset_timestamp |-> CDR_HEADER_SIZE,
               offset_values |-> Base(OwnBeginning(p).size),
               payload_size |-> Base(OwnBeginning(p).size) + 8 * Len(p.joint_names)]
  <1> DEFINE h == Heading(0, Given(p.frame_id), p.joint_names)
             k == OwnBeginning(p)
             n == Len(p.joint_names)
             c == LayString(LayNames(p, <<>>), Given(p.interface_name))
             values == AlignTo(LayCount(c, n), 8)
  <1>1. Same(LayNames(p, <<>>), h) /\ IsMessage(h)
    BY ParamsFacts, LayNamesIsHeading, HeadingStamped
  <1>a. k = AddString(h, Given(p.interface_name))
    BY DEF OwnBeginning
  <1>2. Same(c, k) /\ IsMessage(k)
    <2> HIDE DEF h, k
    <2> QED
      BY <1>1, <1>a, ParamsFacts, LayStringAdds
  <1> HIDE DEF k, c
  <1>3. Same(LayCount(c, n), AddPrimitive(k, <<"uint32", n>>))
    BY <1>2, ParamsFacts, LayCountAdds
  <1>4. AddPrimitive(k, <<"uint32", n>>) = [size |-> ALIGN_UP(k.size, 4) + 4, memory |-> Counted(k, n)]
    BY <1>2, ParamsFacts, MessageSize, AddNumber DEF Counted
  <1>5. LayCount(c, n) = [at |-> ALIGN_UP(k.size, 4) + 4, memory |-> Counted(k, n)]
    BY <1>3, <1>4 DEF Same
  <1>6. values = [at |-> Base(k.size), memory |-> Counted(k, n)]
    BY <1>5 DEF AlignTo, Base
  <1>7. SkipDoubles(values, n).at = Base(k.size) + 8 * n
    BY <1>6 DEF SkipDoubles
  <1>8. zcdr_init_joint_command(p) =
          [num_joints |-> n, offset_timestamp |-> CDR_HEADER_SIZE, offset_values |-> values.at,
           payload_size |-> SkipDoubles(values, n).at]
    BY DEF zcdr_init_joint_command, CommandLayout, c
  <1> HIDE DEF values
  <1>9. zcdr_init_joint_command(p) =
          [num_joints |-> n, offset_timestamp |-> CDR_HEADER_SIZE, offset_values |-> Base(k.size),
           payload_size |-> Base(k.size) + 8 * n]
    BY <1>6, <1>7, <1>8
  <1> QED
    BY <1>2, <1>9 DEF k

(* Sizes that agree make the offsets agree, since both sides have the same  *)
(* number of doubles at the end: the sender's strings may differ.           *)
LEMMA CommandReadBack ==
  ASSUME NEW p \in Params, NEW m \in RosCommands, NEW ctx, ctx = zcdr_init_joint_command(p),
         JointCommand(m).size = ctx.payload_size, Len(m.values) = ctx.num_joints
  PROVE  zcdr_deserialize_joint_command(ctx, JointCommand(m).memory, ctx.payload_size) = m.values
  <1> DEFINE k == OwnBeginning(p)
             n == Len(p.joint_names)
             h == AddString(Heading(m.stamp, m.frame_id, m.joint_names), m.interface_name)
             g == AddPrimitive(h, <<"uint32", n>>)
             b == Base(h.size)
  <1>1. /\ m.stamp \in Nat /\ m.frame_id \in Strings /\ m.joint_names \in Seq(Strings)
        /\ m.interface_name \in Strings /\ m.values \in Seq(Doubles)
    BY CdrAssumption
  <1>2. n \in Nat /\ n >= 1
    BY ParamsFacts
  <1>3. IsMessage(k) /\ ctx = [num_joints |-> n, offset_timestamp |-> CDR_HEADER_SIZE,
                               offset_values |-> Base(k.size), payload_size |-> Base(k.size) + 8 * n]
    BY CommandContext
  <1>4. IsMessage(h)
    BY <1>1, HeadingIsMessage, AddingKeepsMessage
  <1>5. JointCommand(m) = AddDoubles(h, m.values)
    BY DEF JointCommand
  <1> HIDE DEF k, h, n
  <1>6. Len(m.values) = n /\ m.values # <<>>
    BY <1>2, <1>3
  <1>7. JointCommand(m) = [size |-> b + 8 * n, memory |-> PutDoubles(Counted(h, n), b, m.values)]
    BY <1>1, <1>4, <1>5, <1>6, AddDoublesIs
  <1>8. k.size \in Nat /\ k.size >= CDR_HEADER_SIZE /\ h.size \in Nat /\ h.size >= CDR_HEADER_SIZE
    BY <1>3, <1>4, MessageSize
  <1>9. b \in Nat /\ Base(k.size) \in Nat /\ b >= ALIGN_UP(h.size, 4) + 4
    BY <1>8, BaseFacts
  <1>10. b = Base(k.size)
    <2> HIDE DEF b
    <2>1. JointCommand(m).size = b + 8 * n
      BY <1>7
    <2>2. ctx.payload_size = Base(k.size) + 8 * n
      BY <1>3
    <2>3. b + 8 * n = Base(k.size) + 8 * n
      BY <2>1, <2>2
    <2> QED
      BY <2>3, <1>2, <1>9
  <1>11. IsMessage(g) /\ g.memory = Counted(h, n) /\ g.size = ALIGN_UP(h.size, 4) + 4
    <2>1. g = [size |-> ALIGN_UP(h.size, 4) + 4, memory |-> Counted(h, n)]
      BY <1>2, <1>8, AddNumber DEF Counted
    <2>2. IsMessage(g)
      BY <1>2, <1>4, AddingKeepsMessage
    <2> QED
      BY <2>1, <2>2
  <1> HIDE DEF b, g
  <1>12. \A i \in 1..n : GetDouble(JointCommand(m).memory, Spot(b, i)) = m.values[i]
    <2>1. JointCommand(m).memory = PutDoubles(g.memory, b, m.values)
      BY <1>7, <1>11
    <2> QED
      BY <2>1, <1>1, <1>6, <1>9, <1>11, DoublesReadBack
  <1>13. zcdr_deserialize_joint_command(ctx, JointCommand(m).memory, ctx.payload_size)
           = [i \in 1..n |-> GetDouble(JointCommand(m).memory, Spot(b, i))]
    <2>1. ctx.num_joints = n /\ ctx.offset_values = b
      BY <1>3, <1>10
    <2>2. ctx.payload_size \in Nat
      BY <1>2, <1>3, <1>9
    <2>3. ~ (ctx.payload_size < ctx.payload_size)
      BY <2>2
    <2> QED
      BY <2>1, <2>3 DEF zcdr_deserialize_joint_command, Spot
  <1>14. m.values = [i \in 1..n |-> m.values[i]]
    BY <1>1, <1>6
  <1> QED
    BY <1>12, <1>13, <1>14

(* The command buffer holds the message of the command that was accepted,   *)
(* whose size on_transport_cmd_cb has compared with the payload size.       *)
CommandInv ==
  /\ params \in Params
  /\ cmd_ctx = zcdr_init_joint_command(params)
  /\ held # None => /\ held \in RosCommands
                    /\ cmd_buffer = JointCommand(held).memory
                    /\ JointCommand(held).size = cmd_ctx.payload_size

LEMMA InitCommandInv == CdrInit => CommandInv
  BY DEF CdrInit, CommandInv

LEMMA NextCommandInv == CommandInv /\ [CdrNext]_cdrVars => CommandInv'
  <1> SUFFICES ASSUME CommandInv, [CdrNext]_cdrVars PROVE CommandInv'
    OBVIOUS
  <1>1. CASE ClientInit
    BY <1>1 DEF ClientInit, CommandInv
  <1>2. CASE ClientDestroy
    BY <1>2 DEF ClientDestroy, commandVars, CommandInv
  <1>3. CASE WriteState
    BY <1>3 DEF WriteState, commandVars, CommandInv
  <1>4. CASE RosSends
    BY <1>4 DEF RosSends, Accepts, CommandInv
  <1>5. CASE UNCHANGED cdrVars
    BY <1>5 DEF cdrVars, commandVars, CommandInv
  <1>6. CASE Undefined
    BY <1>6 DEF Undefined, commandVars, CommandInv
  <1> QED
    BY <1>1, <1>2, <1>3, <1>4, <1>5, <1>6 DEF CdrNext

LEMMA CommandIsMessage ==
  ASSUME NEW m \in RosCommands
  PROVE  IsMessage(JointCommand(m))
  <1> DEFINE h == AddString(Heading(m.stamp, m.frame_id, m.joint_names), m.interface_name)
             g == AddPrimitive(h, <<"uint32", 0>>)
  <1>1. /\ m.stamp \in Nat /\ m.frame_id \in Strings /\ m.joint_names \in Seq(Strings)
        /\ m.interface_name \in Strings /\ m.values \in Seq(Doubles)
    BY CdrAssumption
  <1>2. IsMessage(h) /\ JointCommand(m) = AddDoubles(h, m.values)
    BY <1>1, HeadingIsMessage, AddingKeepsMessage DEF JointCommand
  <1> HIDE DEF h
  <1>3. CASE m.values # <<>>
    BY <1>1, <1>2, <1>3, AddDoublesIs
  <1>4. CASE m.values = <<>>
    <2>1. Len(m.values) = 0
      BY <1>4
    <2>2. PICK f : DoublesAdded(f, g, m.values, 0) /\ AddDoubles(h, m.values) = f[0]
      BY <2>1, AddDoublesUnfolds
    <2>3. f[0] = g
      BY <2>2 DEF DoublesAdded
    <2>4. IsMessage(g)
      BY <1>2, AddingKeepsMessage
    <2> QED
      BY <1>2, <2>2, <2>3, <2>4
  <1> QED
    BY <1>3, <1>4

LEMMA CommandInvDecodes == CommandInv => CommandDecoded
  BY CommandReadBack DEF CommandInv, CommandDecoded, read_command

\* A message after an array of n doubles that are zeros.
-------------------------------------------------------------------------------
(* JointState: the template, and what patching it gives.                    *)

Reserve(m, n) == [size |-> Base(m.size) + 8 * n, memory |-> Counted(m, n)]

Values(n) == {v \in Seq(Doubles) : Len(v) = n}

(* Room for an array is behind everything written before.                   *)
LEMMA ReserveFacts ==
  ASSUME NEW m, IsMessage(m), NEW n \in Nat
  PROVE  /\ IsMessage(Reserve(m, n))
         /\ Base(m.size) \in Nat /\ Base(m.size) >= m.size
         /\ ALIGN_UP(m.size, 4) \in Nat /\ ALIGN_UP(m.size, 4) >= m.size
         /\ DOMAIN Counted(m, n) \subseteq DOMAIN m.memory \cup {ALIGN_UP(m.size, 4)}
         /\ Spots(Base(m.size), n) \cap DOMAIN Counted(m, n) = {}
  <1> DEFINE c == ALIGN_UP(m.size, 4)
             b == Base(m.size)
             item == <<"uint32", n>>
             g == AddPrimitive(m, item)
  <1>1. m.size \in Nat /\ m.size >= CDR_HEADER_SIZE
    BY MessageSize
  <1>2. c \in Nat /\ c >= m.size /\ b \in Nat /\ b >= c + 4
    BY <1>1, BaseFacts
  <1>3. item \in Items /\ SizeOf(item) = 4
    BY ItemSizes
  <1>4. IsMessage(g) /\ g = [size |-> c + 4, memory |-> Counted(m, n)]
    BY <1>1, AddingKeepsMessage, AddNumber DEF Counted
  <1>5. DOMAIN Counted(m, n) \subseteq DOMAIN m.memory \cup {c}
    BY DEF Counted, Put
  <1> HIDE DEF c, b, item
  <1>6. IsMessage([size |-> b + 8 * n, memory |-> Put(m.memory, c, item)])
    <2>1. b + 8 * n \in Nat /\ b + 8 * n >= c + SizeOf(item) /\ b + 8 * n >= m.size
      BY <1>1, <1>2, <1>3
    <2> QED
      BY <1>2, <1>3, <2>1, PutKeepsMessage
  <1>7. Spots(b, n) \cap DOMAIN Counted(m, n) = {}
    <2> SUFFICES ASSUME NEW q \in Spots(b, n), q \in DOMAIN Counted(m, n) PROVE FALSE
      OBVIOUS
    <2>1. q \in Nat /\ b <= q
      BY <1>2, SpotsApart
    <2>2. g.memory = Counted(m, n) /\ g.size = c + 4
      BY <1>4
    <2> HIDE DEF g
    <2>3. q + SizeOf(g.memory[q]) <= g.size /\ SizeOf(g.memory[q]) \in Nat \ {0}
      BY <1>4, <2>2, ItemSizes DEF IsMessage, IsMemory
    <2> QED
      BY <1>2, <2>1, <2>2, <2>3
  <1>8. b >= m.size
    BY <1>1, <1>2
  <1> QED
    BY <1>2, <1>5, <1>6, <1>7, <1>8 DEF c, b, item, Reserve, Counted

(* The template of zcdr_init_joint_state, array by array.                   *)
Beginning(p) == Heading(0, Given(p.frame_id), p.joint_names)
AfterPositions(p) == Reserve(Beginning(p), Len(p.joint_names))
AfterVelocities(p) == Reserve(AfterPositions(p), Len(p.joint_names))
AfterEfforts(p) == Reserve(AfterVelocities(p), Len(p.joint_names))
Offset(p) == [position |-> Base(Beginning(p).size), velocity |-> Base(AfterPositions(p).size),
              effort |-> Base(AfterVelocities(p).size)]

LEMMA BeginAdds ==
  ASSUME NEW c, NEW m, IsMessage(m), Same(c, m), NEW n \in Nat
  PROVE  AlignTo(LayCount(c, n), 8) = [at |-> Base(m.size), memory |-> Counted(m, n)]
  <1>1. Same(LayCount(c, n), AddPrimitive(m, <<"uint32", n>>))
    BY LayCountAdds
  <1>2. AddPrimitive(m, <<"uint32", n>>) = [size |-> ALIGN_UP(m.size, 4) + 4, memory |-> Counted(m, n)]
    BY MessageSize, AddNumber DEF Counted
  <1>3. LayCount(c, n) = [at |-> ALIGN_UP(m.size, 4) + 4, memory |-> Counted(m, n)]
    BY <1>1, <1>2 DEF Same
  <1> QED
    BY <1>3 DEF AlignTo, Base

LEMMA TemplateMessages ==
  ASSUME NEW p \in Params
  PROVE  /\ IsMessage(Beginning(p)) /\ IsMessage(AfterPositions(p))
         /\ IsMessage(AfterVelocities(p)) /\ IsMessage(AfterEfforts(p))
  <1>1. Len(p.joint_names) \in Nat /\ IsMessage(Beginning(p))
    BY ParamsFacts, HeadingStamped DEF Beginning
  <1>2. IsMessage(AfterPositions(p))
    BY <1>1, ReserveFacts DEF AfterPositions
  <1>3. IsMessage(AfterVelocities(p))
    BY <1>1, <1>2, ReserveFacts DEF AfterVelocities
  <1>4. IsMessage(AfterEfforts(p))
    BY <1>1, <1>3, ReserveFacts DEF AfterEfforts
  <1> QED
    BY <1>1, <1>2, <1>3, <1>4

LEMMA StateContext ==
  ASSUME NEW p \in Params
  PROVE  zcdr_init_joint_state(p, <<>>) =
           [ctx |-> [num_joints |-> Len(p.joint_names), offset_timestamp |-> CDR_HEADER_SIZE,
                     offset |-> Offset(p), payload_size |-> AfterEfforts(p).size],
            memory |-> AfterEfforts(p).memory]
  <1> DEFINE n == Len(p.joint_names)
             Begin(cursor) == AlignTo(LayCount(cursor, n), 8)
             first == Begin(LayNames(p, <<>>))
             second == Begin(SkipDoubles(first, n))
             third == Begin(SkipDoubles(second, n))
  <1>0. n \in Nat
    BY ParamsFacts
  <1>1. Same(LayNames(p, <<>>), Beginning(p))
    BY ParamsFacts, LayNamesIsHeading DEF Beginning
  <1>2. first = [at |-> Base(Beginning(p).size), memory |-> Counted(Beginning(p), n)]
    BY <1>0, <1>1, TemplateMessages, BeginAdds
  <1> HIDE DEF first
  <1>3. Same(SkipDoubles(first, n), AfterPositions(p))
    BY <1>2 DEF Same, SkipDoubles, AfterPositions, Reserve
  <1>4. second = [at |-> Base(AfterPositions(p).size), memory |-> Counted(AfterPositions(p), n)]
    BY <1>0, <1>3, TemplateMessages, BeginAdds
  <1> HIDE DEF second
  <1>5. Same(SkipDoubles(second, n), AfterVelocities(p))
    BY <1>4 DEF Same, SkipDoubles, AfterVelocities, Reserve
  <1>6. third = [at |-> Base(AfterVelocities(p).size), memory |-> Counted(AfterVelocities(p), n)]
    BY <1>0, <1>5, TemplateMessages, BeginAdds
  <1> HIDE DEF third
  <1>7. SkipDoubles(third, n).at = AfterEfforts(p).size /\ third.memory = AfterEfforts(p).memory
    BY <1>6 DEF SkipDoubles, AfterEfforts, Reserve
  <1>8. zcdr_init_joint_state(p, <<>>) =
          [ctx |-> [num_joints |-> n, offset_timestamp |-> CDR_HEADER_SIZE,
                    offset |-> [position |-> first.at, velocity |-> second.at, effort |-> third.at],
                    payload_size |-> SkipDoubles(third, n).at],
           memory |-> third.memory]
    BY DEF zcdr_init_joint_state, first, second, third
  <1> QED
    BY <1>2, <1>4, <1>6, <1>7, <1>8 DEF Offset

(* The three arrays and the stamp do not overlap.                           *)
LEMMA OffsetsApart ==
  ASSUME NEW p \in Params
  PROVE  /\ Offset(p).position \in Nat /\ Offset(p).velocity \in Nat /\ Offset(p).effort \in Nat
         /\ Offset(p).position >= CDR_HEADER_SIZE + 8
         /\ Offset(p).velocity >= CDR_HEADER_SIZE + 8
         /\ Offset(p).effort >= CDR_HEADER_SIZE + 8
         /\ Offset(p).position + 8 * Len(p.joint_names) <= Offset(p).velocity
         /\ Offset(p).velocity + 8 * Len(p.joint_names) <= Offset(p).effort
         /\ Offset(p).position + 8 * Len(p.joint_names) <= Offset(p).effort
  <1> DEFINE n == Len(p.joint_names)
             o1 == Base(Beginning(p).size)
             o2 == Base(AfterPositions(p).size)
             o3 == Base(AfterVelocities(p).size)
  <1>0. n \in Nat /\ Offset(p).position = o1 /\ Offset(p).velocity = o2 /\ Offset(p).effort = o3
    BY ParamsFacts DEF Offset
  <1>1. Beginning(p).size \in Nat /\ Beginning(p).size >= CDR_HEADER_SIZE + 8
    BY ParamsFacts, HeadingStamped, TemplateMessages, MessageSize DEF Beginning
  <1>2. /\ o1 \in Nat /\ o1 >= Beginning(p).size
        /\ o2 \in Nat /\ o2 >= AfterPositions(p).size
        /\ o3 \in Nat /\ o3 >= AfterVelocities(p).size
    BY <1>0, TemplateMessages, ReserveFacts
  <1>3. AfterPositions(p).size = o1 + 8 * n /\ AfterVelocities(p).size = o2 + 8 * n
    BY DEF AfterPositions, AfterVelocities, Reserve
  <1> HIDE DEF n, o1, o2, o3
  <1>4. o1 + 8 * n <= o2 /\ o2 + 8 * n <= o3 /\ o1 + 8 * n <= o3
    BY <1>0, <1>2, <1>3
  <1>5. o1 >= CDR_HEADER_SIZE + 8 /\ o2 >= CDR_HEADER_SIZE + 8 /\ o3 >= CDR_HEADER_SIZE + 8
    BY <1>0, <1>1, <1>2, <1>4 DEF CDR_HEADER_SIZE
  <1> QED
    BY <1>0, <1>2, <1>4, <1>5 DEF n

\* The three arrays in a memory.
Filled(memory, o, P, V, E) ==
  PutDoubles(PutDoubles(PutDoubles(memory, o.position, P), o.velocity, V), o.effort, E)

LEMMA AddValues ==
  ASSUME NEW m, IsMessage(m), NEW n \in Nat, n >= 1, NEW v \in Values(n)
  PROVE  /\ AddDoubles(m, v) = [size |-> Reserve(m, n).size,
                                memory |-> PutDoubles(Counted(m, n), Base(m.size), v)]
         /\ IsMessage(AddDoubles(m, v))
  <1>1. v \in Seq(Doubles) /\ Len(v) = n /\ v # <<>>
    BY DEF Values
  <1>2. Reserve(m, n).size = Base(m.size) + 8 * n
    BY DEF Reserve
  <1> QED
    BY <1>1, <1>2, AddDoublesIs

(* The encoding of a JointState is the template, stamped and with its three *)
(* arrays filled.                                                           *)
LEMMA JointStateIsFilled ==
  ASSUME NEW p \in Params, NEW s \in Nat, NEW arrays, NEW n, n = Len(p.joint_names),
         NEW P \in Values(n), NEW V \in Values(n), NEW E \in Values(n),
         arrays["position"] = P, arrays["velocity"] = V, arrays["effort"] = E
  PROVE  /\ JointState(s, p, arrays) =
              [size |-> AfterEfforts(p).size,
               memory |-> Filled(Stamped(AfterEfforts(p).memory, s), Offset(p), P, V, E)]
         /\ IsMessage(JointState(s, p, arrays))
  <1> DEFINE h == Beginning(p)
             r1 == AfterPositions(p)
             r2 == AfterVelocities(p)
             r3 == AfterEfforts(p)
             o == Offset(p)
             h0 == WithStamp(h, s)
             j1 == AddDoubles(h0, P)
             j2 == AddDoubles(j1, V)
             j3 == AddDoubles(j2, E)
             c1 == ALIGN_UP(h.size, 4)
             c2 == ALIGN_UP(r1.size, 4)
             c3 == ALIGN_UP(r2.size, 4)
             count == <<"uint32", n>>
  <1>0. n \in Nat /\ n >= 1
    BY ParamsFacts
  <1>1. JointState(s, p, arrays) = j3
    BY ParamsFacts, HeadingStamped DEF JointState, Beginning
  <1>2. IsMessage(h) /\ IsMessage(r1) /\ IsMessage(r2)
    BY TemplateMessages
  <1>3. h.size >= CDR_HEADER_SIZE + 8 /\ IsMessage(h0)
    BY <1>2, ParamsFacts, HeadingStamped, StampedMessage DEF Beginning
  <1>4. /\ o.position = Base(h.size) /\ o.velocity = Base(r1.size) /\ o.effort = Base(r2.size)
        /\ o.position \in Nat /\ o.velocity \in Nat /\ o.effort \in Nat
        /\ o.position >= CDR_HEADER_SIZE + 8 /\ o.velocity >= CDR_HEADER_SIZE + 8
        /\ o.position + 8 * n <= o.velocity /\ o.velocity + 8 * n <= o.effort
    BY OffsetsApart DEF Offset
  <1>5. /\ r1 = Reserve(h, n) /\ r2 = Reserve(r1, n) /\ r3 = Reserve(r2, n)
    BY DEF AfterPositions, AfterVelocities, AfterEfforts
  <1>6. /\ r1.memory = Put(h.memory, c1, count) /\ r1.size = o.position + 8 * n
        /\ r2.memory = Put(r1.memory, c2, count) /\ r2.size = o.velocity + 8 * n
        /\ r3.memory = Put(r2.memory, c3, count)
    BY <1>4, <1>5 DEF Reserve, Counted
  <1>7. /\ c1 \in Nat /\ c1 >= h.size /\ c2 \in Nat /\ c2 >= r1.size /\ c3 \in Nat /\ c3 >= r2.size
        /\ h.size \in Nat
    BY <1>0, <1>2, ReserveFacts, MessageSize
  <1> HIDE DEF h, r1, r2, r3, o, h0, j1, j2, c1, c2, c3, count
  <1>8. c1 >= CDR_HEADER_SIZE + 8 /\ c2 >= CDR_HEADER_SIZE + 8 /\ c3 >= CDR_HEADER_SIZE + 8
    BY <1>0, <1>3, <1>4, <1>6, <1>7 DEF CDR_HEADER_SIZE
  <1>9. ASSUME NEW m, NEW offset \in Nat, NEW c \in Nat, offset + 8 * n <= c, NEW W \in Values(n)
        PROVE  Put(PutDoubles(m, offset, W), c, count) = PutDoubles(Put(m, c, count), offset, W)
    <2>1. W \in Seq(Doubles) /\ Len(W) = n
      BY DEF Values
    <2>2. c \notin Spots(offset, Len(W))
      BY <2>1, <1>0, <1>9, SpotsApart
    <2> QED
      BY <2>1, <2>2, PutAfterDoubles
  <1>10. /\ j1 = [size |-> r1.size, memory |-> PutDoubles(Stamped(r1.memory, s), o.position, P)]
         /\ IsMessage(j1)
    <2>1. h0.size = h.size /\ h0.memory = Stamped(h.memory, s)
      BY DEF h0, WithStamp
    <2>2. j1 = [size |-> Reserve(h0, n).size, memory |-> PutDoubles(Counted(h0, n), Base(h0.size), P)]
      BY <1>0, <1>3, AddValues DEF j1
    <2>3. IsMessage(j1)
      BY <1>0, <1>3, AddValues DEF j1
    <2>4. Reserve(h0, n).size = r1.size
      BY <2>1, <1>5 DEF Reserve
    <2>5. Counted(h0, n) = Put(Stamped(h.memory, s), c1, count)
      BY <2>1 DEF Counted, c1, count
    <2>6. Put(Stamped(h.memory, s), c1, count) = Stamped(r1.memory, s)
      BY <1>6, <1>7, <1>8, PutAfterStamp
    <2> QED
      BY <2>1, <2>2, <2>3, <2>4, <2>5, <2>6, <1>4
  <1>11. /\ j2 = [size |-> r2.size,
                  memory |-> PutDoubles(PutDoubles(Stamped(r2.memory, s), o.position, P), o.velocity, V)]
         /\ IsMessage(j2)
    <2>1. j1.size = r1.size /\ j1.memory = PutDoubles(Stamped(r1.memory, s), o.position, P)
      BY <1>10
    <2>2. j2 = [size |-> Reserve(j1, n).size, memory |-> PutDoubles(Counted(j1, n), Base(j1.size), V)]
      BY <1>0, <1>10, AddValues DEF j2
    <2>3. IsMessage(j2)
      BY <1>0, <1>10, AddValues DEF j2
    <2>4. Reserve(j1, n).size = r2.size
      BY <2>1, <1>5 DEF Reserve
    <2>5. Counted(j1, n) = Put(PutDoubles(Stamped(r1.memory, s), o.position, P), c2, count)
      BY <2>1 DEF Counted, c2, count
    <2>6. Put(PutDoubles(Stamped(r1.memory, s), o.position, P), c2, count)
            = PutDoubles(Put(Stamped(r1.memory, s), c2, count), o.position, P)
      <3>1. o.position + 8 * n <= c2
        BY <1>0, <1>4, <1>6, <1>7
      <3> QED
        BY <3>1, <1>4, <1>7, <1>9
    <2>7. Put(Stamped(r1.memory, s), c2, count) = Stamped(r2.memory, s)
      BY <1>6, <1>7, <1>8, PutAfterStamp
    <2> QED
      BY <2>1, <2>2, <2>3, <2>4, <2>5, <2>6, <2>7, <1>4
  <1>12. j3 = [size |-> r3.size, memory |-> Filled(Stamped(r3.memory, s), o, P, V, E)]
    <2> DEFINE m2 == PutDoubles(Stamped(r2.memory, s), o.position, P)
    <2>1. j2.size = r2.size /\ j2.memory = PutDoubles(m2, o.velocity, V)
      BY <1>11
    <2>2. j3 = [size |-> Reserve(j2, n).size, memory |-> PutDoubles(Counted(j2, n), Base(j2.size), E)]
      BY <1>0, <1>11, AddValues DEF j3
    <2>4. Reserve(j2, n).size = r3.size
      BY <2>1, <1>5 DEF Reserve
    <2>5. Counted(j2, n) = Put(PutDoubles(m2, o.velocity, V), c3, count)
      BY <2>1 DEF Counted, c3, count
    <2>a. o.velocity + 8 * n <= c3 /\ o.position + 8 * n <= c3
      BY <1>0, <1>4, <1>6, <1>7
    <2>6. Put(PutDoubles(m2, o.velocity, V), c3, count) = PutDoubles(Put(m2, c3, count), o.velocity, V)
      BY <2>a, <1>4, <1>7, <1>9
    <2>7. Put(m2, c3, count) = PutDoubles(Put(Stamped(r2.memory, s), c3, count), o.position, P)
      BY <2>a, <1>4, <1>7, <1>9
    <2>8. Put(Stamped(r2.memory, s), c3, count) = Stamped(r3.memory, s)
      BY <1>6, <1>7, <1>8, PutAfterStamp
    <2> HIDE DEF m2
    <2> QED
      BY <2>1, <2>2, <2>4, <2>5, <2>6, <2>7, <2>8, <1>4 DEF Filled
  <1>13. IsMessage(j3)
    BY <1>0, <1>11, AddValues DEF j3
  <1> QED
    BY <1>1, <1>12, <1>13 DEF r3, o

(* And so no item of it ends behind the payload,                            *)
LEMMA FilledIsMessage ==
  ASSUME NEW p \in Params, NEW s \in Nat, NEW n, n = Len(p.joint_names),
         NEW P \in Values(n), NEW V \in Values(n), NEW E \in Values(n)
  PROVE  IsMessage([size |-> AfterEfforts(p).size,
                    memory |-> Filled(Stamped(AfterEfforts(p).memory, s), Offset(p), P, V, E)])
  <1> DEFINE arrays == [position |-> P, velocity |-> V, effort |-> E]
  <1>1. arrays["position"] = P /\ arrays["velocity"] = V /\ arrays["effort"] = E
    OBVIOUS
  <1> HIDE DEF arrays
  <1> QED
    BY <1>1, JointStateIsFilled

(* nor behind an array that is as large as the message.                     *)
LEMMA MessageFits ==
  ASSUME NEW m, IsMessage(m), NEW capacity \in Nat, m.size <= capacity
  PROVE  Fits(m.memory, capacity)
  <1> SUFFICES ASSUME NEW o \in DOMAIN m.memory PROVE o + SizeOf(m.memory[o]) <= capacity
    BY DEF Fits
  <1>1. /\ o \in Nat /\ SizeOf(m.memory[o]) \in Nat /\ m.size \in Nat
        /\ o + SizeOf(m.memory[o]) <= m.size
    BY ItemSizes DEF IsMessage, IsMemory
  <1> QED
    BY <1>1

(* A template without any write is the encoding of zeros at time zero.      *)
LEMMA TemplateIsZeros ==
  ASSUME NEW p \in Params, NEW Z \in Values(Len(p.joint_names)),
         \A i \in 1..Len(p.joint_names) : Z[i] = ZeroValue
  PROVE  Filled(Stamped(AfterEfforts(p).memory, 0), Offset(p), Z, Z, Z) = AfterEfforts(p).memory
  <1> DEFINE n == Len(p.joint_names)
             h == Beginning(p)
             r1 == AfterPositions(p)
             r2 == AfterVelocities(p)
             r3 == AfterEfforts(p)
             o == Offset(p)
             c1 == ALIGN_UP(h.size, 4)
             c2 == ALIGN_UP(r1.size, 4)
             c3 == ALIGN_UP(r2.size, 4)
             count == <<"uint32", n>>
  <1>0. n \in Nat
    BY ParamsFacts
  <1>1. IsMessage(h) /\ IsMessage(r1) /\ IsMessage(r2) /\ IsMessage(r3)
    BY TemplateMessages
  <1>2. h.size >= CDR_HEADER_SIZE + 8 /\ Stamped(h.memory, 0) = h.memory
    <2>1. h.size >= CDR_HEADER_SIZE + 8 /\ h = WithStamp(h, 0)
      BY ParamsFacts, HeadingStamped DEF Beginning
    <2>2. WithStamp(h, 0).memory = Stamped(h.memory, 0)
      BY DEF WithStamp
    <2> HIDE DEF h
    <2> QED
      BY <2>1, <2>2
  <1>3. /\ o.position = Base(h.size) /\ o.velocity = Base(r1.size) /\ o.effort = Base(r2.size)
        /\ o.position \in Nat /\ o.velocity \in Nat /\ o.effort \in Nat
        /\ o.position >= CDR_HEADER_SIZE + 8 /\ o.velocity >= CDR_HEADER_SIZE + 8
        /\ o.position + 8 * n <= o.velocity /\ o.velocity + 8 * n <= o.effort
    BY OffsetsApart DEF Offset
  <1>4. /\ r1 = Reserve(h, n) /\ r2 = Reserve(r1, n) /\ r3 = Reserve(r2, n)
    BY DEF AfterPositions, AfterVelocities, AfterEfforts
  <1>5. /\ r1.memory = Put(h.memory, c1, count) /\ r1.size = o.position + 8 * n
        /\ r2.memory = Put(r1.memory, c2, count) /\ r2.size = o.velocity + 8 * n
        /\ r3.memory = Put(r2.memory, c3, count)
    BY <1>3, <1>4 DEF Reserve, Counted
  <1>6. /\ c1 \in Nat /\ c1 >= h.size /\ c2 \in Nat /\ c2 >= r1.size /\ c3 \in Nat /\ c3 >= r2.size
        /\ h.size \in Nat
    BY <1>0, <1>1, ReserveFacts, MessageSize
  <1>7. /\ Spots(o.position, n) \cap DOMAIN r1.memory = {}
        /\ Spots(o.velocity, n) \cap DOMAIN r2.memory = {}
        /\ Spots(o.effort, n) \cap DOMAIN r3.memory = {}
        /\ DOMAIN r2.memory \subseteq DOMAIN r1.memory \cup {c2}
        /\ DOMAIN r3.memory \subseteq DOMAIN r2.memory \cup {c3}
    <2>1. /\ r1.memory = Counted(h, n) /\ r2.memory = Counted(r1, n) /\ r3.memory = Counted(r2, n)
      BY <1>4 DEF Reserve
    <2> HIDE DEF h, r1, r2, r3, o, n
    <2> QED
      BY <2>1, <1>0, <1>1, <1>3, ReserveFacts
  <1> HIDE DEF h, r1, r2, r3, o, c1, c2, c3, count, n
  <1>8. c1 >= CDR_HEADER_SIZE + 8 /\ c2 >= CDR_HEADER_SIZE + 8 /\ c3 >= CDR_HEADER_SIZE + 8
    BY <1>0, <1>2, <1>3, <1>5, <1>6 DEF CDR_HEADER_SIZE
  <1>9. Stamped(r3.memory, 0) = r3.memory
    <2>1. Stamped(r1.memory, 0) = r1.memory
      BY <1>2, <1>5, <1>6, <1>8, PutAfterStamp
    <2>2. Stamped(r2.memory, 0) = r2.memory
      BY <2>1, <1>5, <1>6, <1>8, PutAfterStamp
    <2> QED
      BY <2>2, <1>5, <1>6, <1>8, PutAfterStamp
  <1>10. /\ c2 \notin Spots(o.position, n) /\ c3 \notin Spots(o.position, n)
         /\ c3 \notin Spots(o.velocity, n)
    <2>1. c2 >= o.position + 8 * n /\ c3 >= o.position + 8 * n /\ c3 >= o.velocity + 8 * n
      BY <1>0, <1>3, <1>5, <1>6
    <2>2. \A q \in Spots(o.position, n) : q \in Nat /\ q + 8 <= o.position + 8 * n
      BY <1>0, <1>3, SpotsApart
    <2>3. \A q \in Spots(o.velocity, n) : q \in Nat /\ q + 8 <= o.velocity + 8 * n
      BY <1>0, <1>3, SpotsApart
    <2> QED
      BY <1>0, <1>3, <1>6, <2>1, <2>2, <2>3
  <1>11. /\ Spots(o.position, n) \cap DOMAIN r3.memory = {}
         /\ Spots(o.velocity, n) \cap DOMAIN r3.memory = {}
    BY <1>7, <1>10
  <1>12. ASSUME NEW a \in Nat, Spots(a, n) \cap DOMAIN r3.memory = {}
         PROVE  PutDoubles(r3.memory, a, Z) = r3.memory
    <2>1. Z \in Seq(Doubles) /\ Len(Z) = n /\ \A i \in 1..Len(Z) : Z[i] = ZeroValue
      BY DEF Values, n
    <2>2. IsMemory(r3.memory)
      BY <1>1 DEF IsMessage
    <2> QED
      BY <1>12, <2>1, <2>2, ZerosAlreadyThere
  <1>13. Filled(Stamped(r3.memory, 0), o, Z, Z, Z) = r3.memory
    BY <1>3, <1>7, <1>9, <1>11, <1>12 DEF Filled
  <1> QED
    BY <1>13 DEF r3, o

(* zcdr_serialize_joint_state on a message of earlier values: the stamp and *)
(* the arrays that are given are replaced, the others stay.                 *)
LEMMA FilledStamped ==
  ASSUME NEW p \in Params, NEW n, n = Len(p.joint_names), NEW m, NEW s, NEW s2,
         NEW P \in Values(n), NEW V \in Values(n), NEW E \in Values(n)
  PROVE  Stamped(Filled(Stamped(m, s), Offset(p), P, V, E), s2)
           = Filled(Stamped(m, s2), Offset(p), P, V, E)
  <1> DEFINE o == Offset(p)
  <1>1. /\ o.position \in Nat /\ o.velocity \in Nat /\ o.effort \in Nat
        /\ o.position >= CDR_HEADER_SIZE + 8 /\ o.velocity >= CDR_HEADER_SIZE + 8
        /\ o.effort >= CDR_HEADER_SIZE + 8
    BY OffsetsApart
  <1>2. P \in Seq(Doubles) /\ V \in Seq(Doubles) /\ E \in Seq(Doubles)
    BY DEF Values
  <1> HIDE DEF o
  <1>3. ASSUME NEW st
        PROVE  Filled(Stamped(m, st), o, P, V, E) = Stamped(Filled(m, o, P, V, E), st)
    <2> DEFINE mp == PutDoubles(m, o.position, P)
               mv == PutDoubles(mp, o.velocity, V)
               me == PutDoubles(mv, o.effort, E)
    <2>1. PutDoubles(Stamped(m, st), o.position, P) = Stamped(mp, st)
      BY <1>1, <1>2, DoublesAfterStamp
    <2> HIDE DEF mp
    <2>2. PutDoubles(Stamped(mp, st), o.velocity, V) = Stamped(mv, st)
      BY <1>1, <1>2, DoublesAfterStamp
    <2> HIDE DEF mv
    <2>3. PutDoubles(Stamped(mv, st), o.effort, E) = Stamped(me, st)
      BY <1>1, <1>2, DoublesAfterStamp
    <2> HIDE DEF me
    <2> QED
      BY <2>1, <2>2, <2>3 DEF Filled, mp, mv, me
  <1>4. Stamped(Stamped(Filled(m, o, P, V, E), s), s2) = Stamped(Filled(m, o, P, V, E), s2)
    BY StampedTwice
  <1>5. Stamped(Filled(Stamped(m, s), o, P, V, E), s2) = Filled(Stamped(m, s2), o, P, V, E)
    BY <1>3, <1>4
  <1> QED
    BY <1>5 DEF o

LEMMA FilledPosition ==
  ASSUME NEW p \in Params, NEW n, n = Len(p.joint_names), NEW m,
         NEW P \in Values(n), NEW V \in Values(n), NEW E \in Values(n), NEW W \in Values(n)
  PROVE  PutDoubles(Filled(m, Offset(p), P, V, E), Offset(p).position, W) = Filled(m, Offset(p), W, V, E)
  <1> DEFINE o == Offset(p)
             mp == PutDoubles(m, o.position, P)
             mv == PutDoubles(mp, o.velocity, V)
             me == PutDoubles(mv, o.effort, E)
  <1>1. /\ o.position \in Nat /\ o.velocity \in Nat /\ o.effort \in Nat
        /\ o.position + 8 * n <= o.velocity
        /\ o.velocity + 8 * n <= o.effort
        /\ o.position + 8 * n <= o.effort
    BY OffsetsApart
  <1>2. /\ P \in Seq(Doubles) /\ V \in Seq(Doubles) /\ E \in Seq(Doubles) /\ W \in Seq(Doubles)
        /\ Len(P) = n /\ Len(V) = n /\ Len(E) = n /\ Len(W) = n
    BY DEF Values
  <1> HIDE DEF o
  <1>3. Filled(m, o, P, V, E) = me
    BY DEF Filled
  <1>4. PutDoubles(me, o.position, W)
          = PutDoubles(PutDoubles(PutDoubles(m, o.position, W), o.velocity, V), o.effort, E)
    <2>1. PutDoubles(me, o.position, W) = PutDoubles(PutDoubles(mv, o.position, W), o.effort, E)
      <3> HIDE DEF mv
      <3> QED
        BY <1>1, <1>2, DoublesCommute
    <2>2. PutDoubles(mv, o.position, W) = PutDoubles(PutDoubles(mp, o.position, W), o.velocity, V)
      <3> HIDE DEF mp
      <3> QED
        BY <1>1, <1>2, DoublesCommute
    <2>3. PutDoubles(mp, o.position, W) = PutDoubles(m, o.position, W)
      BY <1>1, <1>2, DoublesOverwritten
    <2> QED
      BY <2>1, <2>2, <2>3
  <1> QED
    BY <1>3, <1>4 DEF Filled, o

LEMMA FilledVelocity ==
  ASSUME NEW p \in Params, NEW n, n = Len(p.joint_names), NEW m,
         NEW P \in Values(n), NEW V \in Values(n), NEW E \in Values(n), NEW W \in Values(n)
  PROVE  PutDoubles(Filled(m, Offset(p), P, V, E), Offset(p).velocity, W) = Filled(m, Offset(p), P, W, E)
  <1> DEFINE o == Offset(p)
             mp == PutDoubles(m, o.position, P)
             mv == PutDoubles(mp, o.velocity, V)
             me == PutDoubles(mv, o.effort, E)
  <1>1. /\ o.position \in Nat /\ o.velocity \in Nat /\ o.effort \in Nat
        /\ o.position + 8 * n <= o.velocity
        /\ o.velocity + 8 * n <= o.effort
        /\ o.position + 8 * n <= o.effort
    BY OffsetsApart
  <1>2. /\ P \in Seq(Doubles) /\ V \in Seq(Doubles) /\ E \in Seq(Doubles) /\ W \in Seq(Doubles)
        /\ Len(P) = n /\ Len(V) = n /\ Len(E) = n /\ Len(W) = n
    BY DEF Values
  <1> HIDE DEF o
  <1>3. Filled(m, o, P, V, E) = me
    BY DEF Filled
  <1>4. PutDoubles(me, o.velocity, W) = PutDoubles(PutDoubles(mp, o.velocity, W), o.effort, E)
    <2>1. PutDoubles(me, o.velocity, W) = PutDoubles(PutDoubles(mv, o.velocity, W), o.effort, E)
      <3> HIDE DEF mv
      <3> QED
        BY <1>1, <1>2, DoublesCommute
    <2>2. PutDoubles(mv, o.velocity, W) = PutDoubles(mp, o.velocity, W)
      <3> HIDE DEF mp
      <3> QED
        BY <1>1, <1>2, DoublesOverwritten
    <2> QED
      BY <2>1, <2>2
  <1> QED
    BY <1>3, <1>4 DEF Filled, o

LEMMA FilledEffort ==
  ASSUME NEW p \in Params, NEW n, n = Len(p.joint_names), NEW m,
         NEW P \in Values(n), NEW V \in Values(n), NEW E \in Values(n), NEW W \in Values(n)
  PROVE  PutDoubles(Filled(m, Offset(p), P, V, E), Offset(p).effort, W) = Filled(m, Offset(p), P, V, W)
  <1> DEFINE o == Offset(p)
             mp == PutDoubles(m, o.position, P)
             mv == PutDoubles(mp, o.velocity, V)
             me == PutDoubles(mv, o.effort, E)
  <1>1. /\ o.position \in Nat /\ o.velocity \in Nat /\ o.effort \in Nat
        /\ o.position + 8 * n <= o.velocity
        /\ o.velocity + 8 * n <= o.effort
        /\ o.position + 8 * n <= o.effort
    BY OffsetsApart
  <1>2. /\ P \in Seq(Doubles) /\ V \in Seq(Doubles) /\ E \in Seq(Doubles) /\ W \in Seq(Doubles)
        /\ Len(P) = n /\ Len(V) = n /\ Len(E) = n /\ Len(W) = n
    BY DEF Values
  <1> HIDE DEF o
  <1>3. Filled(m, o, P, V, E) = me
    BY DEF Filled
  <1>4. PutDoubles(me, o.effort, W) = PutDoubles(mv, o.effort, W)
    <2> HIDE DEF mv
    <2> QED
      BY <1>1, <1>2, DoublesOverwritten
  <1> QED
    BY <1>3, <1>4 DEF Filled, o

LEMMA SerializePatches ==
  ASSUME NEW p \in Params, NEW n, n = Len(p.joint_names),
         NEW ctx, ctx.offset_timestamp = CDR_HEADER_SIZE, ctx.offset = Offset(p),
         NEW m, NEW s, NEW s2, NEW given,
         NEW P \in Values(n), NEW V \in Values(n), NEW E \in Values(n),
         NEW P2 \in Values(n), NEW V2 \in Values(n), NEW E2 \in Values(n),
         P2 = IF "position" \in DOMAIN given THEN given["position"] ELSE P,
         V2 = IF "velocity" \in DOMAIN given THEN given["velocity"] ELSE V,
         E2 = IF "effort" \in DOMAIN given THEN given["effort"] ELSE E
  PROVE  zcdr_serialize_joint_state(ctx, s2, given, Filled(Stamped(m, s), Offset(p), P, V, E))
           = Filled(Stamped(m, s2), Offset(p), P2, V2, E2)
  <1> DEFINE o == Offset(p)
             Patch(x, a) == IF a \in DOMAIN given THEN PutDoubles(x, o[a], given[a]) ELSE x
             m2 == Stamped(m, s2)
  <1>0. /\ P \in Values(n) /\ V \in Values(n) /\ E \in Values(n)
        /\ P2 \in Values(n) /\ V2 \in Values(n) /\ E2 \in Values(n)
    OBVIOUS
  <1>1. Stamped(Filled(Stamped(m, s), o, P, V, E), s2) = Filled(m2, o, P, V, E)
    BY FilledStamped
  <1>2. zcdr_serialize_joint_state(ctx, s2, given, Filled(Stamped(m, s), o, P, V, E))
          = Patch(Patch(Patch(Stamped(Filled(Stamped(m, s), o, P, V, E), s2),
                              "position"), "velocity"), "effort")
    BY DEF zcdr_serialize_joint_state, Stamped
  <1> HIDE DEF m2
  <1>3. Patch(Filled(m2, o, P, V, E), "position") = Filled(m2, o, P2, V, E)
    <2>1. PutDoubles(Filled(m2, o, P, V, E), o.position, P2) = Filled(m2, o, P2, V, E)
      BY ONLY p \in Params, n = Len(p.joint_names), <1>0, FilledPosition
    <2> HIDE DEF o
    <2> QED
      BY <2>1
  <1>4. Patch(Filled(m2, o, P2, V, E), "velocity") = Filled(m2, o, P2, V2, E)
    <2>1. PutDoubles(Filled(m2, o, P2, V, E), o.velocity, V2) = Filled(m2, o, P2, V2, E)
      BY ONLY p \in Params, n = Len(p.joint_names), <1>0, FilledVelocity
    <2> HIDE DEF o
    <2> QED
      BY <2>1
  <1>5. Patch(Filled(m2, o, P2, V2, E), "effort") = Filled(m2, o, P2, V2, E2)
    <2>1. PutDoubles(Filled(m2, o, P2, V2, E), o.effort, E2) = Filled(m2, o, P2, V2, E2)
      BY ONLY p \in Params, n = Len(p.joint_names), <1>0, FilledEffort
    <2> HIDE DEF o
    <2> QED
      BY <2>1
  <1> HIDE DEF Patch, o
  <1> QED
    BY <1>1, <1>2, <1>3, <1>4, <1>5 DEF m2, o

-------------------------------------------------------------------------------
(* The state buffer.  Each slot is an encoded JointState.  The active slot  *)
(* has the arrays of the last write_state, those that were given; every     *)
(* other array of a slot is zeros or whole from one earlier write_state     *)
(* since init.  The inactive slot must be described too: the next write     *)
(* patches it, and what it leaves alone there is published.                 *)

Zeros(n) == [i \in 1..n |-> ZeroValue]
Written(k, a, n) == [i \in 1..n |-> <<k, a, i>>]
Joints == Len(params.joint_names)
Earlier(a) == {Zeros(Joints)}
  \cup {v \in {Written(k, a, Joints) : k \in 1..(writes - 1)} : a \in ever}
Contents(i, a) == IF i = active_idx /\ a \in DOMAIN last THEN {last[a]} ELSE Earlier(a)
SlotInv(i) ==
  \E s \in 0..writes, P \in Contents(i, "position"), V \in Contents(i, "velocity"),
     E \in Contents(i, "effort") :
    /\ i = active_idx => s = writes
    /\ slot[i] = Filled(Stamped(AfterEfforts(params).memory, s), Offset(params), P, V, E)
    /\ IsMessage([size |-> AfterEfforts(params).size, memory |-> slot[i]])
StateInv ==
  /\ params \in Params /\ writes \in Nat /\ active_idx \in {0, 1}
  /\ \A a \in DOMAIN last : a \in ever /\ writes >= 1 /\ last[a] = Written(writes, a, Joints)
  /\ state_ctx = zcdr_init_joint_state(params, <<>>).ctx
  /\ initialized /\ ~overrun => DOMAIN slot = {0, 1} /\ \A i \in {0, 1} : SlotInv(i)

LEMMA WrittenValues ==
  ASSUME NEW n \in Nat
  PROVE  /\ Zeros(n) \in Values(n)
         /\ \A i \in 1..n : Zeros(n)[i] = ZeroValue
         /\ \A k \in Nat, a \in Arrays : Written(k, a, n) \in Values(n)
  <1>1. ZeroValue \in Doubles /\ \A k \in Nat, a \in Arrays, i \in Nat : <<k, a, i>> \in Doubles
    BY DEF ZeroValue, Doubles
  <1>2. \A f \in [1..n -> Doubles] : f \in Seq(Doubles) /\ Len(f) = n
    OBVIOUS
  <1>3. Zeros(n) \in [1..n -> Doubles] /\ \A i \in 1..n : Zeros(n)[i] = ZeroValue
    BY <1>1 DEF Zeros
  <1>4. \A k \in Nat, a \in Arrays : Written(k, a, n) \in [1..n -> Doubles]
    BY <1>1 DEF Written
  <1> QED
    BY <1>2, <1>3, <1>4 DEF Values

LEMMA ContentsValues ==
  ASSUME StateInv, NEW i \in {0, 1}, NEW a \in Arrays
  PROVE  Contents(i, a) \subseteq Values(Joints) /\ Joints \in Nat /\ Joints >= 1
  <1>1. Joints \in Nat /\ Joints >= 1
    BY ParamsFacts DEF Joints, StateInv
  <1>2. \A k \in 1..(writes - 1) : k \in Nat
    BY DEF StateInv
  <1>3. Earlier(a) \subseteq Values(Joints)
    BY <1>1, <1>2, WrittenValues DEF Earlier
  <1>4. a \in DOMAIN last => last[a] \in Values(Joints)
    BY <1>1, WrittenValues DEF StateInv
  <1> QED
    BY <1>1, <1>3, <1>4 DEF Contents

LEMMA InitStateInv == CdrInit => StateInv
  BY DEF CdrInit, StateInv

(* ZenbeddedClient::init lays the template into both slots.                 *)
LEMMA InitKeepsState ==
  ASSUME ClientInit
  PROVE  StateInv'
  <1>1. PICK p \in Params :
          /\ params' = p
          /\ slot' = Templates(p, <<>>) /\ active_idx' = 0
          /\ state_ctx' = zcdr_init_joint_state(p, <<>>).ctx
    BY DEF ClientInit
  <1>2. writes' = 0 /\ last' = <<>>
    BY DEF ClientInit
  <1> DEFINE n == Len(p.joint_names)
             Z == Zeros(n)
             T == AfterEfforts(p).memory
  <1>3. n \in Nat /\ Z \in Values(n) /\ \A i \in 1..n : Z[i] = ZeroValue
    BY ParamsFacts, WrittenValues
  <1>4. T = Filled(Stamped(T, 0), Offset(p), Z, Z, Z)
    BY <1>3, TemplateIsZeros
  <1>5. slot' = [i \in {0, 1} |-> T]
    <2>1. zcdr_init_joint_state(p, <<>>).memory = T
      BY StateContext
    <2> QED
      BY <1>1, <2>1 DEF Templates
  <1>6. Zeros(Joints') = Z
    BY <1>1 DEF Joints
  <1> HIDE DEF Z, T, n
  <1>7. ASSUME NEW i \in {0, 1} PROVE SlotInv(i)'
    <2>1. \A a : Contents(i, a)' = Earlier(a)'
      BY <1>2 DEF Contents
    <2>2. \A a : Z \in Earlier(a)'
      BY <1>6 DEF Earlier
    <2>3. slot'[i] = Filled(Stamped(T, 0), Offset(p), Z, Z, Z)
      BY <1>4, <1>5
    <2>4. 0 \in 0..0
      OBVIOUS
    <2>5. IsMessage([size |-> AfterEfforts(p).size, memory |-> slot'[i]])
      BY <1>3, <2>3, FilledIsMessage DEF T, n
    <2> QED
      BY <1>1, <1>2, <2>1, <2>2, <2>3, <2>4, <2>5 DEF SlotInv, T
  <1>8. DOMAIN slot' = {0, 1}
    BY <1>5
  <1>9. DOMAIN last' = {}
    BY <1>2
  <1> QED
    BY <1>1, <1>2, <1>7, <1>8, <1>9 DEF StateInv

(* write_state patches the slot that is inactive and makes it active; the   *)
(* one that was active keeps the arrays of an earlier call.                 *)
LEMMA WriteKeepsState ==
  ASSUME StateInv, WriteState, ~overrun
  PROVE  StateInv'
  <1> DEFINE n == Joints
             o == Offset(params)
             T == AfterEfforts(params).memory
  <1>1. PICK given \in SUBSET Arrays :
          /\ last' = [a \in given |-> [i \in 1..state_ctx.num_joints |-> <<writes', a, i>>]]
          /\ ever' = ever \cup given
    BY DEF WriteState
  <1>2. /\ initialized /\ writes' = writes + 1 /\ active_idx' = 1 - active_idx
        /\ slot' = [slot EXCEPT ![active_idx'] =
                      zcdr_serialize_joint_state(state_ctx, writes', last', slot[active_idx'])]
        /\ params' = params /\ state_ctx' = state_ctx
        /\ initialized' = initialized /\ overrun' = overrun
    BY DEF WriteState
  <1>3. /\ params \in Params /\ writes \in Nat /\ active_idx \in {0, 1}
        /\ DOMAIN slot = {0, 1} /\ \A i \in {0, 1} : SlotInv(i)
        /\ \A a \in DOMAIN last : a \in ever /\ writes >= 1 /\ last[a] = Written(writes, a, n)
    BY <1>2 DEF StateInv
  <1>4. /\ state_ctx.num_joints = n /\ state_ctx.offset_timestamp = CDR_HEADER_SIZE
        /\ state_ctx.offset = o
    BY <1>3, StateContext DEF StateInv, Joints
  <1>5. n \in Nat /\ Joints' = n
    BY <1>2, <1>3, ParamsFacts DEF Joints
  <1>6. /\ writes' \in Nat /\ writes' >= 1 /\ active_idx' \in {0, 1}
        /\ active_idx' # active_idx
        /\ 1..(writes - 1) \subseteq 1..(writes' - 1)
        /\ writes >= 1 => writes \in 1..(writes' - 1)
    BY <1>2, <1>3
  <1>7. /\ DOMAIN last' = given
        /\ \A a \in given : last'[a] = Written(writes', a, n)
    BY <1>1, <1>4 DEF Written
  <1> HIDE DEF n, o, T
  <1>8. \A a \in Arrays : Earlier(a) \subseteq Earlier(a)'
    BY <1>1, <1>5, <1>6 DEF Earlier, n
  <1>9. PICK i \in {0, 1}, j \in {0, 1} : i = active_idx /\ j = active_idx' /\ i # j
    BY <1>3, <1>6
  <1>10. \A a \in Arrays :
           /\ Contents(i, a)' = Earlier(a)'
           /\ a \in given => Contents(j, a)' = {Written(writes', a, n)}
           /\ a \notin given => Contents(j, a)' = Earlier(a)'
    BY <1>7, <1>9 DEF Contents
  <1>i. SlotInv(i)'
    <2>1. SlotInv(i) /\ slot'[i] = slot[i]
      BY <1>2, <1>3, <1>9
    <2>2. PICK s \in 0..writes, P \in Contents(i, "position"),
               V \in Contents(i, "velocity"), E \in Contents(i, "effort") :
            /\ slot[i] = Filled(Stamped(T, s), o, P, V, E)
            /\ IsMessage([size |-> AfterEfforts(params).size, memory |-> slot[i]])
      BY <2>1 DEF SlotInv, T, o
    <2>3. \A a \in Arrays : Contents(i, a) \subseteq Contents(i, a)'
      <3>1. ASSUME NEW a \in Arrays, a \in DOMAIN last
            PROVE  last[a] \in Earlier(a)'
        <4>1. last[a] = Written(writes, a, n) /\ writes \in 1..(writes' - 1) /\ a \in ever'
          BY <3>1, <1>1, <1>3, <1>6
        <4> QED
          BY <4>1, <1>5 DEF Earlier
      <3>2. \A a \in Arrays : Contents(i, a) \subseteq Earlier(a)'
        BY <3>1, <1>8 DEF Contents
      <3> QED
        BY <3>2, <1>10
    <2>4. s \in 0..writes'
      BY <1>2, <1>3
    <2>5. "position" \in Arrays /\ "velocity" \in Arrays /\ "effort" \in Arrays
      BY DEF Arrays
    <2> QED
      BY <2>1, <2>2, <2>3, <2>4, <2>5, <1>2, <1>9 DEF SlotInv, T, o
  <1>j. SlotInv(j)'
    <2>1. SlotInv(j)
      BY <1>3, <1>9
    <2>2. PICK s \in 0..writes, P \in Contents(j, "position"),
               V \in Contents(j, "velocity"), E \in Contents(j, "effort") :
            slot[j] = Filled(Stamped(T, s), o, P, V, E)
      BY <2>1 DEF SlotInv, T, o
    <2> DEFINE Newest(a, W) == IF a \in DOMAIN last' THEN last'[a] ELSE W
    <2>3. ASSUME NEW a \in Arrays, NEW W \in Contents(j, a)
          PROVE  /\ W \in Values(n) /\ Newest(a, W) \in Values(n)
                 /\ Newest(a, W) \in Contents(j, a)'
      <3>1. W \in Values(n)
        BY ContentsValues DEF n
      <3>2. W \in Earlier(a)'
        BY <1>8, <1>9 DEF Contents
      <3>3. Written(writes', a, n) \in Values(n)
        BY <1>5, <1>6, WrittenValues
      <3>4. CASE a \in given
        BY <3>1, <3>3, <3>4, <1>7, <1>10
      <3>5. CASE a \notin given
        BY <3>1, <3>2, <3>5, <1>7, <1>10
      <3> QED
        BY <3>1, <3>4, <3>5
    <2>4. "position" \in Arrays /\ "velocity" \in Arrays /\ "effort" \in Arrays
      BY DEF Arrays
    <2> DEFINE P2 == Newest("position", P)
               V2 == Newest("velocity", V)
               E2 == Newest("effort", E)
    <2>5. /\ P \in Values(n) /\ V \in Values(n) /\ E \in Values(n)
          /\ P2 \in Values(n) /\ V2 \in Values(n) /\ E2 \in Values(n)
          /\ P2 \in Contents(j, "position")' /\ V2 \in Contents(j, "velocity")'
          /\ E2 \in Contents(j, "effort")'
      <3> HIDE DEF Newest
      <3> QED
        BY <2>3, <2>4
    <2>6. zcdr_serialize_joint_state(state_ctx, writes', last', Filled(Stamped(T, s), o, P, V, E))
            = Filled(Stamped(T, writes'), o, P2, V2, E2)
      <3>1. n = Len(params.joint_names) /\ params \in Params /\ o = Offset(params)
        BY <1>3 DEF n, o, Joints
      <3>2. /\ P2 = IF "position" \in DOMAIN last' THEN last'["position"] ELSE P
            /\ V2 = IF "velocity" \in DOMAIN last' THEN last'["velocity"] ELSE V
            /\ E2 = IF "effort" \in DOMAIN last' THEN last'["effort"] ELSE E
        OBVIOUS
      <3> HIDE DEF P2, V2, E2, Newest
      <3> QED
        BY <3>1, <3>2, <2>5, <1>4, SerializePatches
    <2>7. slot'[j] = Filled(Stamped(T, writes'), o, P2, V2, E2)
      BY <1>2, <1>3, <1>9, <2>2, <2>6
    <2>8. writes' \in 0..writes'
      BY <1>6
    <2> HIDE DEF P2, V2, E2, Newest
    <2>9. IsMessage([size |-> AfterEfforts(params).size, memory |-> slot'[j]])
      <3>1. n = Len(params.joint_names) /\ params \in Params /\ writes' \in Nat
        BY <1>3, <1>6 DEF n, Joints
      <3> QED
        BY <3>1, <2>5, <2>7, FilledIsMessage DEF T, o
    <2> QED
      BY <2>5, <2>7, <2>8, <2>9, <1>2, <1>9 DEF SlotInv, T, o
  <1>11. DOMAIN slot' = {0, 1} /\ \A k \in {0, 1} : SlotInv(k)'
    BY <1>2, <1>3, <1>9, <1>i, <1>j
  <1>12. \A a \in DOMAIN last' : a \in ever' /\ writes' >= 1 /\ last'[a] = Written(writes', a, Joints')
    BY <1>1, <1>5, <1>6, <1>7
  <1> QED
    BY <1>2, <1>3, <1>6, <1>11, <1>12 DEF StateInv

LEMMA NextStateInv == StateInv /\ [CdrNext]_cdrVars => StateInv'
  <1> SUFFICES ASSUME StateInv, [CdrNext]_cdrVars PROVE StateInv'
    OBVIOUS
  <1>1. CASE ~overrun /\ ClientInit
    BY <1>1, InitKeepsState
  <1>2. CASE ClientDestroy
    BY <1>2 DEF ClientDestroy, stateVars, StateInv, SlotInv, Contents, Earlier, Joints
  <1>3. CASE ~overrun /\ WriteState
    BY <1>3, WriteKeepsState
  <1>4. CASE RosSends
    BY <1>4 DEF RosSends, stateVars, StateInv, SlotInv, Contents, Earlier, Joints
  <1>5. CASE UNCHANGED cdrVars
    BY <1>5 DEF cdrVars, stateVars, StateInv, SlotInv, Contents, Earlier, Joints
  <1>6. CASE Undefined
    BY <1>6 DEF Undefined, StateInv, Joints
  <1> QED
    BY <1>1, <1>2, <1>3, <1>4, <1>5, <1>6 DEF CdrNext

LEMMA StateInvPublishes == StateInv => PublishesJointState
  <1> SUFFICES ASSUME StateInv, initialized, ~overrun PROVE PublishesJointState
    BY DEF PublishesJointState
  <1> DEFINE n == Joints
             Possible(a) == IF a \in DOMAIN last THEN {last[a]}
                            ELSE IF a \in ever
                              THEN {Zeros(n)} \cup {Written(k, a, n) : k \in 1..(writes - 1)}
                            ELSE {Zeros(n)}
  <1>1. /\ params \in Params /\ writes \in Nat /\ active_idx \in {0, 1} /\ SlotInv(active_idx)
        /\ state_ctx = zcdr_init_joint_state(params, <<>>).ctx
    BY DEF StateInv
  <1>2. PICK P \in Contents(active_idx, "position"), V \in Contents(active_idx, "velocity"),
             E \in Contents(active_idx, "effort") :
          slot[active_idx] = Filled(Stamped(AfterEfforts(params).memory, writes), Offset(params), P, V, E)
    BY <1>1 DEF SlotInv
  <1>3. "position" \in Arrays /\ "velocity" \in Arrays /\ "effort" \in Arrays
    BY DEF Arrays
  <1>4. P \in Values(n) /\ V \in Values(n) /\ E \in Values(n)
    BY <1>1, <1>3, ContentsValues
  <1>5. \A a \in Arrays : Contents(active_idx, a) \subseteq Possible(a)
    BY DEF Contents, Earlier
  <1>6. P \in Possible("position") /\ V \in Possible("velocity") /\ E \in Possible("effort")
    <2> HIDE DEF Possible
    <2> QED
      BY <1>3, <1>5
  <1> DEFINE arrays == [position |-> P, velocity |-> V, effort |-> E]
  <1>7. arrays["position"] = P /\ arrays["velocity"] = V /\ arrays["effort"] = E
    OBVIOUS
  <1> HIDE DEF arrays
  <1>8. JointState(writes, params, arrays) =
          [size |-> AfterEfforts(params).size,
           memory |-> Filled(Stamped(AfterEfforts(params).memory, writes), Offset(params), P, V, E)]
    BY <1>1, <1>4, <1>7, JointStateIsFilled DEF Joints
  <1>9. state_ctx.payload_size = AfterEfforts(params).size
    BY <1>1, StateContext
  <1>10. zenoh_publish_state = JointState(writes, params, arrays)
    BY <1>2, <1>8, <1>9 DEF zenoh_publish_state
  <1> QED
    BY <1>6, <1>10 DEF PublishesJointState, arrays, Zeros, Written, Joints

-------------------------------------------------------------------------------
(* The arrays of the code end somewhere: a client that passed the size      *)
(* check only has messages that fit.                                        *)

BuffersInv ==
  /\ StaysInBuffers
  /\ initialized /\ ~overrun => SizesFit(state_ctx.payload_size, cmd_ctx.payload_size)

LEMMA EmptyFits ==
  ASSUME NEW capacity
  PROVE  Fits(<<>>, capacity)
  BY DEF Fits

LEMMA InitBuffersInv == CdrInit => BuffersInv
  BY EmptyFits DEF CdrInit, BuffersInv, StaysInBuffers

LEMMA NextBuffersInv ==
  ASSUME StateInv, StateInv', CommandInv, BuffersInv, [CdrNext]_cdrVars
  PROVE  BuffersInv'
  <1>1. CASE ~overrun /\ ClientInit
    <2>1. PICK p \in Params :
            /\ slot' = Templates(p, <<>>) /\ overrun' = ~TemplatesFit(p)
            /\ initialized' => SizesFit(state_ctx'.payload_size, cmd_ctx'.payload_size)
      BY <1>1 DEF ClientInit
    <2>2. cmd_buffer' = <<>>
      BY <1>1 DEF ClientInit
    <2> QED
      BY <2>1, <2>2, EmptyFits DEF BuffersInv, StaysInBuffers, TemplatesFit
  <1>2. CASE ClientDestroy
    BY <1>2 DEF ClientDestroy, stateVars, commandVars, BuffersInv, StaysInBuffers
  <1>3. CASE ~overrun /\ WriteState
    <2>1. /\ initialized /\ initialized' = initialized /\ overrun' = overrun
          /\ state_ctx' = state_ctx /\ cmd_ctx' = cmd_ctx /\ params' = params
          /\ cmd_buffer' = cmd_buffer
      BY <1>3 DEF WriteState, commandVars
    <2>2. /\ params \in Params /\ state_ctx.payload_size = AfterEfforts(params).size
          /\ AfterEfforts(params).size <= MAX_STATE_BUFFER_SIZE
      BY <1>3, <2>1, StateContext DEF StateInv, BuffersInv, SizesFit
    <2>3. ASSUME NEW i \in {0, 1} PROVE Fits(slot'[i], MAX_STATE_BUFFER_SIZE)
      <3>1. SlotInv(i)'
        BY <1>3, <2>1 DEF StateInv
      <3>2. IsMessage([size |-> AfterEfforts(params).size, memory |-> slot'[i]])
        BY <3>1, <2>1 DEF SlotInv
      <3> QED
        BY <3>2, <2>2, MessageFits, CdrAssumption
    <2> QED
      BY <1>3, <2>1, <2>3 DEF BuffersInv, StaysInBuffers
  <1>4. CASE ~overrun /\ RosSends
    <2>1. PICK m \in RosCommands :
            JointCommand(m).size = cmd_ctx.payload_size /\ cmd_buffer' = JointCommand(m).memory
      BY <1>4 DEF RosSends, Accepts
    <2>2. /\ initialized /\ initialized' = initialized /\ overrun' = overrun
          /\ state_ctx' = state_ctx /\ cmd_ctx' = cmd_ctx /\ slot' = slot
      BY <1>4 DEF RosSends, stateVars
    <2>3. JointCommand(m).size <= MAX_CMD_BUFFER_SIZE
      BY <1>4, <2>1, <2>2 DEF BuffersInv, SizesFit
    <2>4. Fits(cmd_buffer', MAX_CMD_BUFFER_SIZE)
      BY <2>1, <2>3, CommandIsMessage, MessageFits, CdrAssumption
    <2> QED
      BY <1>4, <2>2, <2>4 DEF BuffersInv, StaysInBuffers
  <1>5. CASE UNCHANGED cdrVars
    BY <1>5 DEF cdrVars, stateVars, commandVars, BuffersInv, StaysInBuffers
  <1>6. CASE Undefined
    BY <1>6 DEF Undefined, BuffersInv, StaysInBuffers
  <1> QED
    BY <1>1, <1>2, <1>3, <1>4, <1>5, <1>6 DEF CdrNext

(* Every reachable state of the two buffers is as StateInv and CommandInv   *)
(* say: through init, destroy, failed inits, writes that leave arrays out,  *)
(* and commands that arrive at any time.  StateInv speaks of the slots      *)
(* until some init has written behind the end of an array.                  *)
THEOREM CdrInvariant == CdrSpec => [](StateInv /\ CommandInv)
  BY InitStateInv, NextStateInv, InitCommandInv, NextCommandInv, PTL DEF CdrSpec

(* A client whose templates fit its arrays never writes behind their end,   *)
(* with messages of any length: what would not fit is refused by init_base  *)
(* and on_transport_cmd_cb.                                                 *)
THEOREM BuffersSuffice == CdrSpec => []StaysInBuffers
  <1>1. CdrInit => BuffersInv
    BY InitBuffersInv
  <1>2. StateInv /\ StateInv' /\ CommandInv /\ BuffersInv /\ [CdrNext]_cdrVars => BuffersInv'
    BY NextBuffersInv
  <1>3. BuffersInv => StaysInBuffers
    BY DEF BuffersInv
  <1> QED
    BY <1>1, <1>2, <1>3, CdrInvariant, PTL DEF CdrSpec

(* What zenoh_publish_state sends is, item by item and in its size, the CDR *)
(* encoding of a JointState with the last stamp and the arrays that         *)
(* write_state has given, for all names and any number of joints for which  *)
(* init has written no template behind the end of its array.                *)
THEOREM StatesPublished == CdrSpec => []PublishesJointState
  BY CdrInvariant, StateInvPublishes, PTL

(* zcdr_deserialize_joint_command gives the values of the JointCommand that *)
(* was accepted last, whatever strings its sender has used.                 *)
THEOREM CommandsDecoded == CdrSpec => []CommandDecoded
  BY CdrInvariant, CommandInvDecodes, PTL
===============================================================================
