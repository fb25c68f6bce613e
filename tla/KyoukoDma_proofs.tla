-------------------------- MODULE KyoukoDma_proofs --------------------------
(***************************************************************************)
(* The command ring and the buffer ring of the Kyouko3 driver, for every   *)
(* length of both rings and every set of drawing commands: the ring in     *)
(* memory is a queue of commands, a flush drains it, and the card          *)
(* transfers the buffers the program started, in order.                    *)
(***************************************************************************)
EXTENDS KyoukoDma, SequenceTheorems, TLAPS

(***************************************************************************)
(* How the two programs use the driver: one processor, one session with    *)
(* DMA, and neither FIFO_QUEUE nor FIFO_FLUSH during a transfer.           *)
(***************************************************************************)
AsPrograms == ~ SMP /\ ~ Restart /\ ~ CallsWhileBusy

CommandNames ==
  {"garbage", "Clear_Color", "Clear_Buffer", "Flush", "BufferA_Address", "BufferA_Config"}
    \cup {e.command : e \in UserEntries}
Entries == [command : CommandNames, value : Nat]
One(condition) == IF condition THEN 1 ELSE 0

-----------------------------------------------------------------------------
(* Remainders of numbers that are at most one ring length out of range.    *)
LEMMA Wrapped ==
  ASSUME NEW N \in Nat \ {0}, NEW x \in Int, -N <= x, x < 2 * N
  PROVE  x % N = IF x < 0 THEN x + N ELSE IF x < N THEN x ELSE x - N
<1>1. ASSUME NEW a \in Int, NEW b \in 0 .. N - 1 PROVE (N * a + b) % N = b
  OBVIOUS
<1>2. CASE x < 0
  <2>1. x + N \in 0 .. N - 1 /\ N * (-1) + (x + N) = x
    BY <1>2
  <2> QED
    BY <1>1, <1>2, <2>1
<1>3. CASE 0 <= x /\ x < N
  <2>1. x \in 0 .. N - 1 /\ N * 0 + x = x
    BY <1>3
  <2> QED
    BY <1>1, <1>3, <2>1
<1>4. CASE N <= x
  <2>1. x - N \in 0 .. N - 1 /\ N * 1 + (x - N) = x
    BY <1>4
  <2> QED
    BY <1>1, <1>4, <2>1
<1> QED
  BY <1>2, <1>3, <1>4

(* The distance from one slot of the ring to another.                      *)
LEMMA DistanceIs ==
  ASSUME NEW a \in Slots, NEW b \in Slots
  PROVE  /\ Distance(a, b) = IF a <= b THEN b - a ELSE b - a + FifoEntries
         /\ Distance(a, b) \in 0 .. FifoEntries - 1
<1>1. FifoEntries \in Nat \ {0} /\ a \in Int /\ b \in Int
      /\ 0 <= a /\ a < FifoEntries /\ 0 <= b /\ b < FifoEntries
  BY FifoAssumption DEF Slots
<1>2. (b - a) % FifoEntries = IF b - a < 0 THEN b - a + FifoEntries
                              ELSE IF b - a < FifoEntries THEN b - a ELSE b - a - FifoEntries
  <2> DEFINE x == b - a
  <2>1. x \in Int /\ -FifoEntries <= x /\ x < 2 * FifoEntries
    BY <1>1
  <2> HIDE DEF x
  <2>2. x % FifoEntries = IF x < 0 THEN x + FifoEntries
                          ELSE IF x < FifoEntries THEN x ELSE x - FifoEntries
    BY <1>1, <2>1, Wrapped
  <2> QED
    BY <1>1, <2>2 DEF x
<1>3. Distance(a, b) = (b - a) % FifoEntries
  BY DEF Distance
<1>4. b - a < FifoEntries
  BY <1>1
<1> QED
  BY <1>1, <1>2, <1>3, <1>4

(* The driver's and the card's next slot are the same.                     *)
LEMMA NextSlot ==
  ASSUME NEW a \in Slots
  PROVE  /\ AdvanceHead(a) \in Slots /\ AdvanceTail(a) = AdvanceHead(a)
         /\ AdvanceHead(a) = IF a + 1 < FifoEntries THEN a + 1 ELSE 0
<1>1. FifoEntries \in Nat \ {0} /\ a \in Int /\ 0 <= a /\ a < FifoEntries
  BY FifoAssumption DEF Slots
<1>2. (a + 1) % FifoEntries = IF a + 1 < 0 THEN a + 1 + FifoEntries
                              ELSE IF a + 1 < FifoEntries THEN a + 1 ELSE a + 1 - FifoEntries
  <2> DEFINE x == a + 1
  <2>1. x \in Int /\ -FifoEntries <= x /\ x < 2 * FifoEntries
    BY <1>1
  <2> HIDE DEF x
  <2>2. x % FifoEntries = IF x < 0 THEN x + FifoEntries
                          ELSE IF x < FifoEntries THEN x ELSE x - FifoEntries
    BY <1>1, <2>1, Wrapped
  <2> QED
    BY <1>1, <2>2 DEF x
<1>3. AdvanceHead(a) = IF a + 1 < FifoEntries THEN a + 1 ELSE 0
  BY <1>1 DEF AdvanceHead
<1>4. AdvanceTail(a) = AdvanceHead(a)
  BY <1>1, <1>2, <1>3 DEF AdvanceTail
<1> QED
  BY <1>1, <1>3, <1>4 DEF Slots

(* Appending an entry to a ring that is not full takes its end on by one.  *)
LEMMA EndMoves ==
  ASSUME NEW a \in Slots, NEW b \in Slots, Distance(a, b) + 1 < FifoEntries
  PROVE  Distance(a, AdvanceHead(b)) = Distance(a, b) + 1
<1>1. FifoEntries \in Nat \ {0} /\ a \in 0 .. FifoEntries - 1 /\ b \in 0 .. FifoEntries - 1
  BY FifoAssumption DEF Slots
<1>2. AdvanceHead(b) \in Slots
  BY NextSlot
<1> QED
  BY <1>1, <1>2, DistanceIs, NextSlot

(* Taking an entry brings the start nearer to everything that lay ahead.   *)
LEMMA StartMoves ==
  ASSUME NEW a \in Slots, NEW b \in Slots, a # b
  PROVE  Distance(a, b) >= 1 /\ Distance(AdvanceHead(a), b) = Distance(a, b) - 1
<1>1. FifoEntries \in Nat \ {0} /\ a \in 0 .. FifoEntries - 1 /\ b \in 0 .. FifoEntries - 1
  BY FifoAssumption DEF Slots
<1>2. AdvanceHead(a) \in Slots
  BY NextSlot
<1> QED
  BY <1>1, <1>2, DistanceIs, NextSlot

(* No distance means one slot.                                             *)
LEMMA NoDistance ==
  ASSUME NEW a \in Slots, NEW b \in Slots
  PROVE  Distance(a, b) = 0 <=> a = b
<1>1. FifoEntries \in Nat \ {0} /\ a \in 0 .. FifoEntries - 1 /\ b \in 0 .. FifoEntries - 1
  BY FifoAssumption DEF Slots
<1> QED
  BY <1>1, DistanceIs

(* The k-th slot after a.                                                  *)
Nth(a, k) == (a + k - 1) % FifoEntries

LEMMA NthIs ==
  ASSUME NEW a \in Slots, NEW k \in 1 .. FifoEntries
  PROVE  /\ Nth(a, k) = IF a + k - 1 < FifoEntries THEN a + k - 1 ELSE a + k - 1 - FifoEntries
         /\ Nth(a, k) \in Slots
<1>1. FifoEntries \in Nat \ {0} /\ a \in 0 .. FifoEntries - 1 /\ a + k - 1 \in Int
      /\ 0 <= a + k - 1 /\ a + k - 1 < 2 * FifoEntries
  BY FifoAssumption DEF Slots
<1>2. (a + k - 1) % FifoEntries =
        IF a + k - 1 < 0 THEN a + k - 1 + FifoEntries
        ELSE IF a + k - 1 < FifoEntries THEN a + k - 1 ELSE a + k - 1 - FifoEntries
  <2> DEFINE x == a + k - 1
  <2>1. x \in Int /\ -FifoEntries <= x /\ x < 2 * FifoEntries
    BY <1>1
  <2> HIDE DEF x
  <2>2. x % FifoEntries = IF x < 0 THEN x + FifoEntries
                          ELSE IF x < FifoEntries THEN x ELSE x - FifoEntries
    BY <1>1, <2>1, Wrapped
  <2> QED
    BY <1>1, <2>2 DEF x
<1> QED
  BY <1>1, <1>2 DEF Nth, Slots

(* The slots of the ring's entries, first to last, and the one behind.     *)
LEMMA NthSlots ==
  ASSUME NEW a \in Slots, NEW b \in Slots
  PROVE  /\ Nth(a, Distance(a, b) + 1) = b
         /\ \A k \in 1 .. Distance(a, b) : Nth(a, k) # b
         /\ \A k \in 1 .. Distance(a, b) : k + 1 <= FifoEntries
                                           /\ Nth(AdvanceHead(a), k) = Nth(a, k + 1)
         /\ Nth(a, 1) = a
<1>1. FifoEntries \in Nat \ {0} /\ a \in 0 .. FifoEntries - 1 /\ b \in 0 .. FifoEntries - 1
      /\ AdvanceHead(a) \in Slots
  BY FifoAssumption, NextSlot DEF Slots
<1>2. Distance(a, b) \in 0 .. FifoEntries - 1
      /\ Distance(a, b) = IF a <= b THEN b - a ELSE b - a + FifoEntries
  BY DistanceIs
<1>3. AdvanceHead(a) = IF a + 1 < FifoEntries THEN a + 1 ELSE 0
  BY NextSlot
<1>4. \A k \in 1 .. FifoEntries :
        Nth(a, k) = IF a + k - 1 < FifoEntries THEN a + k - 1 ELSE a + k - 1 - FifoEntries
  BY NthIs
<1>5. \A k \in 1 .. FifoEntries :
        Nth(AdvanceHead(a), k) = IF AdvanceHead(a) + k - 1 < FifoEntries THEN AdvanceHead(a) + k - 1
                                 ELSE AdvanceHead(a) + k - 1 - FifoEntries
  BY <1>1, NthIs
<1>6. Nth(a, Distance(a, b) + 1) = b /\ Nth(a, 1) = a
  <2>1. Distance(a, b) + 1 \in 1 .. FifoEntries /\ 1 \in 1 .. FifoEntries
    BY <1>1, <1>2
  <2> QED
    BY <1>1, <1>2, <1>4, <2>1
<1>7. ASSUME NEW k \in 1 .. Distance(a, b)
      PROVE  k + 1 <= FifoEntries /\ Nth(a, k) # b /\ Nth(AdvanceHead(a), k) = Nth(a, k + 1)
  <2>1. k \in 1 .. FifoEntries /\ k + 1 \in 1 .. FifoEntries
    BY <1>1, <1>2
  <2> QED
    BY <1>1, <1>2, <1>3, <1>4, <1>5, <2>1
<1> QED
  BY <1>6, <1>7

-----------------------------------------------------------------------------
Rings == [k_base : [Slots -> Entries], head : Slots, tail_cache : Slots]

(* The entries between two slots, as a sequence.                           *)
LEMMA RingIs ==
  ASSUME NEW q \in Rings, NEW a \in Slots, NEW b \in Slots
  PROVE  /\ Ring(q, a, b) \in Seq(Entries) /\ Len(Ring(q, a, b)) = Distance(a, b)
         /\ \A k \in 1 .. Distance(a, b) : Ring(q, a, b)[k] = q.k_base[Nth(a, k)]
         /\ \A k \in 1 .. Distance(a, b) : Nth(a, k) \in Slots
<1>1. FifoEntries \in Nat \ {0} /\ Distance(a, b) \in 0 .. FifoEntries - 1
  BY FifoAssumption, DistanceIs
<1>2. \A k \in 1 .. Distance(a, b) : Nth(a, k) \in Slots
  BY <1>1, NthIs
<1>3. Ring(q, a, b) = [k \in 1 .. Distance(a, b) |-> q.k_base[Nth(a, k)]]
  BY DEF Ring, Nth
<1>4. \A k \in 1 .. Distance(a, b) : q.k_base[Nth(a, k)] \in Entries
  BY <1>2 DEF Rings
<1> QED
  BY <1>1, <1>2, <1>3, <1>4

(* What is stored outside the entries does not change them.                *)
LEMMA RingKept ==
  ASSUME NEW q \in Rings, NEW r \in Rings, NEW a \in Slots, NEW b \in Slots,
         \A s \in Slots : s # b => r.k_base[s] = q.k_base[s]
  PROVE  Ring(r, a, b) = Ring(q, a, b)
<1>1. \A k \in 1 .. Distance(a, b) : r.k_base[Nth(a, k)] = q.k_base[Nth(a, k)]
  BY RingIs, NthSlots
<1> QED
  BY <1>1 DEF Ring, Nth

(* FIFO_WRITE appends its entry, unless the ring is full.                  *)
LEMMA Appends ==
  ASSUME NEW q \in Rings, NEW r \in Rings, NEW a \in Slots, NEW e,
         Distance(a, q.head) + 1 < FifoEntries,
         r.head = AdvanceHead(q.head), r.k_base[q.head] = e,
         \A s \in Slots : s # q.head => r.k_base[s] = q.k_base[s]
  PROVE  Ring(r, a, r.head) = Append(Ring(q, a, q.head), e)
<1> DEFINE n == Distance(a, q.head)
<1>0. q.head \in Slots /\ r.head \in Slots
  BY DEF Rings
<1>1. Distance(a, r.head) = n + 1 /\ n \in Nat
  BY <1>0, EndMoves, DistanceIs
<1>2. /\ Ring(q, a, q.head) \in Seq(Entries) /\ Len(Ring(q, a, q.head)) = n
      /\ \A k \in 1 .. n : Ring(q, a, q.head)[k] = q.k_base[Nth(a, k)]
      /\ \A k \in 1 .. n : Nth(a, k) \in Slots
  BY <1>0, RingIs
<1>3. /\ Ring(r, a, r.head) \in Seq(Entries) /\ Len(Ring(r, a, r.head)) = n + 1
      /\ \A k \in 1 .. n + 1 : Ring(r, a, r.head)[k] = r.k_base[Nth(a, k)]
  <2> DEFINE h == r.head
  <2>1. h \in Slots /\ Distance(a, h) = n + 1
    BY <1>0, <1>1
  <2> HIDE DEF h, n
  <2>2. /\ Ring(r, a, h) \in Seq(Entries) /\ Len(Ring(r, a, h)) = Distance(a, h)
        /\ \A k \in 1 .. Distance(a, h) : Ring(r, a, h)[k] = r.k_base[Nth(a, k)]
    BY <2>1, RingIs
  <2> QED
    BY <2>1, <2>2 DEF h
<1>4. Nth(a, n + 1) = q.head /\ \A k \in 1 .. n : Nth(a, k) # q.head
  BY <1>0, NthSlots
<1>5. Ring(r, a, r.head)[n + 1] = e
  BY <1>1, <1>3, <1>4
<1>6. \A k \in 1 .. n : Ring(r, a, r.head)[k] = Ring(q, a, q.head)[k]
  <2> SUFFICES ASSUME NEW k \in 1 .. n PROVE Ring(r, a, r.head)[k] = Ring(q, a, q.head)[k]
    OBVIOUS
  <2>1. k \in 1 .. n + 1
    BY <1>1
  <2> QED
    BY <1>2, <1>3, <1>4, <2>1
<1> DEFINE R == Ring(q, a, q.head)
           T == Ring(r, a, r.head)
<1> HIDE DEF n, R, T
<1>7. /\ Append(R, e) \in Seq(Entries) /\ Len(Append(R, e)) = n + 1
      /\ Append(R, e)[n + 1] = e /\ \A k \in 1 .. n : Append(R, e)[k] = R[k]
  <2>1. e \in Entries /\ R \in Seq(Entries) /\ Len(R) = n
    BY <1>0, <1>2 DEF Rings, R
  <2> QED
    BY <1>1, <2>1
<1>8. T = Append(R, e)
  <2>1. \A k \in 1 .. n + 1 : k = n + 1 \/ k \in 1 .. n
    BY <1>1
  <2>2. /\ T \in Seq(Entries) /\ Len(T) = n + 1 /\ T[n + 1] = e
        /\ \A k \in 1 .. n : T[k] = R[k]
    BY <1>3, <1>5, <1>6 DEF R, T
  <2> QED
    BY <1>1, <1>7, <2>1, <2>2
<1> QED
  BY <1>8 DEF R, T

(* FIFO_WRITE stores one entry and moves the head on.                      *)
LEMMA FifoWrite ==
  ASSUME NEW q \in Rings, NEW e \in Entries
  PROVE  /\ FIFO_WRITE(q, e) \in Rings
         /\ FIFO_WRITE(q, e).head = AdvanceHead(q.head)
         /\ FIFO_WRITE(q, e).tail_cache = q.tail_cache
         /\ FIFO_WRITE(q, e).k_base[q.head] = e
         /\ \A s \in Slots : s # q.head => FIFO_WRITE(q, e).k_base[s] = q.k_base[s]
<1>1. q.head \in Slots /\ AdvanceHead(q.head) \in Slots
  BY NextSlot DEF Rings
<1> QED
  BY <1>1 DEF FIFO_WRITE, Rings

LEMMA WriteAppends ==
  ASSUME NEW q \in Rings, NEW e \in Entries, NEW a \in Slots,
         Distance(a, q.head) + 1 < FifoEntries
  PROVE  /\ FIFO_WRITE(q, e) \in Rings /\ FIFO_WRITE(q, e).tail_cache = q.tail_cache
         /\ Distance(a, FIFO_WRITE(q, e).head) = Distance(a, q.head) + 1
         /\ Ring(FIFO_WRITE(q, e), a, FIFO_WRITE(q, e).head) = Append(Ring(q, a, q.head), e)
<1>1. q.head \in Slots
  BY DEF Rings
<1> QED
  BY <1>1, FifoWrite, Appends, EndMoves

(* The card takes the first entry.                                         *)
LEMMA Takes ==
  ASSUME NEW q \in Rings, NEW a \in Slots, NEW b \in Slots, a # b
  PROVE  /\ Ring(q, a, b) # <<>> /\ q.k_base[a] = Head(Ring(q, a, b))
         /\ Ring(q, AdvanceHead(a), b) = Tail(Ring(q, a, b))
<1> DEFINE n == Distance(a, b)
           R == Ring(q, a, b)
           T == Ring(q, AdvanceHead(a), b)
<1>1. AdvanceHead(a) \in Slots /\ n \in Nat /\ n >= 1 /\ Distance(AdvanceHead(a), b) = n - 1
  BY NextSlot, StartMoves, DistanceIs
<1>2. /\ R \in Seq(Entries) /\ Len(R) = n
      /\ \A k \in 1 .. n : R[k] = q.k_base[Nth(a, k)]
  BY RingIs
<1>3. /\ T \in Seq(Entries) /\ Len(T) = n - 1
      /\ \A k \in 1 .. n - 1 : T[k] = q.k_base[Nth(AdvanceHead(a), k)]
  BY <1>1, RingIs
<1>4. Nth(a, 1) = a /\ \A k \in 1 .. n : Nth(AdvanceHead(a), k) = Nth(a, k + 1)
  BY NthSlots
<1> HIDE DEF n, R, T
<1>5. R # <<>> /\ Head(R) = q.k_base[a]
  BY <1>1, <1>2, <1>4
<1>6. \A k \in 1 .. n - 1 : T[k] = R[k + 1]
  <2> SUFFICES ASSUME NEW k \in 1 .. n - 1 PROVE T[k] = R[k + 1]
    OBVIOUS
  <2>1. k \in 1 .. n /\ k + 1 \in 1 .. n
    BY <1>1
  <2> QED
    BY <1>2, <1>3, <1>4, <2>1
<1>7. /\ Tail(R) \in Seq(Entries) /\ Len(Tail(R)) = n - 1
      /\ \A k \in 1 .. n - 1 : Tail(R)[k] = R[k + 1]
  BY <1>1, <1>2, <1>5
<1>8. T = Tail(R)
  BY <1>3, <1>6, <1>7
<1> QED
  BY <1>5, <1>8 DEF R, T

-----------------------------------------------------------------------------
(* An entry that makes the card transfer a buffer; a sequence without one; *)
(* one in which entry k is the only one and starts the transfer of b.      *)
Starting(e) == e.command = "BufferA_Config" /\ e.value # 0
NoneStarting(P) == \A k \in 1 .. Len(P) : ~ Starting(P[k])
StartsAt(P, k, b, address) ==
  /\ k \in 1 .. Len(P) /\ Starting(P[k]) /\ P[k].value = Count
  /\ \A j \in 1 .. Len(P) : Starting(P[j]) => j = k
  /\ IF k = 1 THEN address = b ELSE P[k - 1] = Entry("BufferA_Address", b)

(* Drawing commands, and a hand-over of no words, start nothing.           *)
LEMMA AppendNone ==
  ASSUME NEW P \in Seq(Entries), NoneStarting(P), NEW e \in Entries, ~ Starting(e)
  PROVE  Append(P, e) \in Seq(Entries) /\ NoneStarting(Append(P, e))
<1>1. /\ Append(P, e) \in Seq(Entries) /\ Len(Append(P, e)) = Len(P) + 1 /\ Len(P) \in Nat
      /\ Append(P, e)[Len(P) + 1] = e
      /\ \A k \in 1 .. Len(P) : Append(P, e)[k] = P[k]
  OBVIOUS
<1>2. \A k \in 1 .. Len(P) + 1 : k = Len(P) + 1 \/ k \in 1 .. Len(P)
  BY <1>1
<1> QED
  BY <1>1, <1>2 DEF NoneStarting

(* The entries the driver writes and what they start.                      *)
LEMMA EntryIs ==
  ASSUME NEW v \in Nat
  PROVE  /\ Entry("BufferA_Address", v) \in Entries /\ ~ Starting(Entry("BufferA_Address", v))
         /\ Entry("BufferA_Config", v) \in Entries /\ Entry("BufferA_Config", v).value = v
         /\ Starting(Entry("BufferA_Config", v)) <=> v # 0
<1>1. "BufferA_Address" \in CommandNames /\ "BufferA_Config" \in CommandNames
  BY DEF CommandNames
<1>2. "BufferA_Address" # "BufferA_Config"
  OBVIOUS
<1> QED
  BY <1>1, <1>2 DEF Starting, Entry, Entries

(* The two entries of a hand-over.                                         *)
Handover(P, b, c) ==
  Append(Append(P, Entry("BufferA_Address", b)), Entry("BufferA_Config", c))

LEMMA HandoverNone ==
  ASSUME NEW P \in Seq(Entries), NoneStarting(P), NEW b \in Nat
  PROVE  NoneStarting(Handover(P, b, 0))
<1> DEFINE a == Entry("BufferA_Address", b)
           c == Entry("BufferA_Config", 0)
<1>1. a \in Entries /\ c \in Entries /\ ~ Starting(a) /\ ~ Starting(c)
  BY EntryIs
<1> HIDE DEF a, c
<1>2. Append(P, a) \in Seq(Entries) /\ NoneStarting(Append(P, a))
  BY <1>1, AppendNone
<1> QED
  BY <1>1, <1>2, AppendNone DEF Handover, a, c

LEMMA HandoverStarts ==
  ASSUME NEW P \in Seq(Entries), NoneStarting(P), NEW b \in Nat, NEW address
  PROVE  /\ Len(Handover(P, b, Count)) = Len(P) + 2
         /\ StartsAt(Handover(P, b, Count), Len(P) + 2, b, address)
<1> DEFINE a == Entry("BufferA_Address", b)
           c == Entry("BufferA_Config", Count)
           H == Handover(P, b, Count)
           n == Len(P)
<1>1. /\ a \in Entries /\ c \in Entries /\ ~ Starting(a) /\ Starting(c) /\ c.value = Count
  BY EntryIs DEF Count
<1>2. H = Append(Append(P, a), c)
  BY DEF Handover
<1> HIDE DEF a, c, H
<1>3. /\ n \in Nat /\ Len(H) = n + 2 /\ H[n + 2] = c /\ H[n + 1] = a
      /\ \A k \in 1 .. n : H[k] = P[k]
  BY <1>1, <1>2
<1>4. \A j \in 1 .. n + 2 : j = n + 2 \/ j = n + 1 \/ j \in 1 .. n
  BY <1>3
<1>5. n + 2 \in 1 .. Len(H) /\ n + 2 # 1 /\ (n + 2) - 1 = n + 1
  BY <1>3
<1>6. \A j \in 1 .. Len(H) : Starting(H[j]) => j = n + 2
  BY <1>1, <1>3, <1>4 DEF NoneStarting
<1> QED
  BY <1>1, <1>3, <1>5, <1>6 DEF StartsAt, H, a

(* What is appended leaves the entries before it alone.                    *)
Longer(P, R) ==
  R \in Seq(Entries) /\ Len(P) < Len(R) /\ \A k \in 1 .. Len(P) : R[k] = P[k]

LEMMA AppendLonger ==
  ASSUME NEW P \in Seq(Entries), NEW e \in Entries
  PROVE  Longer(P, Append(P, e))
BY DEF Longer

LEMMA LongerTransitive ==
  ASSUME NEW P \in Seq(Entries), NEW Q, NEW R, Longer(P, Q), Longer(Q, R)
  PROVE  Longer(P, R)
<1>1. /\ Len(P) \in Nat /\ Len(Q) \in Nat /\ Len(R) \in Nat /\ R \in Seq(Entries)
      /\ Len(P) < Len(Q) /\ Len(Q) < Len(R)
      /\ \A k \in 1 .. Len(P) : Q[k] = P[k]
      /\ \A k \in 1 .. Len(Q) : R[k] = Q[k]
  BY DEF Longer
<1>2. \A k \in 1 .. Len(P) : k \in 1 .. Len(Q)
  BY <1>1
<1> QED
  BY <1>1, <1>2 DEF Longer

LEMMA HandoverLonger ==
  ASSUME NEW P \in Seq(Entries), NEW b \in Nat, NEW c \in Nat
  PROVE  Longer(P, Handover(P, b, c))
<1> DEFINE e == Entry("BufferA_Address", b)
           f == Entry("BufferA_Config", c)
<1>1. e \in Entries /\ f \in Entries /\ Handover(P, b, c) = Append(Append(P, e), f)
  BY EntryIs DEF Handover
<1> HIDE DEF e, f
<1>2. Longer(P, Append(P, e)) /\ Append(P, e) \in Seq(Entries)
  BY <1>1, AppendLonger
<1>3. Longer(Append(P, e), Append(Append(P, e), f))
  BY <1>1, <1>2, AppendLonger
<1> QED
  BY <1>1, <1>2, <1>3, LongerTransitive

LEMMA LongerPrefix ==
  ASSUME NEW P \in Seq(Entries), NEW R, Longer(P, R)
  PROVE  IsStrictPrefix(P, R)
<1>1. /\ R \in Seq(Entries) /\ Len(P) \in Nat /\ Len(R) \in Nat /\ Len(P) < Len(R)
      /\ \A k \in 1 .. Len(P) : R[k] = P[k]
  BY DEF Longer
<1>2. P # R /\ Len(P) <= Len(R)
  BY <1>1
<1>3. SubSeq(P, 1, Len(P)) = SubSeq(R, 1, Len(P))
  BY <1>1
<1> QED
  BY <1>2, <1>3 DEF IsStrictPrefix, IsPrefix

(* The card takes the first entry.                                         *)
LEMMA TailNone ==
  ASSUME NEW P \in Seq(Entries), P # <<>>, NoneStarting(P)
  PROVE  ~ Starting(Head(P)) /\ NoneStarting(Tail(P))
<1>1. /\ Len(P) \in Nat \ {0} /\ Head(P) = P[1] /\ Len(Tail(P)) = Len(P) - 1
      /\ \A k \in 1 .. Len(P) - 1 : Tail(P)[k] = P[k + 1]
  BY EmptySeq
<1>2. 1 \in 1 .. Len(P) /\ \A k \in 1 .. Len(P) - 1 : k + 1 \in 1 .. Len(P)
  BY <1>1
<1> QED
  BY <1>1, <1>2 DEF NoneStarting

LEMMA TailStarts ==
  ASSUME NEW P \in Seq(Entries), NEW k, NEW b, NEW address, StartsAt(P, k, b, address),
         NEW next, Head(P) = Entry("BufferA_Address", b) => next = b
  PROVE  /\ k = 1 => Starting(Head(P)) /\ Head(P).value = Count /\ address = b
                     /\ NoneStarting(Tail(P))
         /\ k # 1 => ~ Starting(Head(P)) /\ StartsAt(Tail(P), k - 1, b, next)
<1> DEFINE n == Len(P)
           T == Tail(P)
<1>1. /\ k \in 1 .. n /\ n \in Nat /\ Starting(P[k]) /\ P[k].value = Count
      /\ \A j \in 1 .. n : Starting(P[j]) => j = k
      /\ k = 1 => address = b
      /\ k # 1 => P[k - 1] = Entry("BufferA_Address", b)
  BY DEF StartsAt
<1>2. /\ P # <<>> /\ Head(P) = P[1] /\ Len(T) = n - 1
      /\ \A j \in 1 .. n - 1 : T[j] = P[j + 1]
  BY <1>1, EmptySeq
<1> HIDE DEF n, T
<1>3. 1 \in 1 .. n /\ \A j \in 1 .. n - 1 : j + 1 \in 1 .. n /\ j + 1 # 1
  BY <1>1
<1>4. CASE k = 1
  <2>1. \A j \in 1 .. n - 1 : ~ Starting(T[j])
    BY <1>1, <1>2, <1>3, <1>4
  <2> QED
    BY <1>1, <1>2, <1>4, <2>1 DEF NoneStarting, T
<1>5. CASE k # 1
  <2>1. k - 1 \in 1 .. n - 1 /\ (k - 1) + 1 = k
    BY <1>1, <1>5
  <2>2. ~ Starting(Head(P)) /\ T[k - 1] = P[k]
    BY <1>1, <1>2, <1>3, <1>5, <2>1
  <2>3. \A j \in 1 .. n - 1 : Starting(T[j]) => j = k - 1
    BY <1>1, <1>2, <1>3
  <2>4. CASE k = 2
    <3>1. next = b
      BY <1>1, <1>2, <2>4
    <3> QED
      BY <1>1, <1>2, <1>5, <2>1, <2>2, <2>3, <2>4, <3>1 DEF StartsAt, T
  <2>5. CASE k # 2
    <3>1. k - 2 \in 1 .. n - 1 /\ (k - 2) + 1 = k - 1 /\ (k - 1) - 1 = k - 2 /\ k - 1 # 1
      BY <1>1, <1>5, <2>5
    <3>2. T[k - 2] = P[k - 1]
      BY <1>2, <3>1
    <3> QED
      BY <1>1, <1>2, <1>5, <2>1, <2>2, <2>3, <3>1, <3>2 DEF StartsAt, T
  <2> QED
    BY <2>4, <2>5
<1> QED
  BY <1>4, <1>5

-----------------------------------------------------------------------------
(***************************************************************************)
(* The inductive invariant.  FifoTypes and DmaTypes give the types.        *)
(* RingInv orders the four places of the command ring: the tail the driver *)
(* remembers, the card's tail, the card's head and the driver's head.      *)
(***************************************************************************)
FifoTypes ==
  /\ fifo \in Rings
  /\ reg \in [FifoHead : Slots, FifoTail : Slots]
  /\ pc \in {"closed", "pause", "user", "queue", "flushing", "flush", "bind", "direct", "kick",
             "kicking", "later", "full", "wait", "woken"}

Transfers == [buf : Nat, count : Nat, data : Nat]
DmaTypes ==
  /\ dma_fill \in Bufs /\ dma_drain \in Bufs /\ index \in Bufs
  /\ isFull \in BOOLEAN /\ handler \in BOOLEAN
  /\ cmdCount \in [Bufs -> {0, Count}] /\ content \in [Bufs -> Nat]
  /\ umap \in Seq(Bufs) /\ starts \in Nat /\ i \in Nat
  /\ started \in Seq(Transfers)
  /\ card \in [address : Nat, busy : Transfers, irq : BOOLEAN]

Used == pc \notin {"closed", "pause"}
Executed == Distance(fifo.tail_cache, reg.FifoTail)
Kicked == Distance(reg.FifoTail, reg.FifoHead)
Waits == Distance(reg.FifoTail, fifo.head)
Written == Distance(fifo.tail_cache, fifo.head)

RingInv ==
  /\ Used => Executed + Waits = Written /\ Kicked <= Waits
  /\ ~ Used => reg.FifoTail = reg.FifoHead
  /\ pc = "pause" => fifo = init_fifo

(* Everything that is still to be written fits into the ring.              *)
ToCome == 2 * (Len(started) + One(card.irq))
          + (IF pc = "direct" THEN 2 ELSE IF pc = "queue" THEN 1 ELSE 0)
RoomInv == Written + ToCome < FifoEntries

(* No interrupt handler writes between the two stores of FIFO_QUEUE, nor   *)
(* between the load and the store of a kick: the card has nothing to do,   *)
(* or has not been shown the entry that will start its transfer, the last. *)
Kicking == pc \in {"kick", "kicking"}
QueueInv ==
  /\ pc \in {"queue", "flushing"} =>
       /\ ~ card.irq /\ card.busy = None /\ reg.FifoTail = reg.FifoHead
  /\ pc = "queue" =>
       arg.entry \in UserEntries /\ fifo.k_base[fifo.head].command = arg.entry.command
  /\ Kicking =>
       /\ ~ card.irq /\ card.busy = None /\ Kicked < Waits
       /\ \A k \in 1 .. Waits : Starting(Pending[k]) => k = Waits
  /\ pc \in {"queue", "flushing", "kicking"} => arg.slot = fifo.head

(* The program's addresses map the buffers in their order.                 *)
Wrap(n) == IF n < NumBufs THEN n ELSE 0
BindInv ==
  /\ \A k \in 1 .. Len(umap) : umap[k] = k - 1
  /\ Len(umap) <= NumBufs /\ index = Wrap(Len(umap))
  /\ pc # "bind" => Len(umap) \in {0, NumBufs}
  /\ pc = "bind" => starts = 0
  /\ ~ Used => umap = <<>>
  /\ starts = 0 => dma_fill = 0 /\ dma_drain = 0 /\ ~ isFull /\ \A b \in Bufs : cmdCount[b] = 0

(***************************************************************************)
(* While buffers are bound, dma_fill and dma_drain count the buffers that  *)
(* went into the ring and those the handler is done with.  cmdCount is set *)
(* for the buffers that wait for the handler only, so that a handler which *)
(* finds nothing started hands over a transfer of no words.                *)
(***************************************************************************)
Bound == umap # <<>> /\ pc # "bind"
Locking == pc \in {"direct", "later"}
Filled == starts - One(Locking)
Drained == starts - Len(started) - One(card.irq)

CountInv == Bound =>
  /\ i = starts /\ starts <= NumBufs
  /\ 0 <= Drained /\ Drained <= Filled
  /\ dma_fill = Wrap(Filled) /\ dma_drain = Wrap(Drained)
  /\ isFull => Filled = NumBufs /\ Drained = 0 /\ NumBufs >= 2
  /\ pc = "direct" => Drained = Filled
  /\ pc = "later" => Drained < Filled
  /\ cmdCount[0] = 0
  /\ \A b \in Bufs : /\ Drained < b /\ b < Filled => cmdCount[b] = Count
                     /\ Filled <= b => cmdCount[b] = 0
                     /\ b < starts => content[b] = b + 1
  /\ \A k \in 1 .. Len(started) :
       started[k] = [buf |-> starts - Len(started) + k - 1, count |-> Count,
                     data |-> starts - Len(started) + k]

(***************************************************************************)
(* What the card is about: nothing, or the transfer of one buffer b, which *)
(* is in the command ring where the card will find it, in progress, or     *)
(* over with its interrupt pending.                                        *)
(***************************************************************************)
Visible == IF Kicking THEN Waits ELSE Kicked
Resting(P, c) == ~ c.irq /\ c.busy = None /\ NoneStarting(P)
Ending(P, c) == c.irq /\ c.busy = None /\ NoneStarting(P)
Moving(P, c, b) ==
  ~ c.irq /\ c.busy = [buf |-> b, count |-> Count, data |-> b + 1] /\ NoneStarting(P)
Ordered(P, c, b, last) ==
  ~ c.irq /\ c.busy = None
  /\ \E k \in 1 .. Len(P) : StartsAt(P, k, b, c.address) /\ k <= last
Transferring(P, c, b, last) == Ending(P, c) \/ Moving(P, c, b) \/ Ordered(P, c, b, last)

TransferInv == Bound =>
  /\ Drained = Filled => Resting(Pending, card)
  /\ Drained < Filled => Transferring(Pending, card, Drained, Visible)

UnboundInv == ~ Bound =>
  /\ started = <<>> /\ ~ Locking
  /\ ~ card.irq /\ card.busy = None
  /\ Used => NoneStarting(Pending)

BufferInv == DmaTypes /\ BindInv /\ CountInv /\ TransferInv /\ UnboundInv
KyoukoInv == FifoTypes /\ RingInv /\ RoomInv /\ QueueInv /\ BufferInv

(* The constants.                                                          *)
LEMMA Sizes == FifoEntries \in Nat \ {0} /\ NumBufs \in Nat \ {0} /\ 0 \in Slots /\ 0 \in Bufs
BY FifoAssumption, DmaAssumption DEF Slots, Bufs

LEMMA SuccIs ==
  ASSUME NEW n \in Bufs
  PROVE  Succ(n) = Wrap(n + 1) /\ NextIndex(n) = Wrap(n + 1) /\ Wrap(n + 1) \in Bufs
<1> DEFINE x == n + 1
<1>1. NumBufs \in Nat \ {0} /\ x \in Int /\ -NumBufs <= x /\ x < 2 * NumBufs /\ 0 <= x /\ x <= NumBufs
  BY Sizes DEF Bufs
<1> HIDE DEF x
<1>2. x % NumBufs = IF x < 0 THEN x + NumBufs ELSE IF x < NumBufs THEN x ELSE x - NumBufs
  BY <1>1, Wrapped
<1>3. x % NumBufs = Wrap(x) /\ Wrap(x) \in Bufs
  BY <1>1, <1>2 DEF Wrap, Bufs
<1> QED
  BY <1>3 DEF Succ, NextIndex, x

(* The ring of commands under the types.                                   *)
LEMMA RingFacts ==
  ASSUME FifoTypes
  PROVE  /\ fifo.head \in Slots /\ fifo.tail_cache \in Slots
         /\ reg.FifoHead \in Slots /\ reg.FifoTail \in Slots
         /\ Executed \in Nat /\ Kicked \in Nat /\ Waits \in Nat /\ Written \in Nat
         /\ Pending \in Seq(Entries) /\ Len(Pending) = Waits
         /\ Visible \in Nat /\ (RingInv /\ Used => Visible <= Waits)
<1>1. /\ fifo \in Rings /\ fifo.head \in Slots /\ fifo.tail_cache \in Slots
      /\ reg.FifoHead \in Slots /\ reg.FifoTail \in Slots
  BY DEF FifoTypes, Rings
<1>2. Executed \in Nat /\ Kicked \in Nat /\ Waits \in Nat /\ Written \in Nat
  BY <1>1, DistanceIs DEF Executed, Kicked, Waits, Written
<1>3. Pending \in Seq(Entries) /\ Len(Pending) = Waits
  BY <1>1, RingIs DEF Pending, Waits
<1>4. Visible \in Nat /\ (RingInv /\ Used => Visible <= Waits)
  BY <1>2 DEF Visible, RingInv, Kicking
<1> QED
  BY <1>1, <1>2, <1>3, <1>4

LEMMA EmptyRing == init_fifo \in Rings /\ init_fifo.head = 0 /\ init_fifo.tail_cache = 0
<1>1. Garbage \in Entries
  BY DEF Garbage, Entry, Entries, CommandNames
<1> QED
  BY <1>1, Sizes DEF init_fifo, Rings

LEMMA KyoukoInit == Init => KyoukoInv
<1> SUFFICES ASSUME Init PROVE KyoukoInv
  OBVIOUS
<1>1. /\ fifo = init_fifo /\ reg = [FifoHead |-> 0, FifoTail |-> 0] /\ pc = "closed"
      /\ umap = <<>> /\ started = <<>> /\ starts = 0
      /\ card = [address |-> 0, busy |-> None, irq |-> FALSE]
  BY DEF Init, InitFifo, init_fifo
<1>2. FifoTypes /\ Written = 0
  <2>1. FifoTypes
    BY <1>1, Sizes, EmptyRing DEF FifoTypes
  <2>2. fifo.head = 0 /\ fifo.tail_cache = 0
    BY <1>1, EmptyRing
  <2> QED
    BY <2>1, <2>2, Sizes, NoDistance DEF Written
<1>3. DmaTypes
  <2>1. card \in [address : Nat, busy : Transfers, irq : BOOLEAN]
    BY <1>1 DEF None, Transfers
  <2> QED
    BY <1>1, <2>1, Sizes DEF Init, DmaTypes
<1>4. RingInv /\ RoomInv /\ QueueInv
  BY <1>1, <1>2, Sizes DEF RingInv, RoomInv, ToCome, One, QueueInv, Used, Kicking
<1>5. BindInv
  BY <1>1, Sizes DEF Init, BindInv, Used, Wrap
<1>6. CountInv /\ TransferInv /\ UnboundInv
  BY <1>1 DEF CountInv, TransferInv, UnboundInv, Bound, Used, Locking
<1> QED
  BY <1>2, <1>3, <1>4, <1>5, <1>6 DEF KyoukoInv, BufferInv

(* What the driver does without touching a buffer, or the entries that wait *)
(* for the card, keeps the part of the invariant about the buffers.         *)
LEMMA BuffersKept ==
  ASSUME KyoukoInv, UNCHANGED dmavars,
         Used, pc \notin {"direct", "later", "bind"},
         pc' \notin {"closed", "pause", "direct", "later", "bind"},
         Pending' = Pending, Visible' \in Nat, Visible <= Visible'
  PROVE  BufferInv'
<1>1. UNCHANGED <<dma_fill, dma_drain, isFull, cmdCount, index, umap, handler, i, card, content,
                  started, starts>>
  BY DEF dmavars, ringvars, bindvars
<1>2. DmaTypes /\ BindInv /\ CountInv /\ TransferInv /\ UnboundInv /\ FifoTypes
  BY DEF KyoukoInv, BufferInv
<1>3. Used' /\ ~ Locking /\ ~ Locking' /\ Bound' = Bound
  BY <1>1 DEF Used, Locking, Bound
<1>4. Filled' = Filled /\ Drained' = Drained
  BY <1>1, <1>3 DEF Filled, Drained, One
<1>5. DmaTypes'
  BY <1>1, <1>2 DEF DmaTypes
<1>6. BindInv'
  BY <1>1, <1>2, <1>3 DEF BindInv
<1>7. CountInv'
  BY <1>1, <1>2, <1>3, <1>4 DEF CountInv, Locking
<1>8. TransferInv'
  <2>1. \A k \in 1 .. Len(Pending) : k <= Visible => k <= Visible'
    BY <1>2, RingFacts
  <2>2. Transferring(Pending, card, Drained, Visible) =>
          Transferring(Pending, card, Drained, Visible')
    BY <2>1 DEF Transferring, Ordered
  <2> QED
    BY <1>1, <1>2, <1>3, <1>4, <2>2 DEF TransferInv
<1>9. UnboundInv'
  BY <1>1, <1>2, <1>3 DEF UnboundInv
<1> QED
  BY <1>5, <1>6, <1>7, <1>8, <1>9 DEF BufferInv

(* What touches neither the ring nor a register.                           *)
Elsewhere == {"user", "flush", "full", "wait", "woken"}

LEMMA RingUnchanged ==
  ASSUME KyoukoInv, UNCHANGED <<fifo, reg, dmavars>>, pc \in Elsewhere, pc' \in Elsewhere
  PROVE  KyoukoInv'
<1>1. /\ FifoTypes /\ RingInv /\ RoomInv
      /\ UNCHANGED <<started, card>>
  BY DEF KyoukoInv, dmavars
<1>2. Used /\ Used' /\ Executed' = Executed /\ Waits' = Waits /\ Written' = Written
      /\ Kicked' = Kicked
  BY DEF Used, Elsewhere, Executed, Waits, Written, Kicked
<1>3. FifoTypes'
  BY <1>1 DEF FifoTypes, Elsewhere
<1>4. RingInv'
  BY <1>1, <1>2 DEF RingInv, Elsewhere
<1>5. RoomInv' /\ QueueInv'
  BY <1>1, <1>2 DEF RoomInv, ToCome, QueueInv, Elsewhere, Kicking
<1>6. Pending' = Pending /\ Visible' = Visible /\ Visible \in Nat
  <2>1. Pending' = Pending
    BY DEF Pending
  <2>2. Visible' = Visible /\ Visible \in Nat
    BY <1>1, <1>2, RingFacts DEF Visible, Elsewhere, Kicking
  <2> QED
    BY <2>1, <2>2
<1>7. BufferInv'
  BY <1>2, <1>6, BuffersKept DEF Elsewhere
<1> QED
  BY <1>3, <1>4, <1>5, <1>7 DEF KyoukoInv

LEMMA QuietSteps ==
  ASSUME KyoukoInv, VmodeOff \/ FlushReturn, UNCHANGED dmavars
  PROVE  KyoukoInv'
BY RingUnchanged DEF VmodeOff, FlushReturn, Elsewhere

LEMMA FullSteps ==
  ASSUME KyoukoInv, TestFull \/ WaitEnds(FALSE) \/ WaitEnds(TRUE)
  PROVE  KyoukoInv'
BY RingUnchanged DEF TestFull, WaitEnds, Elsewhere

(* A kick loads the head.                                                  *)
LEMMA LoadStep ==
  ASSUME KyoukoInv, UNCHANGED dmavars,
         LoadHead("kick", "kicking") \/ (Quiet /\ LoadHead("user", "flushing"))
  PROVE  KyoukoInv' /\ Pending' = Pending
<1>1. /\ FifoTypes /\ RingInv /\ RoomInv /\ QueueInv
      /\ UNCHANGED <<fifo, reg, dmavars, started, card>> /\ arg'.slot = fifo.head
      /\ \/ pc = "kick" /\ pc' = "kicking"
         \/ Quiet /\ pc = "user" /\ pc' = "flushing"
  BY DEF KyoukoInv, dmavars, LoadHead, NoArg
<1>2. /\ Used /\ Used' /\ Executed' = Executed /\ Waits' = Waits /\ Written' = Written
      /\ Kicked' = Kicked /\ Pending' = Pending /\ Kicking' = Kicking
  BY <1>1 DEF Used, Executed, Waits, Written, Kicked, Pending, Kicking
<1>3. FifoTypes' /\ RingInv' /\ RoomInv'
  BY <1>1, <1>2 DEF FifoTypes, RingInv, RoomInv, ToCome, One
<1>4. QueueInv'
  BY <1>1, <1>2 DEF QueueInv, Kicking, Quiet
<1>5. Visible' = Visible /\ Visible \in Nat
  BY <1>1, <1>2, RingFacts DEF Visible, Kicking
<1>6. BufferInv'
  BY <1>1, <1>2, <1>5, BuffersKept
<1> QED
  BY <1>2, <1>3, <1>4, <1>6 DEF KyoukoInv

(* Its store shows the card every entry that waits: the head is still the  *)
(* one that was loaded.                                                    *)
LEMMA KickStep ==
  ASSUME KyoukoInv, UNCHANGED dmavars, StoreHead("kicking", "user") \/ StoreHead("flushing", "flush")
  PROVE  KyoukoInv' /\ Pending' = Pending
<1>1. /\ FifoTypes /\ RingInv /\ RoomInv
      /\ UNCHANGED <<fifo, dmavars, started, card>>
      /\ reg' = [reg EXCEPT !.FifoHead = fifo.head]
      /\ pc \in {"kicking", "flushing"} /\ pc' \in {"user", "flush"}
  BY DEF KyoukoInv, QueueInv, dmavars, StoreHead, Kicking
<1>2. /\ reg' \in [FifoHead : Slots, FifoTail : Slots] /\ reg'.FifoHead = fifo.head
      /\ reg'.FifoTail = reg.FifoTail
  BY <1>1, RingFacts DEF FifoTypes
<1>3. Used /\ Used' /\ Executed' = Executed /\ Waits' = Waits /\ Written' = Written
      /\ Kicked' = Waits
  BY <1>1, <1>2 DEF Used, Executed, Waits, Written, Kicked
<1>4. Waits \in Nat /\ Visible <= Waits /\ Visible' = Waits /\ Pending' = Pending
  <2>1. Pending' = Pending
    BY <1>1, <1>2 DEF Pending
  <2>2. Waits \in Nat /\ Visible <= Waits
    BY <1>1, <1>3, RingFacts
  <2>3. Visible' = Waits
    BY <1>1, <1>3 DEF Visible, Kicking
  <2> QED
    BY <2>1, <2>2, <2>3
<1>5. FifoTypes'
  BY <1>1, <1>2 DEF FifoTypes
<1>6. RingInv'
  BY <1>1, <1>3, <1>4 DEF RingInv
<1>7. RoomInv' /\ QueueInv'
  BY <1>1, <1>3 DEF RoomInv, ToCome, QueueInv, Kicking
<1>8. BufferInv'
  BY <1>1, <1>3, <1>4, BuffersKept
<1> QED
  BY <1>4, <1>5, <1>6, <1>7, <1>8 DEF KyoukoInv

(* A poll of FIFO_FLUSH copies the card's tail.                            *)
LEMMA PollStep ==
  ASSUME KyoukoInv, FlushPoll, UNCHANGED dmavars
  PROVE  KyoukoInv'
<1>1. /\ FifoTypes /\ RingInv /\ RoomInv
      /\ UNCHANGED <<reg, pc, started, card>>
      /\ fifo' = [fifo EXCEPT !.tail_cache = reg.FifoTail]
      /\ pc = "flush"
  BY DEF KyoukoInv, dmavars, FlushPoll
<1>2. /\ fifo' \in Rings /\ fifo'.head = fifo.head /\ fifo'.tail_cache = reg.FifoTail
      /\ fifo'.k_base = fifo.k_base
  BY <1>1, RingFacts DEF FifoTypes, Rings
<1>3. Used /\ Used' /\ Waits' = Waits /\ Written' = Waits /\ Kicked' = Kicked
  BY <1>1, <1>2 DEF Used, Executed, Waits, Written, Kicked
<1>4. Executed' = 0
  BY <1>1, <1>2, RingFacts, NoDistance DEF Executed
<1>5. Waits \in Nat /\ Executed \in Nat /\ Written \in Nat /\ Kicked \in Nat
      /\ Executed + Waits = Written
  BY <1>1, <1>3, RingFacts DEF RingInv
<1>6. FifoTypes'
  BY <1>1, <1>2 DEF FifoTypes
<1>7. RingInv'
  BY <1>1, <1>3, <1>4, <1>5 DEF RingInv
<1>8. RoomInv' /\ QueueInv'
  <2>1. ToCome' = ToCome
    BY <1>1 DEF ToCome, One
  <2>2. ToCome \in Int
    BY DEF KyoukoInv, BufferInv, DmaTypes, ToCome, One
  <2> QED
    BY <1>1, <1>3, <1>5, <2>1, <2>2, Sizes DEF RoomInv, QueueInv, Kicking
<1>9. Pending' = Pending /\ Visible' = Visible
  <2>1. Pending' = Pending
    BY <1>1, <1>2 DEF Pending, Ring
  <2> QED
    BY <1>1, <1>3, <2>1 DEF Visible, Kicking
<1>10. BufferInv'
  BY <1>1, <1>3, <1>9, RingFacts, BuffersKept
<1> QED
  BY <1>6, <1>7, <1>8, <1>10 DEF KyoukoInv

(* The first store of FIFO_QUEUE goes into the slot behind the entries.     *)
LEMMA QueueStep ==
  ASSUME AsPrograms, KyoukoInv, FIFO_QUEUE
  PROVE  KyoukoInv' /\ Pending' = Pending
<1> PICK e \in UserEntries : QueueCommand(e)
  BY DEF FIFO_QUEUE
<1>1. /\ FifoTypes /\ RingInv /\ RoomInv /\ DmaTypes /\ Quiet
      /\ UNCHANGED <<reg, dmavars, started, card>>
      /\ fifo' = [fifo EXCEPT !.k_base[fifo.head].command = e.command]
      /\ arg' = [entry |-> e, slot |-> fifo.head]
      /\ pc = "user" /\ pc' = "queue" /\ Room(1 + Reserved)
  BY DEF KyoukoInv, BufferInv, dmavars, FIFO_QUEUE, QueueCommand, AsPrograms
<1>2. fifo.head \in Slots /\ fifo.k_base \in [Slots -> Entries] /\ fifo.k_base[fifo.head] \in Entries
  BY <1>1, RingFacts DEF FifoTypes, Rings
<1>3. e \in [command : STRING, value : Nat] /\ e.command \in CommandNames
  BY FifoAssumption DEF CommandNames
<1>4. /\ fifo' \in Rings /\ fifo'.head = fifo.head /\ fifo'.tail_cache = fifo.tail_cache
      /\ fifo'.k_base[fifo.head].command = e.command
      /\ \A s \in Slots : s # fifo.head => fifo'.k_base[s] = fifo.k_base[s]
  <2> DEFINE x == [fifo.k_base[fifo.head] EXCEPT !.command = e.command]
             base == [fifo.k_base EXCEPT ![fifo.head] = x]
  <2>1. x \in Entries /\ x.command = e.command
    BY <1>2, <1>3 DEF Entries
  <2>2. fifo' = [fifo EXCEPT !.k_base = base]
    BY <1>1
  <2> HIDE DEF x
  <2>3. base \in [Slots -> Entries] /\ base[fifo.head] = x
        /\ \A s \in Slots : s # fifo.head => base[s] = fifo.k_base[s]
    BY <1>2, <2>1
  <2> HIDE DEF base
  <2>4. fifo \in Rings
    BY <1>1 DEF FifoTypes
  <2> QED
    BY <2>1, <2>2, <2>3, <2>4 DEF Rings
<1>5. Used /\ Used' /\ Executed' = Executed /\ Waits' = Waits /\ Written' = Written
      /\ Kicked' = Kicked
  BY <1>1, <1>4 DEF Used, Executed, Waits, Written, Kicked
<1>6. Pending' = Pending
  <2>1. fifo \in Rings /\ reg.FifoTail \in Slots
    BY <1>1, RingFacts DEF FifoTypes
  <2>2. Ring(fifo', reg.FifoTail, fifo.head) = Ring(fifo, reg.FifoTail, fifo.head)
    BY <1>2, <1>4, <2>1, RingKept
  <2> QED
    BY <1>1, <1>4, <2>2 DEF Pending
<1>7. FifoTypes'
  BY <1>1, <1>4 DEF FifoTypes
<1>8. RingInv'
  BY <1>1, <1>5 DEF RingInv
<1>9. RoomInv'
  <2>1. ToCome' = Reserved + 1 /\ Reserved \in Nat
    BY <1>1 DEF ToCome, Reserved, One, DmaTypes
  <2>2. Written + (1 + Reserved) < FifoEntries
    BY <1>1 DEF Room, Written
  <2> QED
    BY <1>5, <2>1, <2>2, RingFacts, <1>1, Sizes DEF RoomInv
<1>10. QueueInv'
  BY <1>1, <1>4 DEF QueueInv, Quiet, Kicking
<1>11. Visible' = Visible
  BY <1>1, <1>5 DEF Visible, Kicking
<1>12. BufferInv'
  BY <1>1, <1>5, <1>6, <1>11, RingFacts, BuffersKept
<1> QED
  BY <1>6, <1>7, <1>8, <1>9, <1>10, <1>12 DEF KyoukoInv

(* A drawing command starts no transfer.                                   *)
LEMMA DrawsOnly ==
  ASSUME NEW e \in UserEntries
  PROVE  e \in Entries /\ ~ Starting(e)
<1>1. e \in [command : STRING, value : Nat] /\ e.command \in CommandNames
      /\ e.command # "BufferA_Config"
  BY FifoAssumption, DmaAssumption DEF CommandNames
<1> QED
  BY <1>1 DEF Entries, Starting

(* While the card has nothing to do no transfer is under way.              *)
LEMMA AtRest ==
  ASSUME KyoukoInv, Quiet, Used, ~ Kicking
  PROVE  /\ Bound => Drained = Filled
         /\ Resting(Pending, card)
<1>1. ~ card.irq /\ card.busy = None /\ Visible = 0
  <2>1. Kicked = 0
    BY RingFacts, NoDistance DEF Kicked, Quiet, KyoukoInv
  <2> QED
    BY <2>1 DEF Quiet, Visible, Kicking
<1>2. ~ Transferring(Pending, card, Drained, Visible)
  <2>1. ~ Ending(Pending, card)
    BY <1>1 DEF Ending
  <2>2. ~ Moving(Pending, card, Drained)
    BY <1>1 DEF Moving, None, Count
  <2>3. ~ Ordered(Pending, card, Drained, Visible)
    BY <1>1 DEF Ordered
  <2> QED
    BY <2>1, <2>2, <2>3 DEF Transferring
<1>3. CASE Bound
  <2>1. Drained \in Int /\ Filled \in Int /\ Drained <= Filled
    BY <1>3 DEF KyoukoInv, BufferInv, CountInv, DmaTypes, Drained, Filled, One
  <2> QED
    BY <1>2, <1>3, <2>1 DEF KyoukoInv, BufferInv, TransferInv
<1>4. CASE ~ Bound
  BY <1>1, <1>4 DEF KyoukoInv, BufferInv, UnboundInv, Resting
<1> QED
  BY <1>3, <1>4

(* The second store completes the entry; the head takes it in.             *)
LEMMA ValueStep ==
  ASSUME KyoukoInv, QueueValue, UNCHANGED dmavars
  PROVE  KyoukoInv' /\ Longer(Pending, Pending')
<1> DEFINE e == arg.entry
<1>1. /\ FifoTypes /\ RingInv /\ RoomInv /\ DmaTypes
      /\ UNCHANGED <<reg, dmavars, started, card>>
      /\ fifo' = [fifo EXCEPT !.k_base[fifo.head].value = e.value, !.head = AdvanceHead(fifo.head)]
      /\ pc = "queue" /\ pc' = "user" /\ ~ card.irq /\ Quiet
      /\ e \in UserEntries /\ fifo.k_base[fifo.head].command = e.command
  BY DEF KyoukoInv, BufferInv, dmavars, QueueValue, QueueInv, Quiet, Kicking
<1>2. fifo.head \in Slots /\ fifo.k_base \in [Slots -> Entries] /\ fifo.k_base[fifo.head] \in Entries
      /\ AdvanceHead(fifo.head) \in Slots
  BY <1>1, RingFacts, NextSlot DEF FifoTypes, Rings
<1>3. e \in Entries /\ ~ Starting(e)
  BY <1>1, DrawsOnly
<1> HIDE DEF e
<1>4. /\ fifo' \in Rings /\ fifo'.head = AdvanceHead(fifo.head)
      /\ fifo'.tail_cache = fifo.tail_cache /\ fifo'.k_base[fifo.head] = e
      /\ \A s \in Slots : s # fifo.head => fifo'.k_base[s] = fifo.k_base[s]
  <2> DEFINE x == [fifo.k_base[fifo.head] EXCEPT !.value = e.value]
             base == [fifo.k_base EXCEPT ![fifo.head] = x]
  <2>1. x = e
    BY <1>1, <1>2, <1>3 DEF Entries
  <2>2. fifo' = [fifo EXCEPT !.k_base = base, !.head = AdvanceHead(fifo.head)]
    BY <1>1
  <2> HIDE DEF x
  <2>3. base \in [Slots -> Entries] /\ base[fifo.head] = e
        /\ \A s \in Slots : s # fifo.head => base[s] = fifo.k_base[s]
    BY <1>2, <1>3, <2>1
  <2> HIDE DEF base
  <2>4. fifo \in Rings
    BY <1>1 DEF FifoTypes
  <2> QED
    BY <1>2, <2>2, <2>3, <2>4 DEF Rings
<1>5. /\ Executed \in Nat /\ Waits \in Nat /\ Written \in Nat /\ Kicked \in Nat
      /\ Executed + Waits = Written /\ Used /\ Used' /\ Kicked <= Waits
      /\ ToCome' \in Nat /\ ToCome \in Nat /\ ToCome >= 1 /\ ToCome = ToCome' + 1
      /\ Written + ToCome < FifoEntries
  <2>1. Used /\ Used'
    BY <1>1 DEF Used
  <2>2. Executed + Waits = Written /\ Kicked <= Waits
    BY <1>1, <2>1 DEF RingInv
  <2>3. ToCome' \in Nat /\ ToCome \in Nat /\ ToCome >= 1 /\ ToCome = ToCome' + 1
    BY <1>1 DEF ToCome, One, DmaTypes
  <2> QED
    BY <1>1, <2>1, <2>2, <2>3, RingFacts DEF RoomInv
<1>6. /\ Waits + 1 < FifoEntries /\ Written + 1 < FifoEntries
  <2> DEFINE n == ToCome
  <2>1. n \in Nat /\ n >= 1 /\ Written + n < FifoEntries
    BY <1>5
  <2>2. Executed \in Nat /\ Waits \in Nat /\ Written \in Nat /\ Executed + Waits = Written
    BY <1>5
  <2> HIDE DEF n
  <2> QED
    BY <2>1, <2>2, Sizes
<1>7. Executed' = Executed /\ Waits' = Waits + 1 /\ Written' = Written + 1 /\ Kicked' = Kicked
  BY <1>1, <1>4, <1>6, RingFacts, EndMoves DEF Executed, Waits, Written, Kicked
<1>8. Pending' = Append(Pending, e)
  <2>1. Distance(reg.FifoTail, fifo.head) + 1 < FifoEntries /\ fifo \in Rings /\ reg.FifoTail \in Slots
    BY <1>1, <1>6, RingFacts DEF Waits, FifoTypes
  <2>2. Ring(fifo', reg.FifoTail, fifo'.head) = Append(Ring(fifo, reg.FifoTail, fifo.head), e)
    BY <1>4, <2>1, Appends
  <2> QED
    BY <1>1, <2>2 DEF Pending
<1>9. FifoTypes'
  BY <1>1, <1>4 DEF FifoTypes
<1>10. RingInv'
  BY <1>1, <1>5, <1>7 DEF RingInv
<1>11. RoomInv' /\ QueueInv'
  BY <1>1, <1>5, <1>7, Sizes DEF RoomInv, QueueInv, Kicking
<1>12. /\ Bound => Drained = Filled
       /\ Resting(Pending, card)
  BY <1>1, <1>5, AtRest DEF Kicking
<1>13. Resting(Pending', card)
  BY <1>1, <1>3, <1>8, <1>12, RingFacts, AppendNone DEF Resting
<1>14. BufferInv'
  <2>1. UNCHANGED <<dma_fill, dma_drain, isFull, cmdCount, index, umap, handler, i, card, content,
                    started, starts>>
    BY <1>1 DEF dmavars, ringvars, bindvars
  <2>2. DmaTypes /\ BindInv /\ CountInv /\ UnboundInv
    BY DEF KyoukoInv, BufferInv
  <2>3. ~ Locking /\ ~ Locking' /\ Bound' = Bound /\ Filled' = Filled /\ Drained' = Drained
    BY <1>1, <2>1 DEF Locking, Bound, Filled, Drained, One
  <2>4. DmaTypes'
    BY <2>1, <2>2 DEF DmaTypes
  <2>5. BindInv'
    BY <1>1, <1>5, <2>1, <2>2 DEF BindInv
  <2>6. CountInv'
    BY <2>1, <2>2, <2>3 DEF CountInv, Locking
  <2>7. TransferInv' /\ UnboundInv'
    <3>1. Drained \in Int
      BY <2>2 DEF DmaTypes, Drained, One
    <3> QED
      BY <1>12, <1>13, <2>1, <2>2, <2>3, <3>1 DEF TransferInv, UnboundInv, Resting
  <2> QED
    BY <2>4, <2>5, <2>6, <2>7 DEF BufferInv
<1>15. Longer(Pending, Pending')
  BY <1>1, <1>3, <1>8, RingFacts, AppendLonger
<1> QED
  BY <1>9, <1>10, <1>11, <1>14, <1>15 DEF KyoukoInv

(* One more command that starts nothing.                                   *)
Draws(q, a, r, n) ==
  /\ r \in Rings /\ r.tail_cache = q.tail_cache
  /\ Distance(a, r.head) = Distance(a, q.head) + n
  /\ NoneStarting(Ring(q, a, q.head)) => NoneStarting(Ring(r, a, r.head))
  /\ r = q \/ Longer(Ring(q, a, q.head), Ring(r, a, r.head))

LEMMA DrawOne ==
  ASSUME NEW q \in Rings, NEW a \in Slots, NEW r, NEW n \in Nat, Draws(q, a, r, n),
         NEW e \in Entries, ~ Starting(e), Distance(a, q.head) + n + 1 < FifoEntries
  PROVE  Draws(q, a, FIFO_WRITE(r, e), n + 1)
<1>1. r \in Rings /\ r.head \in Slots /\ q.head \in Slots
  BY DEF Draws, Rings
<1>2. Distance(a, q.head) \in Nat /\ Distance(a, r.head) = Distance(a, q.head) + n
  BY <1>1, DistanceIs DEF Draws
<1>3. /\ FIFO_WRITE(r, e) \in Rings /\ FIFO_WRITE(r, e).tail_cache = r.tail_cache
      /\ Distance(a, FIFO_WRITE(r, e).head) = Distance(a, r.head) + 1
      /\ Ring(FIFO_WRITE(r, e), a, FIFO_WRITE(r, e).head) = Append(Ring(r, a, r.head), e)
  BY <1>1, <1>2, WriteAppends
<1>4. Ring(r, a, r.head) \in Seq(Entries)
  BY <1>1, RingIs
<1>5. NoneStarting(Ring(r, a, r.head)) => NoneStarting(Append(Ring(r, a, r.head), e))
  BY <1>4, AppendNone
<1>6. Longer(Ring(q, a, q.head), Append(Ring(r, a, r.head), e))
  <2>1. Longer(Ring(r, a, r.head), Append(Ring(r, a, r.head), e))
    BY <1>4, AppendLonger
  <2>2. Ring(q, a, q.head) \in Seq(Entries)
    BY <1>1, RingIs
  <2> QED
    BY <2>1, <2>2, LongerTransitive DEF Draws
<1> QED
  BY <1>2, <1>3, <1>5, <1>6 DEF Draws

LEMMA ClearDraws ==
  ASSUME NEW q \in Rings, NEW a \in Slots, Distance(a, q.head) + 6 < FifoEntries
  PROVE  Draws(q, a, Clear(q), 6)
<1> DEFINE r1 == FIFO_WRITE(q, Entry("Clear_Color", 0))
           r2 == FIFO_WRITE(r1, Entry("Clear_Color", 0))
           r3 == FIFO_WRITE(r2, Entry("Clear_Color", 0))
           r4 == FIFO_WRITE(r3, Entry("Clear_Color", 1))
           r5 == FIFO_WRITE(r4, Entry("Clear_Buffer", 3))
           r6 == FIFO_WRITE(r5, Entry("Flush", 0))
<1>1. Clear(q) = r6
  BY DEF Clear, ClearScreen
<1>2. /\ \A v \in Nat : Entry("Clear_Color", v) \in Entries /\ ~ Starting(Entry("Clear_Color", v))
      /\ Entry("Clear_Buffer", 3) \in Entries /\ ~ Starting(Entry("Clear_Buffer", 3))
      /\ Entry("Flush", 0) \in Entries /\ ~ Starting(Entry("Flush", 0))
  BY DEF Entry, Entries, CommandNames, Starting
<1>3. Distance(a, q.head) \in Nat /\ FifoEntries \in Nat
  BY DistanceIs, Sizes DEF Rings
<1>4. Draws(q, a, q, 0)
  BY <1>3 DEF Draws
<1>5. Draws(q, a, r1, 1)
  BY <1>2, <1>3, <1>4, DrawOne
<1> HIDE DEF r1
<1>6. Draws(q, a, r2, 2)
  BY <1>2, <1>3, <1>5, DrawOne
<1> HIDE DEF r2
<1>7. Draws(q, a, r3, 3)
  BY <1>2, <1>3, <1>6, DrawOne
<1> HIDE DEF r3
<1>8. Draws(q, a, r4, 4)
  BY <1>2, <1>3, <1>7, DrawOne
<1> HIDE DEF r4
<1>9. Draws(q, a, r5, 5)
  BY <1>2, <1>3, <1>8, DrawOne
<1> HIDE DEF r5
<1>10. Draws(q, a, r6, 6)
  BY <1>2, <1>3, <1>9, DrawOne
<1> QED
  BY <1>1, <1>10

(* The screen is cleared before any buffer is bound.                       *)
LEMMA ClearStep ==
  ASSUME KyoukoInv, VmodeOn, umap = <<>>, UNCHANGED dmavars
  PROVE  KyoukoInv' /\ Longer(Pending, Pending')
<1>1. /\ FifoTypes /\ RingInv /\ RoomInv /\ DmaTypes /\ UnboundInv
      /\ UNCHANGED <<reg, dmavars, started, card, pc>>
      /\ fifo' = Clear(fifo) /\ pc = "user" /\ Room(6)
  BY DEF KyoukoInv, BufferInv, dmavars, VmodeOn
<1>2. Used /\ Used' /\ ~ Bound /\ started = <<>> /\ ~ card.irq /\ NoneStarting(Pending)
  BY <1>1 DEF Used, Bound, UnboundInv
<1>3. /\ Executed \in Nat /\ Waits \in Nat /\ Written \in Nat /\ Kicked \in Nat
      /\ Executed + Waits = Written /\ Kicked <= Waits /\ Written + 6 < FifoEntries
  BY <1>1, <1>2, RingFacts DEF RingInv, Room, Written
<1>4. Draws(fifo, reg.FifoTail, fifo', 6) /\ Draws(fifo, fifo.tail_cache, fifo', 6)
  <2>1. /\ fifo \in Rings /\ reg.FifoTail \in Slots /\ fifo.tail_cache \in Slots
        /\ Distance(reg.FifoTail, fifo.head) + 6 < FifoEntries
        /\ Distance(fifo.tail_cache, fifo.head) + 6 < FifoEntries
    BY <1>1, <1>3, RingFacts, Sizes DEF FifoTypes, Waits, Written
  <2> QED
    BY <1>1, <2>1, ClearDraws
<1>5. fifo' \in Rings /\ fifo'.tail_cache = fifo.tail_cache
  BY <1>4 DEF Draws
<1>6. Executed' = Executed /\ Waits' = Waits + 6 /\ Written' = Written + 6 /\ Kicked' = Kicked
  BY <1>1, <1>4, <1>5 DEF Draws, Executed, Waits, Written, Kicked
<1>7. NoneStarting(Pending')
  BY <1>1, <1>2, <1>4 DEF Draws, Pending
<1>8. FifoTypes'
  BY <1>1, <1>5 DEF FifoTypes
<1>9. RingInv'
  BY <1>1, <1>2, <1>3, <1>6 DEF RingInv
<1>10. RoomInv' /\ QueueInv'
  <2>1. ToCome' = 0
    BY <1>1, <1>2 DEF ToCome, One
  <2> QED
    BY <1>1, <1>3, <1>6, <2>1, Sizes DEF RoomInv, QueueInv, Kicking
<1>11. BufferInv'
  <2>1. UNCHANGED <<dma_fill, dma_drain, isFull, cmdCount, index, umap, handler, i, card, content,
                    started, starts>>
    BY <1>1 DEF dmavars, ringvars, bindvars
  <2>2. DmaTypes' /\ BindInv'
    BY <1>1, <1>2, <2>1 DEF KyoukoInv, BufferInv, DmaTypes, BindInv
  <2>3. ~ Bound' /\ Locking' = Locking
    BY <1>1, <1>2, <2>1 DEF Bound, Locking
  <2> QED
    BY <1>2, <1>1, <1>7, <2>1, <2>2, <2>3 DEF BufferInv, CountInv, TransferInv, UnboundInv
<1>12. Longer(Pending, Pending')
  <2>1. fifo' # fifo
    BY <1>3, <1>6 DEF Written
  <2> QED
    BY <1>1, <1>4, <2>1 DEF Draws, Pending
<1> QED
  BY <1>8, <1>9, <1>10, <1>11, <1>12 DEF KyoukoInv

(* Opening empties the ring; the card's registers follow in pause().       *)
LEMMA OpenStep ==
  ASSUME KyoukoInv, kyouko3_open
  PROVE  KyoukoInv'
<1>1. /\ FifoTypes /\ RingInv /\ DmaTypes /\ BindInv /\ UnboundInv
      /\ fifo' = init_fifo /\ pc = "closed" /\ pc' = "pause"
      /\ dma_fill' = 0 /\ dma_drain' = 0
      /\ UNCHANGED <<reg, arg, isFull, cmdCount, index, umap, handler, i, card, content, started,
                     starts>>
  BY DEF KyoukoInv, BufferInv, kyouko3_open, Open, bindvars
<1>2. ~ Used /\ ~ Used' /\ umap = <<>> /\ ~ Bound /\ ~ Bound' /\ started = <<>> /\ ~ card.irq
      /\ ~ Locking'
  BY <1>1 DEF Used, BindInv, Bound, UnboundInv, Locking
<1>3. FifoTypes' /\ Written' = 0
  <2>1. FifoTypes'
    BY <1>1, EmptyRing DEF FifoTypes
  <2> QED
    BY <1>1, <2>1, EmptyRing, Sizes, NoDistance DEF Written
<1>4. RingInv' /\ RoomInv' /\ QueueInv'
  <2>1. ToCome' = 0
    BY <1>1, <1>2 DEF ToCome, One
  <2> QED
    BY <1>1, <1>2, <1>3, <2>1, Sizes DEF RingInv, RoomInv, QueueInv, Kicking
<1>5. DmaTypes' /\ BindInv'
  BY <1>1, <1>2, Sizes DEF DmaTypes, BindInv
<1>6. CountInv' /\ TransferInv' /\ UnboundInv'
  BY <1>1, <1>2 DEF CountInv, TransferInv, UnboundInv
<1> QED
  BY <1>3, <1>4, <1>5, <1>6 DEF KyoukoInv, BufferInv

LEMMA ReleaseStep ==
  ASSUME KyoukoInv, kyouko3_release
  PROVE  KyoukoInv'
<1>1. /\ FifoTypes /\ RingInv /\ RoomInv /\ DmaTypes /\ BindInv /\ UnboundInv
      /\ pc = "user" /\ pc' = "closed" /\ umap = <<>> /\ Quiet
      /\ UNCHANGED <<fifo, reg, arg, dma_fill, dma_drain, isFull, cmdCount, index, umap, handler, i,
                     card, content, started, starts>>
  BY DEF KyoukoInv, BufferInv, kyouko3_release, Release, dmavars, ringvars, bindvars
<1>2. Used /\ ~ Used' /\ ~ Bound /\ ~ Bound' /\ started = <<>> /\ ~ card.irq /\ ~ Locking'
  BY <1>1 DEF Used, Bound, UnboundInv, Locking
<1>3. FifoTypes' /\ Written' = Written
  BY <1>1 DEF FifoTypes, Written
<1>4. RingInv' /\ RoomInv' /\ QueueInv'
  <2>1. ToCome' = ToCome
    BY <1>1, <1>2 DEF ToCome, One
  <2> QED
    BY <1>1, <1>2, <1>3, <2>1, Sizes DEF RingInv, RoomInv, QueueInv, Quiet, Kicking
<1>5. DmaTypes' /\ BindInv'
  BY <1>1, <1>2, Sizes DEF DmaTypes, BindInv
<1>6. CountInv' /\ TransferInv' /\ UnboundInv'
  BY <1>1, <1>2 DEF CountInv, TransferInv, UnboundInv
<1> QED
  BY <1>3, <1>4, <1>5, <1>6 DEF KyoukoInv, BufferInv

(* Once the card's tail is 0 it agrees with the driver on an empty ring.   *)
LEMMA PauseStep ==
  ASSUME KyoukoInv, Pause, UNCHANGED dmavars
  PROVE  KyoukoInv' /\ Pending' = <<>>
<1>1. /\ FifoTypes /\ RingInv /\ RoomInv /\ DmaTypes /\ BindInv /\ UnboundInv
      /\ pc = "pause" /\ pc' = "user" /\ reg.FifoTail = 0
      /\ UNCHANGED <<fifo, reg, arg, dma_fill, dma_drain, isFull, cmdCount, index, umap, handler, i,
                     card, content, started, starts>>
  BY DEF KyoukoInv, BufferInv, Pause, dmavars, ringvars, bindvars
<1>2. ~ Used /\ Used' /\ umap = <<>> /\ ~ Bound /\ ~ Bound' /\ started = <<>> /\ ~ card.irq
      /\ ~ Locking'
  BY <1>1 DEF Used, BindInv, Bound, UnboundInv, Locking
<1>3. fifo = init_fifo /\ reg.FifoTail = reg.FifoHead
  BY <1>1, <1>2 DEF RingInv
<1>4. FifoTypes' /\ Executed' = 0 /\ Waits' = 0 /\ Written' = 0 /\ Kicked' = 0
  BY <1>1, <1>3, EmptyRing, Sizes, NoDistance DEF FifoTypes, Executed, Waits, Written, Kicked
<1>5. RingInv' /\ RoomInv' /\ QueueInv'
  <2>1. ToCome' = 0
    BY <1>1, <1>2 DEF ToCome, One
  <2> QED
    BY <1>1, <1>2, <1>4, <2>1, Sizes DEF RingInv, RoomInv, QueueInv, Kicking
<1>6. DmaTypes' /\ BindInv'
  BY <1>1, <1>2, Sizes DEF DmaTypes, BindInv
<1>7. NoneStarting(Pending') /\ Pending' = <<>>
  <2>1. Len(Pending) = 0 /\ Pending' = Pending /\ Pending \in Seq(Entries)
    BY <1>1, <1>4, RingFacts DEF Pending, Waits
  <2> QED
    BY <2>1, EmptySeq DEF NoneStarting
<1>8. CountInv' /\ TransferInv' /\ UnboundInv'
  BY <1>1, <1>2, <1>7 DEF CountInv, TransferInv, UnboundInv
<1> QED
  BY <1>4, <1>5, <1>6, <1>7, <1>8 DEF KyoukoInv, BufferInv

(* The part of the invariant about the command ring.                       *)
CommandInv == FifoTypes /\ RingInv /\ RoomInv /\ QueueInv

LEMMA CommandsKept ==
  ASSUME CommandInv, UNCHANGED <<fifo, reg, started, card>>,
         pc \in {"user", "bind"}, pc' \in {"user", "bind"}
  PROVE  CommandInv' /\ Pending' = Pending /\ Kicked' = Kicked
<1>1. Used /\ Used' /\ Executed' = Executed /\ Waits' = Waits /\ Written' = Written
      /\ Kicked' = Kicked /\ Pending' = Pending
  BY DEF Used, Executed, Waits, Written, Kicked, Pending
<1>2. FifoTypes' /\ RingInv'
  BY <1>1 DEF CommandInv, FifoTypes, RingInv
<1>3. RoomInv' /\ QueueInv'
  BY <1>1 DEF CommandInv, RoomInv, ToCome, QueueInv, Kicking
<1> QED
  BY <1>1, <1>2, <1>3 DEF CommandInv

(* BIND_DMA begins before the first START_DMA.                             *)
LEMMA BindStep ==
  ASSUME AsPrograms, KyoukoInv, BIND_DMA
  PROVE  KyoukoInv'
<1>1. /\ CommandInv /\ DmaTypes /\ BindInv /\ UnboundInv
      /\ pc = "user" /\ pc' = "bind" /\ umap = <<>> /\ starts = 0
      /\ UNCHANGED <<fifo, reg, arg, dma_fill, dma_drain, isFull, cmdCount, index, umap, handler, i,
                     card, content, started, starts>>
  BY DEF KyoukoInv, CommandInv, BufferInv, BIND_DMA, AsPrograms, dmavars, ringvars, bindvars
<1>2. CommandInv' /\ Pending' = Pending
  BY <1>1, CommandsKept
<1>3. Used /\ Used' /\ ~ Bound /\ ~ Bound' /\ ~ Locking'
  BY <1>1 DEF Used, Bound, Locking
<1>4. DmaTypes' /\ BindInv'
  BY <1>1, <1>3, Sizes DEF DmaTypes, BindInv
<1>5. CountInv' /\ TransferInv' /\ UnboundInv'
  BY <1>1, <1>2, <1>3 DEF CountInv, TransferInv, UnboundInv
<1> QED
  BY <1>2, <1>4, <1>5 DEF KyoukoInv, CommandInv, BufferInv

(* The static index of kyouko3_mmap runs with the number of mappings.      *)
LEMMA MmapStep ==
  ASSUME KyoukoInv, kyouko3_mmap
  PROVE  KyoukoInv'
<1>1. /\ CommandInv /\ DmaTypes /\ BindInv /\ UnboundInv
      /\ pc = "bind" /\ pc' = "bind" /\ Len(umap) < NumBufs /\ umap' = Append(umap, index)
      /\ index' = NextIndex(index)
      /\ UNCHANGED <<fifo, reg, arg, dma_fill, dma_drain, isFull, cmdCount, handler, i,
                     card, content, started, starts>>
  BY DEF KyoukoInv, CommandInv, BufferInv, kyouko3_mmap, fifovars, ringvars
<1>2. CommandInv' /\ Pending' = Pending
  BY <1>1, CommandsKept
<1>3. Used /\ Used' /\ ~ Bound /\ ~ Bound' /\ ~ Locking'
  BY <1>1 DEF Used, Bound, Locking
<1>4. /\ Len(umap) \in Nat /\ index = Len(umap) /\ index \in Bufs
      /\ umap' \in Seq(Bufs) /\ Len(umap') = Len(umap) + 1
      /\ \A k \in 1 .. Len(umap') : umap'[k] = k - 1
  <2>1. Len(umap) \in Nat /\ index = Len(umap) /\ index \in Bufs
    BY <1>1 DEF DmaTypes, BindInv, Wrap
  <2>2. /\ umap' \in Seq(Bufs) /\ Len(umap') = Len(umap) + 1
        /\ umap'[Len(umap) + 1] = index
        /\ \A k \in 1 .. Len(umap) : umap'[k] = umap[k]
    BY <1>1, <2>1 DEF DmaTypes
  <2>3. \A k \in 1 .. Len(umap) + 1 : k \in 1 .. Len(umap) \/ k = Len(umap) + 1
    BY <2>1
  <2> QED
    BY <1>1, <2>1, <2>2, <2>3 DEF BindInv
<1>5. index' = Wrap(Len(umap')) /\ index' \in Bufs
  BY <1>1, <1>4, SuccIs
<1>6. DmaTypes'
  BY <1>1, <1>4, <1>5 DEF DmaTypes
<1>7. BindInv'
  BY <1>1, <1>3, <1>4, <1>5, Sizes DEF BindInv
<1>8. CountInv' /\ TransferInv' /\ UnboundInv'
  BY <1>1, <1>2, <1>3 DEF CountInv, TransferInv, UnboundInv
<1> QED
  BY <1>2, <1>6, <1>7, <1>8 DEF KyoukoInv, CommandInv, BufferInv

(* What DmaTypes says of the counts.                                       *)
LEMMA CountFacts ==
  ASSUME DmaTypes
  PROVE  /\ Len(started) \in Nat /\ starts \in Nat /\ Filled \in Int /\ Drained \in Int
         /\ Filled <= starts /\ (~ Locking => Filled = starts) /\ (Locking => Filled = starts - 1)
         /\ (card.irq => Drained = starts - Len(started) - 1)
         /\ (~ card.irq => Drained = starts - Len(started))
BY DEF DmaTypes, Filled, Drained, One

LEMMA CountsNext ==
  ASSUME DmaTypes'
  PROVE  /\ Len(started') \in Nat /\ starts' \in Nat
         /\ (~ Locking' => Filled' = starts') /\ (Locking' => Filled' = starts' - 1)
         /\ (card'.irq => Drained' = starts' - Len(started') - 1)
         /\ (~ card'.irq => Drained' = starts' - Len(started'))
<1>1. Filled' = starts' - One(Locking') /\ Drained' = starts' - Len(started') - One(card'.irq)
  BY DEF Filled, Drained
<1>2. starts' \in Nat /\ Len(started') \in Nat
  BY DEF DmaTypes
<1>3. One(Locking') \in Nat /\ (Locking' => One(Locking') = 1) /\ (~ Locking' => One(Locking') = 0)
  BY DEF One
<1>4. One(card'.irq) \in Nat /\ (card'.irq => One(card'.irq) = 1)
      /\ (~ card'.irq => One(card'.irq) = 0)
  BY DEF One
<1> QED
  BY <1>1, <1>2, <1>3, <1>4

(* With every buffer mapped and none started the ring of buffers is empty. *)
LEMMA HookStep ==
  ASSUME KyoukoInv, HookUp
  PROVE  KyoukoInv'
<1>1. /\ CommandInv /\ DmaTypes /\ BindInv /\ UnboundInv
      /\ pc = "bind" /\ pc' = "user" /\ Len(umap) = NumBufs /\ handler' \in BOOLEAN /\ i' = 0
      /\ UNCHANGED <<fifo, reg, arg, dma_fill, dma_drain, isFull, cmdCount, index, umap,
                     card, content, started, starts>>
  BY DEF KyoukoInv, CommandInv, BufferInv, HookUp, ringvars
<1>2. CommandInv' /\ Pending' = Pending
  BY <1>1, CommandsKept
<1>3. /\ Used /\ Used' /\ ~ Bound /\ umap # <<>> /\ Bound' /\ ~ Locking'
      /\ started = <<>> /\ ~ card.irq /\ card.busy = None
      /\ starts = 0 /\ dma_fill = 0 /\ dma_drain = 0 /\ ~ isFull /\ \A b \in Bufs : cmdCount[b] = 0
      /\ NoneStarting(Pending)
  BY <1>1, Sizes DEF Used, Bound, Locking, UnboundInv, BindInv
<1>4. DmaTypes'
  BY <1>1, Sizes DEF DmaTypes
<1>5. BindInv'
  BY <1>1, <1>3 DEF BindInv
<1>6. Filled' = 0 /\ Drained' = 0 /\ Len(started') = 0
  <2>1. Len(started) = 0 /\ Len(started') = 0
    BY <1>1, <1>3
  <2>2. starts' = 0 /\ pc' = "user" /\ ~ card'.irq
    BY <1>1, <1>3
  <2> QED
    BY <1>3, <1>4, <2>1, <2>2, CountsNext
<1>7. CountInv'
  <2>1. 0 = Wrap(0) /\ 0 \in Bufs
    BY Sizes DEF Wrap
  <2>2. \A b \in Bufs : b \in Nat
    BY DEF Bufs
  <2> QED
    BY <1>1, <1>3, <1>6, <2>1, <2>2, Sizes DEF CountInv
<1>8. TransferInv' /\ UnboundInv'
  BY <1>1, <1>2, <1>3, <1>6 DEF TransferInv, UnboundInv, Resting
<1> QED
  BY <1>2, <1>4, <1>5, <1>7, <1>8 DEF KyoukoInv, CommandInv, BufferInv

(* UNBIND_DMA finds every started buffer transferred.                      *)
LEMMA UnbindStep ==
  ASSUME KyoukoInv, UNBIND_DMA
  PROVE  KyoukoInv'
<1>1. /\ CommandInv /\ DmaTypes /\ BindInv /\ CountInv /\ UnboundInv
      /\ pc = "user" /\ umap # <<>> /\ Quiet /\ umap' = <<>> /\ handler' = FALSE
      /\ UNCHANGED <<pc, fifo, reg, arg, dma_fill, dma_drain, isFull, cmdCount, index, i,
                     card, content, started, starts>>
  BY DEF KyoukoInv, CommandInv, BufferInv, UNBIND_DMA, ringvars, fifovars
<1>2. CommandInv' /\ Pending' = Pending
  BY <1>1, CommandsKept
<1>3. Used /\ Used' /\ Bound /\ ~ Bound' /\ ~ Locking /\ ~ Locking'
  BY <1>1 DEF Used, Bound, Locking
<1>4. Drained = Filled /\ Resting(Pending, card)
  BY <1>1, <1>3, AtRest DEF Kicking
<1>5. started = <<>> /\ ~ card.irq /\ card.busy = None /\ NoneStarting(Pending)
  <2>1. ~ card.irq /\ card.busy = None /\ NoneStarting(Pending)
    BY <1>4 DEF Resting
  <2>2. Len(started) = 0
    BY <1>1, <1>3, <1>4, <2>1, CountFacts
  <2> QED
    BY <1>1, <2>1, <2>2, EmptySeq DEF DmaTypes
<1>6. DmaTypes'
  <2>1. umap' = <<>> /\ handler' = FALSE
    BY <1>1
  <2>2. umap' \in Seq(Bufs)
    BY <2>1
  <2>3. handler' \in BOOLEAN
    BY <2>1, Zenon
  <2> QED
    BY <1>1, <2>2, <2>3 DEF DmaTypes
<1>7. BindInv'
  <2>1. Len(umap) = NumBufs /\ Len(umap') = 0 /\ Wrap(NumBufs) = Wrap(0)
    <3>1. Len(umap) # 0
      BY <1>1, EmptySeq DEF DmaTypes
    <3> QED
      BY <1>1, <3>1, Sizes DEF BindInv, Wrap
  <2> QED
    BY <1>1, <1>3, <2>1, Sizes DEF BindInv
<1>8. CountInv' /\ TransferInv' /\ UnboundInv'
  BY <1>1, <1>2, <1>3, <1>5 DEF CountInv, TransferInv, UnboundInv
<1> QED
  BY <1>2, <1>6, <1>7, <1>8 DEF KyoukoInv, CommandInv, BufferInv

(* Submit appends the two entries of a hand-over.                          *)
LEMMA SubmitAppends ==
  ASSUME NEW q \in Rings, NEW a \in Slots, NEW b \in Nat, NEW c \in Nat,
         Distance(a, q.head) + 2 < FifoEntries
  PROVE  /\ Submit(q, b, c) \in Rings /\ Submit(q, b, c).tail_cache = q.tail_cache
         /\ Distance(a, Submit(q, b, c).head) = Distance(a, q.head) + 2
         /\ Ring(Submit(q, b, c), a, Submit(q, b, c).head) = Handover(Ring(q, a, q.head), b, c)
<1> DEFINE e == Entry("BufferA_Address", b)
           f == Entry("BufferA_Config", c)
           r == FIFO_WRITE(q, e)
           s == FIFO_WRITE(r, f)
<1>1. e \in Entries /\ f \in Entries
  BY EntryIs
<1>2. s = Submit(q, b, c)
  BY DEF Submit
<1>3. Handover(Ring(q, a, q.head), b, c) = Append(Append(Ring(q, a, q.head), e), f)
  BY DEF Handover
<1> HIDE DEF e, f
<1>4. Distance(a, q.head) \in Nat /\ FifoEntries \in Nat
  BY DistanceIs, Sizes DEF Rings
<1>5. /\ r \in Rings /\ r.tail_cache = q.tail_cache
      /\ Distance(a, r.head) = Distance(a, q.head) + 1
      /\ Ring(r, a, r.head) = Append(Ring(q, a, q.head), e)
  BY <1>1, <1>4, WriteAppends
<1> HIDE DEF r
<1>6. /\ s \in Rings /\ s.tail_cache = r.tail_cache
      /\ Distance(a, s.head) = Distance(a, r.head) + 1
      /\ Ring(s, a, s.head) = Append(Ring(r, a, r.head), f)
  BY <1>1, <1>4, <1>5, WriteAppends
<1> HIDE DEF s
<1> QED
  BY <1>2, <1>3, <1>4, <1>5, <1>6

(* A hand-over in a state of the driver, with room for it.                 *)
LEMMA SubmitStep ==
  ASSUME FifoTypes, RingInv, Used, Written + 2 < FifoEntries,
         NEW b \in Nat, NEW c \in Nat, fifo' = Submit(fifo, b, c), reg'.FifoTail = reg.FifoTail
  PROVE  /\ fifo' \in Rings /\ fifo'.tail_cache = fifo.tail_cache /\ fifo'.head \in Slots
         /\ Waits' = Waits + 2 /\ Written' = Written + 2 /\ Executed' = Executed
         /\ Pending' = Handover(Pending, b, c)
<1>1. /\ fifo \in Rings /\ reg.FifoTail \in Slots /\ fifo.tail_cache \in Slots
      /\ Waits \in Nat /\ Executed \in Nat /\ Written \in Nat /\ Executed + Waits = Written
  BY RingFacts DEF RingInv, FifoTypes
<1>2. Distance(reg.FifoTail, fifo.head) + 2 < FifoEntries
      /\ Distance(fifo.tail_cache, fifo.head) + 2 < FifoEntries
  BY <1>1, Sizes DEF Waits, Written
<1>3. /\ fifo' \in Rings /\ fifo'.tail_cache = fifo.tail_cache
      /\ Distance(reg.FifoTail, fifo'.head) = Distance(reg.FifoTail, fifo.head) + 2
      /\ Distance(fifo.tail_cache, fifo'.head) = Distance(fifo.tail_cache, fifo.head) + 2
      /\ Ring(fifo', reg.FifoTail, fifo'.head) =
           Handover(Ring(fifo, reg.FifoTail, fifo.head), b, c)
  BY <1>1, <1>2, SubmitAppends
<1>4. fifo'.head \in Slots
  BY <1>3 DEF Rings
<1>5. Waits' = Waits + 2 /\ Written' = Written + 2 /\ Executed' = Executed
  BY <1>3 DEF Waits, Written, Executed
<1>6. Pending' = Handover(Pending, b, c)
  BY <1>3 DEF Pending
<1> QED
  BY <1>3, <1>4, <1>5, <1>6

(* START_DMA: the ring of buffers is empty just when no transfer is under  *)
(* way, since dma_fill has not been round the ring.                        *)
LEMMA StartStep ==
  ASSUME KyoukoInv, START_DMA
  PROVE  KyoukoInv'
<1> DEFINE new == [buf |-> i, count |-> Count, data |-> starts + 1]
<1>1. /\ FifoTypes /\ RingInv /\ DmaTypes /\ BindInv /\ CountInv /\ TransferInv
      /\ pc = "user" /\ Len(umap) = NumBufs /\ i < NumBufs /\ Room(4 + Reserved)
      /\ content' = [content EXCEPT ![umap[i + 1]] = starts + 1]
      /\ started' = Append(started, new) /\ i' = i + 1 /\ starts' = starts + 1
      /\ pc' = IF RingEmpty THEN "direct" ELSE "later"
      /\ UNCHANGED <<fifo, reg, arg, dma_fill, dma_drain, isFull, cmdCount, index, umap, handler,
                     card>>
  BY DEF KyoukoInv, BufferInv, START_DMA, FillBuffer, ringvars
<1>2. Used /\ Used' /\ umap # <<>> /\ Bound /\ Bound' /\ ~ Locking /\ Locking'
      /\ pc' \in {"direct", "later"}
  BY <1>1, Sizes DEF Used, Bound, Locking
<1>3. /\ i = starts /\ starts < NumBufs /\ starts \in Nat /\ Len(started) \in Nat
      /\ 0 <= Drained /\ Drained <= Filled /\ Filled = starts /\ Drained \in Int
      /\ i \in Bufs /\ umap[i + 1] = i /\ umap \in Seq(Bufs)
  <2>1. i = starts /\ starts < NumBufs /\ 0 <= Drained /\ Drained <= Filled
    BY <1>1, <1>2 DEF CountInv
  <2>2. starts \in Nat /\ i \in Nat /\ Len(started) \in Nat /\ Filled = starts /\ Drained \in Int
    BY <1>1, <1>2, CountFacts DEF DmaTypes
  <2>3. i + 1 \in 1 .. Len(umap) /\ i \in Bufs
    BY <1>1, <2>1, <2>2, Sizes DEF Bufs
  <2>4. umap[i + 1] = (i + 1) - 1
    BY <1>1, <2>3 DEF BindInv
  <2> QED
    BY <1>1, <2>1, <2>2, <2>3, <2>4 DEF DmaTypes
<1>4. /\ started' \in Seq(Transfers) /\ Len(started') = Len(started) + 1
      /\ started'[Len(started) + 1] = new
      /\ \A k \in 1 .. Len(started) : started'[k] = started[k]
  <2>1. new \in Transfers
    BY <1>1, <1>3 DEF Transfers, Count, DmaTypes
  <2> HIDE DEF new
  <2> QED
    BY <1>1, <2>1 DEF DmaTypes
<1>5. /\ content' \in [Bufs -> Nat] /\ content'[i] = starts + 1
      /\ \A b \in Bufs : b # i => content'[b] = content[b]
  BY <1>1, <1>3 DEF DmaTypes
<1>6. DmaTypes'
  <2>1. starts' \in Nat /\ i' \in Nat
    BY <1>1, <1>3
  <2> QED
    BY <1>1, <1>4, <1>5, <2>1 DEF DmaTypes
<1>7. Filled' = Filled /\ Drained' = Drained
  <2>1. card'.irq = card.irq
    BY <1>1
  <2>2. /\ Filled' = starts' - 1
        /\ (card.irq => Drained' = starts' - Len(started') - 1)
        /\ (~ card.irq => Drained' = starts' - Len(started'))
    BY <1>2, <1>6, <2>1, CountsNext
  <2>3. /\ (card.irq => Drained = starts - Len(started) - 1)
        /\ (~ card.irq => Drained = starts - Len(started))
    BY <1>1, CountFacts
  <2>4. starts' = starts + 1 /\ Len(started') = Len(started) + 1
    BY <1>1, <1>4
  <2> QED
    BY <1>3, <2>2, <2>3, <2>4
<1>8. RingEmpty <=> Drained = Filled
  <2>1. dma_fill = Filled /\ dma_drain = Drained
    BY <1>1, <1>2, <1>3 DEF CountInv, Wrap
  <2>2. ~ isFull
    BY <1>1, <1>2, <1>3 DEF CountInv
  <2> QED
    BY <2>1, <2>2 DEF RingEmpty
<1>9. CommandInv'
  <2>1. Executed' = Executed /\ Waits' = Waits /\ Written' = Written /\ Kicked' = Kicked
    BY <1>1 DEF Executed, Waits, Written, Kicked
  <2>2. FifoTypes'
    BY <1>1, <1>2 DEF FifoTypes
  <2>3. RingInv'
    BY <1>1, <1>2, <2>1 DEF RingInv
  <2>4. RoomInv'
    <3>1. Reserved \in Nat /\ Written \in Nat /\ Written + (4 + Reserved) < FifoEntries
      BY <1>1, <1>3, RingFacts DEF Reserved, Room, Written
    <3>2. ToCome' \in Nat /\ ToCome' <= Reserved + 4
      BY <1>1, <1>2, <1>3, <1>4 DEF ToCome, One, Reserved
    <3> DEFINE n == ToCome'
    <3>3. n \in Nat /\ n <= Reserved + 4
      BY <3>2
    <3> HIDE DEF n
    <3>4. Written + n < FifoEntries
      BY <3>1, <3>3, Sizes
    <3> QED
      BY <2>1, <3>4 DEF RoomInv, n
  <2> QED
    BY <1>2, <2>2, <2>3, <2>4 DEF CommandInv, QueueInv, Kicking
<1>10. BindInv'
  BY <1>1, <1>2, <1>3 DEF BindInv
<1>11. CountInv'
  <2>1. /\ dma_fill = Wrap(Filled) /\ dma_drain = Wrap(Drained)
        /\ isFull => Filled = NumBufs /\ Drained = 0 /\ NumBufs >= 2
        /\ cmdCount[0] = 0
        /\ \A b \in Bufs : /\ Drained < b /\ b < Filled => cmdCount[b] = Count
                           /\ Filled <= b => cmdCount[b] = 0
                           /\ b < starts => content[b] = b + 1
        /\ \A k \in 1 .. Len(started) :
             started[k] = [buf |-> starts - Len(started) + k - 1, count |-> Count,
                           data |-> starts - Len(started) + k]
    BY <1>1, <1>2 DEF CountInv
  <2>2. pc' = "direct" => Drained = Filled
    BY <1>1, <1>8
  <2>3. pc' = "later" => Drained < Filled
    BY <1>1, <1>3, <1>8
  <2>4. ASSUME NEW b \in Bufs PROVE b < starts' => content'[b] = b + 1
    <3>1. b \in Nat
      BY DEF Bufs
    <3> QED
      BY <1>1, <1>3, <1>5, <2>1, <3>1
  <2>5. ASSUME NEW k \in 1 .. Len(started')
        PROVE  started'[k] = [buf |-> starts' - Len(started') + k - 1, count |-> Count,
                              data |-> starts' - Len(started') + k]
    <3>1. starts' - Len(started') = starts - Len(started)
      BY <1>1, <1>3, <1>4
    <3>2. CASE k = Len(started) + 1
      <4>1. starts' - Len(started') + k - 1 = i /\ starts' - Len(started') + k = starts + 1
        BY <1>1, <1>3, <1>4, <3>2
      <4> QED
        BY <1>4, <3>2, <4>1
    <3>3. CASE k # Len(started) + 1
      <4>1. k \in 1 .. Len(started)
        BY <1>3, <1>4, <3>3
      <4> QED
        BY <1>4, <2>1, <3>1, <4>1
    <3> QED
      BY <3>2, <3>3
  <2>6. i' = starts' /\ starts' <= NumBufs
    BY <1>1, <1>3, Sizes
  <2> QED
    BY <1>1, <1>3, <1>7, <2>1, <2>2, <2>3, <2>4, <2>5, <2>6 DEF CountInv
<1>12. TransferInv' /\ UnboundInv'
  <2>1. Pending' = Pending
    BY <1>1 DEF Pending
  <2>2. Visible' = Visible
    BY <1>1, <1>2 DEF Visible, Kicked, Waits, Kicking
  <2> QED
    BY <1>1, <1>2, <1>7, <2>1, <2>2 DEF TransferInv, UnboundInv
<1> QED
  BY <1>6, <1>9, <1>10, <1>11, <1>12 DEF KyoukoInv, CommandInv, BufferInv

(* Into an empty ring: the program hands the buffer over itself.           *)
LEMMA DirectStep ==
  ASSUME KyoukoInv, TransferDirect
  PROVE  KyoukoInv' /\ Longer(Pending, Pending')
<1>1. /\ FifoTypes /\ RingInv /\ RoomInv /\ DmaTypes /\ BindInv /\ CountInv /\ TransferInv /\ UnboundInv
      /\ pc = "direct" /\ pc' = "kick"
      /\ fifo' = Submit(fifo, dma_fill, Count) /\ dma_fill' = Succ(dma_fill)
      /\ UNCHANGED <<reg, arg, dma_drain, isFull, cmdCount, index, umap, handler, i, card, content,
                     started, starts>>
  BY DEF KyoukoInv, BufferInv, TransferDirect, bindvars
<1>2. Used /\ Used' /\ Bound /\ Bound' /\ Locking /\ ~ Locking'
  BY <1>1 DEF Used, Bound, Locking, UnboundInv
<1>3. /\ starts \in Nat /\ starts <= NumBufs /\ Filled = starts - 1 /\ Drained = Filled
      /\ 0 <= Drained /\ Filled \in Bufs /\ Len(started) \in Nat
      /\ dma_fill = Filled /\ dma_drain = Wrap(Drained) /\ i = starts
  <2>1. /\ starts <= NumBufs /\ 0 <= Drained /\ dma_fill = Wrap(Filled) /\ dma_drain = Wrap(Drained)
        /\ Drained = Filled /\ i = starts
    BY <1>1, <1>2 DEF CountInv
  <2>2. starts \in Nat /\ Len(started) \in Nat /\ Filled = starts - 1
    BY <1>1, <1>2, CountFacts
  <2>3. Filled \in Bufs
    BY <2>1, <2>2, Sizes DEF Bufs
  <2> QED
    BY <2>1, <2>2, <2>3, Sizes DEF Wrap
<1>4. dma_fill' = Wrap(starts) /\ dma_fill' \in Bufs
  <2>1. Filled + 1 = starts
    BY <1>3
  <2> QED
    BY <1>1, <1>3, <2>1, SuccIs
<1>5. DmaTypes'
  BY <1>1, <1>4 DEF DmaTypes
<1>6. Filled' = starts /\ Drained' = Drained
  <2>1. Filled' = starts
    BY <1>1, <1>2, <1>5, CountsNext
  <2>2. Drained' = Drained
    BY <1>1 DEF Drained, One
  <2> QED
    BY <2>1, <2>2
<1>7. /\ ToCome' \in Nat /\ ToCome = ToCome' + 2
      /\ Written \in Nat /\ Waits \in Nat /\ Kicked \in Nat /\ Executed \in Nat
      /\ Written + ToCome < FifoEntries
  <2>1. ToCome' \in Nat /\ ToCome = ToCome' + 2
    BY <1>1, <1>3 DEF ToCome, One
  <2> QED
    BY <1>1, <2>1, RingFacts DEF RoomInv
<1> DEFINE n == ToCome'
<1>8. n \in Nat /\ Written + (n + 2) < FifoEntries
  BY <1>7
<1> HIDE DEF n
<1>9. /\ fifo' \in Rings /\ fifo'.tail_cache = fifo.tail_cache
      /\ Waits' = Waits + 2 /\ Written' = Written + 2 /\ Executed' = Executed
      /\ Pending' = Handover(Pending, dma_fill, Count)
  <2>1. Written + 2 < FifoEntries /\ dma_fill \in Nat /\ Count \in Nat
    BY <1>3, <1>7, <1>8, Sizes DEF Count, Bufs
  <2> QED
    BY <1>1, <1>2, <2>1, SubmitStep
<1>10. CommandInv'
  <2>1. FifoTypes'
    BY <1>1, <1>9 DEF FifoTypes
  <2>2. Kicked' = Kicked
    BY <1>1 DEF Kicked
  <2>3. RingInv'
    BY <1>1, <1>2, <1>7, <1>9, <2>2 DEF RingInv
  <2>4. Written + 2 + n < FifoEntries
    BY <1>7, <1>8, Sizes
  <2>5. RoomInv'
    BY <1>9, <2>4 DEF RoomInv, n
  <2>6. Resting(Pending, card) /\ Pending \in Seq(Entries) /\ Len(Pending) = Waits
        /\ dma_fill \in Nat /\ Kicked <= Waits
    BY <1>1, <1>2, <1>3, RingFacts DEF TransferInv, RingInv, Bufs
  <2>7. StartsAt(Pending', Waits', dma_fill, card.address) /\ Len(Pending') = Waits'
    BY <1>9, <2>6, HandoverStarts DEF Resting
  <2>8. QueueInv'
    <3>1. \A k \in 1 .. Waits' : Starting(Pending'[k]) => k = Waits'
      BY <2>7 DEF StartsAt
    <3>2. Kicked' < Waits' /\ ~ card'.irq /\ card'.busy = None
      BY <1>1, <1>7, <1>9, <2>2, <2>6 DEF Resting
    <3> QED
      BY <1>1, <3>1, <3>2 DEF QueueInv
  <2> QED
    BY <2>1, <2>3, <2>5, <2>8 DEF CommandInv
<1>11. BindInv'
  <2>1. starts # 0
    BY <1>3
  <2> QED
    BY <1>1, <1>2, <2>1 DEF BindInv
<1>12. CountInv'
  <2>1. /\ isFull => Filled = NumBufs
        /\ cmdCount[0] = 0
        /\ \A b \in Bufs : /\ Filled <= b => cmdCount[b] = 0
                           /\ b < starts => content[b] = b + 1
        /\ \A k \in 1 .. Len(started) :
             started[k] = [buf |-> starts - Len(started) + k - 1, count |-> Count,
                           data |-> starts - Len(started) + k]
    BY <1>1, <1>2 DEF CountInv
  <2>2. ~ isFull
    BY <1>3, <2>1, Sizes
  <2>3. ASSUME NEW b \in Bufs
        PROVE  (~ (Drained < b /\ b < starts)) /\ (starts <= b => cmdCount[b] = 0)
    <3>1. b \in Nat
      BY DEF Bufs
    <3> QED
      BY <1>3, <2>1, <3>1
  <2> QED
    BY <1>1, <1>3, <1>4, <1>6, <2>1, <2>2, <2>3 DEF CountInv
<1>13. TransferInv' /\ UnboundInv'
  <2>1. Pending \in Seq(Entries) /\ Len(Pending) = Waits
    BY <1>1, RingFacts
  <2>2. Resting(Pending, card)
    BY <1>1, <1>2, <1>3 DEF TransferInv
  <2>3. dma_fill \in Nat
    BY <1>3 DEF Bufs
  <2>4. /\ Len(Pending') = Waits + 2
        /\ StartsAt(Pending', Waits + 2, dma_fill, card.address)
    BY <1>9, <2>1, <2>2, <2>3, HandoverStarts DEF Resting
  <2>5. Visible' = Waits + 2 /\ Waits + 2 \in 1 .. Len(Pending') /\ Waits + 2 <= Visible'
    <3>1. Visible' = Waits + 2
      BY <1>1, <1>9 DEF Visible, Kicking
    <3> QED
      BY <1>7, <2>4, <3>1
  <2>6. Ordered(Pending', card, Drained, Visible')
    BY <1>3, <2>2, <2>4, <2>5 DEF Ordered, Resting
  <2>7. Drained' # Filled'
    BY <1>3, <1>6
  <2> QED
    BY <1>1, <1>2, <1>6, <2>6, <2>7 DEF TransferInv, Transferring, UnboundInv
<1>14. Longer(Pending, Pending')
  BY <1>1, <1>3, <1>9, RingFacts, HandoverLonger DEF Count, Bufs
<1> QED
  BY <1>5, <1>10, <1>11, <1>12, <1>13, <1>14 DEF KyoukoInv, CommandInv, BufferInv

(* Behind a transfer: the buffer is left for the handler, with its count.  *)
LEMMA LaterStep ==
  ASSUME KyoukoInv, TransferLater
  PROVE  KyoukoInv'
<1>1. /\ FifoTypes /\ RingInv /\ RoomInv /\ DmaTypes /\ BindInv /\ CountInv /\ TransferInv /\ UnboundInv
      /\ pc = "later" /\ pc' = "full"
      /\ cmdCount' = [cmdCount EXCEPT ![dma_fill] = Count] /\ dma_fill' = Succ(dma_fill)
      /\ isFull' = (isFull \/ Succ(dma_fill) = dma_drain)
      /\ UNCHANGED <<fifo, reg, arg, dma_drain, index, umap, handler, i, card, content,
                     started, starts>>
  BY DEF KyoukoInv, BufferInv, TransferLater, FullAfter, bindvars
<1>2. Used /\ Used' /\ Bound /\ Bound' /\ Locking /\ ~ Locking'
  BY <1>1 DEF Used, Bound, Locking, UnboundInv
<1>3. /\ starts \in Nat /\ starts <= NumBufs /\ Filled = starts - 1 /\ Drained < Filled
      /\ 0 <= Drained /\ Filled \in Bufs /\ Len(started) \in Nat /\ Drained \in Int
      /\ dma_fill = Filled /\ dma_drain = Drained /\ i = starts
  <2>1. /\ starts <= NumBufs /\ 0 <= Drained /\ dma_fill = Wrap(Filled) /\ dma_drain = Wrap(Drained)
        /\ Drained < Filled /\ i = starts
    BY <1>1, <1>2 DEF CountInv
  <2>2. starts \in Nat /\ Len(started) \in Nat /\ Filled = starts - 1 /\ Drained \in Int
    BY <1>1, <1>2, CountFacts
  <2>3. Filled \in Bufs
    BY <2>1, <2>2, Sizes DEF Bufs
  <2> QED
    BY <2>1, <2>2, <2>3, Sizes DEF Wrap
<1>4. dma_fill' = Wrap(starts) /\ Succ(dma_fill) = Wrap(starts) /\ dma_fill' \in Bufs
  <2>1. Filled + 1 = starts
    BY <1>3
  <2> QED
    BY <1>1, <1>3, <2>1, SuccIs
<1>5. /\ cmdCount' \in [Bufs -> {0, Count}] /\ cmdCount'[Filled] = Count
      /\ \A b \in Bufs : b # Filled => cmdCount'[b] = cmdCount[b]
  BY <1>1, <1>3 DEF DmaTypes
<1>6. DmaTypes'
  <2>1. isFull' \in BOOLEAN
    BY <1>1, Zenon
  <2> QED
    BY <1>1, <1>4, <1>5, <2>1 DEF DmaTypes
<1>7. Filled' = starts /\ Drained' = Drained
  <2>1. Filled' = starts
    BY <1>1, <1>2, <1>6, CountsNext
  <2>2. Drained' = Drained
    BY <1>1 DEF Drained, One
  <2> QED
    BY <2>1, <2>2
<1>8. CommandInv'
  <2>1. Executed' = Executed /\ Waits' = Waits /\ Written' = Written /\ Kicked' = Kicked
        /\ ToCome' = ToCome
    BY <1>1 DEF Executed, Waits, Written, Kicked, ToCome, One
  <2>2. FifoTypes' /\ RingInv'
    BY <1>1, <1>2, <2>1 DEF FifoTypes, RingInv
  <2> QED
    BY <1>1, <2>1, <2>2 DEF CommandInv, RoomInv, QueueInv, Kicking
<1>9. BindInv'
  <2>1. starts # 0
    BY <1>3
  <2> QED
    BY <1>1, <1>2, <2>1 DEF BindInv
<1>10. isFull' => starts = NumBufs /\ Drained = 0 /\ NumBufs >= 2
  <2>1. isFull => Filled = NumBufs
    BY <1>1, <1>2 DEF CountInv
  <2>2. ~ isFull
    BY <1>3, <2>1, Sizes
  <2>3. Wrap(starts) = Drained => starts = NumBufs /\ Drained = 0 /\ NumBufs >= 2
    BY <1>3, Sizes DEF Wrap
  <2>4. isFull' => Wrap(starts) = Drained
    BY <1>1, <1>3, <1>4, <2>2
  <2> QED
    BY <2>3, <2>4
<1>11. CountInv'
  <2>1. /\ cmdCount[0] = 0
        /\ \A b \in Bufs : /\ Drained < b /\ b < Filled => cmdCount[b] = Count
                           /\ Filled <= b => cmdCount[b] = 0
                           /\ b < starts => content[b] = b + 1
        /\ \A k \in 1 .. Len(started) :
             started[k] = [buf |-> starts - Len(started) + k - 1, count |-> Count,
                           data |-> starts - Len(started) + k]
    BY <1>1, <1>2 DEF CountInv
  <2>2. ASSUME NEW b \in Bufs
        PROVE  /\ Drained < b /\ b < starts => cmdCount'[b] = Count
               /\ starts <= b => cmdCount'[b] = 0
    <3>1. b \in Nat
      BY DEF Bufs
    <3> QED
      BY <1>3, <1>5, <2>1, <3>1
  <2>3. cmdCount'[0] = 0
    BY <1>3, <1>5, <2>1, Sizes
  <2>4. dma_drain = Wrap(Drained)
    BY <1>1, <1>2 DEF CountInv
  <2>5. UNCHANGED <<dma_drain, i, content, started, starts>> /\ pc' = "full"
    BY <1>1
  <2>6. i = starts /\ starts <= NumBufs /\ 0 <= Drained /\ Drained <= starts
    BY <1>3
  <2>7. dma_fill' = Wrap(Filled') /\ dma_drain' = Wrap(Drained')
    BY <1>4, <1>7, <2>4, <2>5
  <2>8. isFull' => Filled' = NumBufs /\ Drained' = 0 /\ NumBufs >= 2
    BY <1>7, <1>10
  <2> QED
    BY <1>7, <2>1, <2>2, <2>3, <2>5, <2>6, <2>7, <2>8 DEF CountInv
<1>12. TransferInv' /\ UnboundInv'
  <2>1. Transferring(Pending, card, Drained, Visible)
    BY <1>1, <1>2, <1>3 DEF TransferInv
  <2>2. Pending' = Pending /\ Visible' = Visible
    BY <1>1 DEF Pending, Visible, Kicked, Waits, Kicking
  <2>3. Drained' # Filled'
    BY <1>3, <1>7
  <2> QED
    BY <1>1, <1>2, <1>7, <2>1, <2>2, <2>3 DEF TransferInv, UnboundInv
<1> QED
  BY <1>6, <1>8, <1>9, <1>11, <1>12 DEF KyoukoInv, CommandInv, BufferInv

(* While the card transfers, it transfers the oldest buffer started.       *)
LEMMA OldestFirst ==
  ASSUME KyoukoInv, card.busy # None
  PROVE  /\ Bound /\ ~ card.irq /\ Drained < Filled /\ Moving(Pending, card, Drained)
         /\ started # <<>> /\ Len(started) >= 1 /\ Drained = starts - Len(started)
         /\ card.busy = Head(started)
<1>1. DmaTypes /\ CountInv /\ TransferInv /\ UnboundInv
  BY DEF KyoukoInv, BufferInv
<1>2. Bound
  BY <1>1 DEF UnboundInv
<1>3. Drained \in Int /\ Filled \in Int /\ Drained <= Filled /\ Filled <= starts
  BY <1>1, <1>2, CountFacts DEF CountInv
<1>4. Drained # Filled /\ Transferring(Pending, card, Drained, Visible)
  BY <1>1, <1>2, <1>3 DEF TransferInv, Resting
<1>5. Moving(Pending, card, Drained) /\ ~ card.irq
  BY <1>4 DEF Transferring, Ending, Ordered, Moving
<1>6. Drained = starts - Len(started) /\ Len(started) >= 1 /\ Len(started) \in Nat /\ starts \in Nat
  BY <1>1, <1>3, <1>4, <1>5, CountFacts
<1>7. started # <<>> /\ Head(started) = started[1] /\ 1 \in 1 .. Len(started)
  BY <1>1, <1>6, EmptySeq DEF DmaTypes
<1>8. started[1] = [buf |-> starts - Len(started) + 1 - 1, count |-> Count,
                    data |-> starts - Len(started) + 1]
  BY <1>1, <1>2, <1>7 DEF CountInv
<1>9. starts - Len(started) + 1 - 1 = Drained /\ starts - Len(started) + 1 = Drained + 1
  BY <1>6
<1> QED
  BY <1>2, <1>3, <1>4, <1>5, <1>6, <1>7, <1>8, <1>9 DEF Moving

(* The end of a transfer takes the oldest buffer off the list.             *)
LEMMA TransferredStep ==
  ASSUME KyoukoInv, Transferred
  PROVE  KyoukoInv'
<1>1. /\ FifoTypes /\ RingInv /\ RoomInv /\ QueueInv /\ DmaTypes /\ BindInv /\ CountInv
      /\ card.busy # None /\ card' = [card EXCEPT !.busy = None, !.irq = TRUE]
      /\ started' = Tail(started)
      /\ UNCHANGED <<pc, fifo, reg, arg, dma_fill, dma_drain, isFull, cmdCount, index, umap, handler,
                     i, content, starts>>
  BY DEF KyoukoInv, BufferInv, Transferred, fifovars, ringvars, bindvars
<1>2. /\ Bound /\ ~ card.irq /\ Drained < Filled /\ Moving(Pending, card, Drained)
      /\ started # <<>> /\ Drained = starts - Len(started)
  BY <1>1, OldestFirst
<1>3. /\ card' \in [address : Nat, busy : Transfers, irq : BOOLEAN]
      /\ card'.busy = None /\ card'.irq
  <2>1. None \in Transfers
    BY DEF None, Transfers
  <2> QED
    BY <1>1, <2>1 DEF DmaTypes
<1>4. /\ Len(started) \in Nat /\ Len(started) >= 1 /\ starts \in Nat
      /\ started' \in Seq(Transfers) /\ Len(started') = Len(started) - 1
      /\ \A k \in 1 .. Len(started) - 1 : started'[k] = started[k + 1]
  BY <1>1, <1>2, EmptySeq DEF DmaTypes
<1>5. DmaTypes'
  BY <1>1, <1>3, <1>4 DEF DmaTypes
<1>6. /\ Used' = Used /\ Bound' /\ Locking' = Locking /\ Pending' = Pending /\ Visible' = Visible
      /\ Executed' = Executed /\ Waits' = Waits /\ Written' = Written /\ Kicked' = Kicked
  BY <1>1, <1>2 DEF Used, Bound, Locking, Pending, Visible, Executed, Waits, Written, Kicked, Kicking
<1>7. Filled' = Filled /\ Drained' = Drained
  <2>1. Filled' = Filled
    BY <1>1 DEF Filled, One, Locking
  <2>2. Drained' = starts - Len(started') - 1
    BY <1>1, <1>3, <1>5, CountsNext
  <2> QED
    BY <1>2, <1>4, <2>1, <2>2
<1>8. CommandInv'
  <2>1. FifoTypes' /\ RingInv'
    BY <1>1, <1>6 DEF FifoTypes, RingInv
  <2>2. ToCome' = ToCome
    BY <1>1, <1>2, <1>3, <1>4 DEF ToCome, One
  <2>3. pc \notin {"queue", "flushing", "kick", "kicking"}
    BY <1>1 DEF QueueInv, Kicking
  <2> QED
    BY <1>1, <1>6, <2>1, <2>2, <2>3 DEF CommandInv, RoomInv, QueueInv, Kicking
<1>9. BindInv'
  BY <1>1, <1>6 DEF BindInv
<1>10. CountInv'
  <2>1. \A k \in 1 .. Len(started) :
          started[k] = [buf |-> starts - Len(started) + k - 1, count |-> Count,
                        data |-> starts - Len(started) + k]
    BY <1>1, <1>2 DEF CountInv
  <2>2. ASSUME NEW k \in 1 .. Len(started')
        PROVE  started'[k] = [buf |-> starts - Len(started') + k - 1, count |-> Count,
                              data |-> starts - Len(started') + k]
    <3>1. /\ k \in 1 .. Len(started) - 1 /\ k + 1 \in 1 .. Len(started)
          /\ starts - Len(started) + (k + 1) - 1 = starts - Len(started') + k - 1
          /\ starts - Len(started) + (k + 1) = starts - Len(started') + k
      BY <1>4
    <3>2. started[k + 1] = [buf |-> starts - Len(started) + (k + 1) - 1, count |-> Count,
                            data |-> starts - Len(started) + (k + 1)]
      BY <2>1, <3>1
    <3> QED
      BY <1>4, <3>1, <3>2
  <2> QED
    BY <1>1, <1>2, <1>6, <1>7, <2>2 DEF CountInv
<1>11. TransferInv' /\ UnboundInv'
  <2>1. Ending(Pending', card')
    BY <1>2, <1>3, <1>6 DEF Ending, Moving
  <2>2. Drained' # Filled'
    BY <1>1, <1>2, <1>7, CountFacts
  <2> QED
    BY <1>6, <2>1, <2>2 DEF TransferInv, Transferring, UnboundInv
<1> QED
  BY <1>5, <1>8, <1>9, <1>10, <1>11 DEF KyoukoInv, CommandInv, BufferInv

(* What an entry does to the card.                                         *)
LEMMA ObeysIs ==
  ASSUME card \in [address : Nat, busy : Transfers, irq : BOOLEAN], NEW e \in Entries
  PROVE  /\ Obeys(e).irq = card.irq
         /\ ~ Starting(e) =>
              /\ Obeys(e) \in [address : Nat, busy : Transfers, irq : BOOLEAN]
              /\ Obeys(e).busy = card.busy
              /\ \A b \in Nat : e = Entry("BufferA_Address", b) => Obeys(e).address = b
         /\ Starting(e) => Obeys(e) = [card EXCEPT !.busy = [buf |-> card.address, count |-> e.value,
                                                             data |-> content[card.address]]]
<1>1. e.value \in Nat /\ "BufferA_Address" # "BufferA_Config"
  BY DEF Entries
<1>2. CASE e.command = "BufferA_Address"
  <2>1. ~ Starting(e) /\ Obeys(e) = [card EXCEPT !.address = e.value]
    BY <1>1, <1>2 DEF Starting, Obeys
  <2>2. \A b \in Nat : e = Entry("BufferA_Address", b) => e.value = b
    BY DEF Entry
  <2> QED
    BY <1>1, <2>1, <2>2
<1>3. CASE e.command # "BufferA_Address" /\ Starting(e)
  <2>1. Obeys(e) = [card EXCEPT !.busy = [buf |-> card.address, count |-> e.value,
                                          data |-> content[card.address]]]
    BY <1>3 DEF Starting, Obeys
  <2> QED
    BY <1>3, <2>1
<1>4. CASE e.command # "BufferA_Address" /\ ~ Starting(e)
  <2>1. Obeys(e) = card
    BY <1>4 DEF Starting, Obeys
  <2>2. \A b \in Nat : e # Entry("BufferA_Address", b)
    BY <1>4 DEF Entry
  <2> QED
    BY <1>4, <2>1, <2>2
<1> QED
  BY <1>2, <1>3, <1>4

(* The card takes the first entry off the ring.                            *)
LEMMA ExecuteMoves ==
  ASSUME KyoukoInv, CardExecute
  PROVE  /\ fifo' = fifo /\ pc' = pc /\ Used /\ Pending # <<>>
         /\ executed' = Head(Pending) /\ Pending' = Tail(Pending)
         /\ reg' \in [FifoHead : Slots, FifoTail : Slots]
         /\ Executed' = Executed + 1 /\ Waits' = Waits - 1 /\ Kicked' = Kicked - 1
         /\ Written' = Written /\ Waits >= 1 /\ Kicked >= 1 /\ pc \notin {"queue", "flushing"}
<1>1. /\ FifoTypes /\ RingInv /\ RoomInv /\ QueueInv /\ DmaTypes
      /\ reg.FifoTail # reg.FifoHead /\ UNCHANGED <<fifo, pc>>
      /\ executed' = fifo.k_base[reg.FifoTail]
      /\ reg' = [reg EXCEPT !.FifoTail = AdvanceTail(@)]
      /\ Used
  BY DEF KyoukoInv, BufferInv, CardExecute, Used
<1>2. /\ fifo \in Rings /\ reg.FifoTail \in Slots /\ reg.FifoHead \in Slots /\ fifo.head \in Slots
      /\ fifo.tail_cache \in Slots
      /\ Executed \in Nat /\ Waits \in Nat /\ Written \in Nat /\ Kicked \in Nat
      /\ Executed + Waits = Written /\ Kicked <= Waits
  BY <1>1, RingFacts DEF FifoTypes, RingInv
<1>3. /\ AdvanceHead(reg.FifoTail) \in Slots
      /\ AdvanceTail(reg.FifoTail) = AdvanceHead(reg.FifoTail)
  BY <1>2, NextSlot
<1>4. /\ reg' \in [FifoHead : Slots, FifoTail : Slots] /\ reg'.FifoHead = reg.FifoHead
      /\ reg'.FifoTail = AdvanceHead(reg.FifoTail)
  <2>1. reg \in [FifoHead : Slots, FifoTail : Slots]
    BY <1>1 DEF FifoTypes
  <2> QED
    BY <1>1, <1>3, <2>1
<1>5. Kicked >= 1 /\ Kicked' = Kicked - 1
  BY <1>1, <1>2, <1>4, StartMoves DEF Kicked
<1>6. Waits >= 1 /\ reg.FifoTail # fifo.head
  <2>1. Waits >= 1
    BY <1>2, <1>5
  <2>2. Waits # 0
    BY <1>2, <2>1
  <2> QED
    BY <1>2, <2>1, <2>2, NoDistance DEF Waits
<1>7. Waits' = Waits - 1 /\ Written' = Written
  BY <1>1, <1>2, <1>4, <1>6, StartMoves DEF Waits, Written
<1>8. Executed' = Executed + 1
  <2>1. Written < FifoEntries
    BY <1>2, DistanceIs, Sizes DEF Written
  <2>2. Distance(fifo.tail_cache, reg.FifoTail) + 1 < FifoEntries
    BY <1>2, <1>6, <2>1, Sizes DEF Executed
  <2> QED
    BY <1>1, <1>2, <1>4, <2>2, EndMoves DEF Executed
<1>9. /\ Pending # <<>> /\ fifo.k_base[reg.FifoTail] = Head(Pending)
      /\ Ring(fifo, AdvanceHead(reg.FifoTail), fifo.head) = Tail(Pending)
  BY <1>2, <1>6, Takes DEF Pending
<1>10. Pending' = Tail(Pending)
  BY <1>1, <1>4, <1>9 DEF Pending
<1>11. pc \notin {"queue", "flushing"}
  BY <1>1 DEF QueueInv, Kicking
<1> QED
  BY <1>1, <1>4, <1>5, <1>6, <1>7, <1>8, <1>9, <1>10, <1>11

LEMMA ExecuteStep ==
  ASSUME KyoukoInv, card.busy = None, CardExecute, card' = Obeys(executed'),
         UNCHANGED <<ringvars, bindvars, content, started, starts>>
  PROVE  KyoukoInv'
<1> DEFINE e == executed'
           P == Pending
           T == Pending'
<1>1. /\ FifoTypes /\ RingInv /\ RoomInv /\ QueueInv
      /\ DmaTypes /\ BindInv /\ CountInv /\ TransferInv /\ UnboundInv
      /\ UNCHANGED <<dma_fill, dma_drain, isFull, cmdCount, index, umap, handler, i, content,
                     started, starts>> /\ arg' = arg
  BY DEF KyoukoInv, BufferInv, ringvars, bindvars, CardExecute
<1>2. /\ fifo' = fifo /\ pc' = pc /\ Used /\ P # <<>> /\ e = Head(P) /\ T = Tail(P)
      /\ reg' \in [FifoHead : Slots, FifoTail : Slots]
      /\ Executed' = Executed + 1 /\ Waits' = Waits - 1 /\ Kicked' = Kicked - 1
      /\ Written' = Written /\ Waits >= 1 /\ Kicked >= 1 /\ pc \notin {"queue", "flushing"}
  BY ExecuteMoves
<1>3. /\ P \in Seq(Entries) /\ e \in Entries /\ Len(P) = Waits /\ Len(T) = Waits - 1
      /\ Executed \in Nat /\ Waits \in Nat /\ Written \in Nat /\ Kicked \in Nat /\ Visible \in Nat
  BY <1>1, <1>2, RingFacts, HeadTailProperties
<1>4. /\ card \in [address : Nat, busy : Transfers, irq : BOOLEAN]
      /\ card'.irq = card.irq
      /\ ~ Starting(e) =>
           /\ card' \in [address : Nat, busy : Transfers, irq : BOOLEAN]
           /\ card'.busy = None
           /\ \A b \in Nat : e = Entry("BufferA_Address", b) => card'.address = b
      /\ Starting(e) => card' = [card EXCEPT !.busy = [buf |-> card.address, count |-> e.value,
                                                       data |-> content[card.address]]]
  <2>1. card \in [address : Nat, busy : Transfers, irq : BOOLEAN]
    BY <1>1 DEF DmaTypes
  <2> QED
    BY <1>3, <2>1, ObeysIs
<1> HIDE DEF e, P, T
<1>5. /\ Used' = Used /\ Bound' = Bound /\ Locking' = Locking /\ Visible' = Visible - 1
      /\ Filled' = Filled /\ Drained' = Drained
  <2>1. Used' = Used /\ Bound' = Bound /\ Locking' = Locking
    BY <1>1, <1>2 DEF Used, Bound, Locking
  <2>2. Visible' = Visible - 1
    BY <1>2 DEF Visible, Kicking
  <2>3. Filled' = Filled
    BY <1>1, <1>2 DEF Filled, One, Locking
  <2>4. Drained' = Drained
    BY <1>1, <1>4 DEF Drained, One
  <2> QED
    BY <2>1, <2>2, <2>3, <2>4
<1>6. CommandInv'
  <2>1. FifoTypes'
    BY <1>1, <1>2 DEF FifoTypes
  <2>2. RingInv'
    <3>1. Executed + Waits = Written /\ Kicked <= Waits
      BY <1>1, <1>2 DEF RingInv
    <3>2. Executed' + Waits' = Written' /\ Kicked' <= Waits'
      BY <1>2, <1>3, <3>1
    <3>3. Used' /\ pc' # "pause"
      BY <1>2 DEF Used
    <3> QED
      BY <3>2, <3>3 DEF RingInv
  <2>3. ToCome' = ToCome
    BY <1>1, <1>2, <1>4 DEF ToCome, One
  <2>4. ASSUME Kicking
        PROVE  /\ ~ Starting(e) /\ ~ card.irq /\ Kicked < Waits
               /\ \A k \in 1 .. Waits - 1 : Starting(T[k]) => k = Waits - 1
    <3>1. ~ card.irq /\ Kicked < Waits /\ \A k \in 1 .. Waits : Starting(P[k]) => k = Waits
      BY <1>1, <2>4 DEF QueueInv, P
    <3>2. e = P[1] /\ \A k \in 1 .. Waits - 1 : T[k] = P[k + 1]
      BY <1>2, <1>3
    <3>3. /\ 1 \in 1 .. Waits /\ 1 # Waits
          /\ \A k \in 1 .. Waits - 1 : k + 1 \in 1 .. Waits /\ (k + 1 = Waits => k = Waits - 1)
      BY <1>2, <1>3, <3>1
    <3> QED
      BY <3>1, <3>2, <3>3
  <2>5. QueueInv'
    <3>1. Kicking' = Kicking /\ pc' \notin {"queue", "flushing"}
      BY <1>2 DEF Kicking
    <3>2. pc = "kicking" => arg'.slot = fifo'.head
      BY <1>1, <1>2 DEF QueueInv
    <3>3. Kicked < Waits => Kicked' < Waits'
      BY <1>2, <1>3
    <3>4. Kicking => /\ ~ card'.irq /\ card'.busy = None
                     /\ \A k \in 1 .. Waits' : Starting(T[k]) => k = Waits'
      BY <1>2, <1>4, <2>4
    <3> QED
      BY <1>2, <2>4, <3>1, <3>2, <3>3, <3>4 DEF QueueInv, T
  <2> QED
    BY <1>1, <1>2, <2>1, <2>2, <2>3, <2>5 DEF CommandInv, RoomInv
<1>7. BindInv'
  BY <1>1, <1>2, <1>5 DEF BindInv
<1>8. CountInv'
  BY <1>1, <1>2, <1>5 DEF CountInv
<1>9. CASE NoneStarting(P)
  <2>1. ~ Starting(e) /\ NoneStarting(T)
    BY <1>2, <1>3, <1>9, TailNone
  <2>2. DmaTypes'
    BY <1>1, <1>4, <2>1 DEF DmaTypes
  <2>3. TransferInv'
    <3>1. Bound /\ Drained < Filled => Ending(P, card) /\ card.irq
      BY <1>1, <1>9 DEF TransferInv, Transferring, Moving, Ordered, Ending, StartsAt, NoneStarting, P,
                         None, Count
    <3>2. Bound /\ Drained = Filled => ~ card.irq
      BY <1>1 DEF TransferInv, Resting
    <3> QED
      BY <1>4, <1>5, <2>1, <3>1, <3>2 DEF TransferInv, Transferring, Resting, Ending, T
  <2>4. UnboundInv'
    BY <1>1, <1>4, <1>5, <2>1 DEF UnboundInv, T
  <2> QED
    BY <1>6, <1>7, <1>8, <2>2, <2>3, <2>4 DEF KyoukoInv, CommandInv, BufferInv
<1>10. CASE ~ NoneStarting(P)
  <2>1. /\ Bound /\ Drained < Filled /\ Ordered(P, card, Drained, Visible)
        /\ Drained \in Int /\ 0 <= Drained /\ Filled <= starts /\ starts <= NumBufs
        /\ starts \in Nat /\ Filled \in Int
    <3>1. Bound
      BY <1>1, <1>2, <1>10 DEF UnboundInv, P
    <3>2. /\ Drained \in Int /\ 0 <= Drained /\ Filled <= starts /\ starts <= NumBufs
          /\ Filled \in Int /\ Drained <= Filled /\ starts \in Nat
      BY <1>1, <3>1, CountFacts DEF CountInv
    <3>3. Drained # Filled
      BY <1>1, <1>10, <3>1 DEF TransferInv, Resting, P
    <3>4. Transferring(P, card, Drained, Visible)
      BY <1>1, <3>1, <3>2, <3>3 DEF TransferInv, P
    <3> QED
      BY <1>10, <3>1, <3>2, <3>3, <3>4 DEF Transferring, Ending, Moving
  <2>2. PICK k \in 1 .. Len(P) : StartsAt(P, k, Drained, card.address) /\ k <= Visible
    BY <2>1 DEF Ordered
  <2>3. ~ card.irq /\ Drained \in Nat /\ Drained \in Bufs /\ content[Drained] = Drained + 1
    <3>1. ~ card.irq
      BY <2>1 DEF Ordered
    <3>2. Drained \in Nat /\ Drained \in Bufs /\ Drained < starts
      BY <2>1, Sizes DEF Bufs
    <3>3. \A b \in Bufs : b < starts => content[b] = b + 1
      BY <1>1, <2>1 DEF CountInv
    <3> QED
      BY <3>1, <3>2, <3>3
  <2>4. CASE k = 1
    <3>1. Starting(e) /\ e.value = Count /\ card.address = Drained /\ NoneStarting(T)
      <4>1. /\ k = 1 => Starting(Head(P)) /\ Head(P).value = Count /\ card.address = Drained
                        /\ NoneStarting(Tail(P))
        BY <1>3, <2>2, TailStarts
      <4> QED
        BY <1>2, <2>4, <4>1
    <3> DEFINE x == [buf |-> Drained, count |-> Count, data |-> Drained + 1]
    <3>2. card' = [card EXCEPT !.busy = x]
      BY <1>4, <2>3, <3>1
    <3>3. x \in Transfers
      BY <2>3 DEF Transfers, Count
    <3> HIDE DEF x
    <3>4. card' \in [address : Nat, busy : Transfers, irq : BOOLEAN] /\ card'.busy = x
      BY <1>4, <3>2, <3>3
    <3>5. DmaTypes'
      BY <1>1, <3>4 DEF DmaTypes
    <3>6. Moving(T, card', Drained)
      BY <1>4, <2>3, <3>1, <3>4 DEF Moving, x
    <3>7. TransferInv' /\ UnboundInv'
      BY <1>5, <2>1, <3>6 DEF TransferInv, Transferring, UnboundInv, T
    <3> QED
      BY <1>6, <1>7, <1>8, <3>5, <3>7 DEF KyoukoInv, CommandInv, BufferInv
  <2>5. CASE k # 1
    <3> DEFINE next == IF Starting(e) THEN Drained ELSE card'.address
    <3>1. Head(P) = Entry("BufferA_Address", Drained) => next = Drained
      BY <1>2, <1>4, <2>3
    <3> HIDE DEF next
    <3>2. ~ Starting(e) /\ StartsAt(T, k - 1, Drained, next)
      BY <1>2, <1>3, <2>2, <2>5, <3>1, TailStarts
    <3>3. next = card'.address
      BY <3>2 DEF next
    <3>4. DmaTypes'
      BY <1>1, <1>4, <3>2 DEF DmaTypes
    <3>5. k - 1 \in 1 .. Len(T) /\ k - 1 <= Visible'
      BY <1>3, <1>5, <2>2, <2>5
    <3>6. Ordered(T, card', Drained, Visible')
      BY <1>4, <2>3, <3>2, <3>3, <3>5 DEF Ordered
    <3>7. TransferInv' /\ UnboundInv'
      BY <1>5, <2>1, <3>6 DEF TransferInv, Transferring, UnboundInv, T
    <3> QED
      BY <1>6, <1>7, <1>8, <3>4, <3>7 DEF KyoukoInv, CommandInv, BufferInv
  <2> QED
    BY <2>4, <2>5
<1> QED
  BY <1>9, <1>10

(* The card's reset, while the program waits for it in pause().            *)
LEMMA ResetStep ==
  ASSUME KyoukoInv, CardReset, UNCHANGED <<ringvars, bindvars, card, content, started, starts>>
  PROVE  KyoukoInv'
<1>1. /\ FifoTypes /\ RingInv /\ RoomInv /\ DmaTypes /\ BindInv /\ UnboundInv
      /\ pc = "pause" /\ reg' = [FifoHead |-> 0, FifoTail |-> 0]
      /\ UNCHANGED <<pc, fifo, arg, dma_fill, dma_drain, isFull, cmdCount, index, umap, handler, i,
                     card, content, started, starts>>
  BY DEF KyoukoInv, BufferInv, CardReset, ringvars, bindvars
<1>2. ~ Used /\ ~ Used' /\ ~ Bound /\ ~ Bound' /\ Locking' = Locking
  BY <1>1 DEF Used, Bound, BindInv, Locking
<1>3. FifoTypes' /\ RingInv'
  BY <1>1, <1>2, Sizes DEF FifoTypes, RingInv
<1>4. RoomInv' /\ QueueInv'
  <2>1. Written' = Written /\ ToCome' = ToCome
    BY <1>1 DEF Written, ToCome, One
  <2> QED
    BY <1>1, <2>1 DEF RoomInv, QueueInv, Kicking
<1>5. DmaTypes' /\ BindInv'
  BY <1>1, <1>2 DEF DmaTypes, BindInv
<1>6. CountInv' /\ TransferInv' /\ UnboundInv'
  BY <1>1, <1>2 DEF CountInv, TransferInv, UnboundInv
<1> QED
  BY <1>3, <1>4, <1>5, <1>6 DEF KyoukoInv, BufferInv

(* The handler runs for the transfer that has ended, outside the lock, and *)
(* hands over the next buffer, or no words when none is started.           *)
LEMMA InterruptStep ==
  ASSUME AsPrograms, KyoukoInv, rkintr
  PROVE  KyoukoInv' /\ Longer(Pending, Pending')
<1> DEFINE D == Wrap(Drained + 1)
<1>1. /\ FifoTypes /\ RingInv /\ RoomInv /\ QueueInv /\ DmaTypes /\ BindInv /\ CountInv /\ TransferInv
      /\ UnboundInv
      /\ card.irq /\ ~ Locking /\ dma_drain' = Succ(dma_drain)
      /\ fifo' = Submit(fifo, dma_drain', cmdCount[dma_drain'])
      /\ reg' = [reg EXCEPT !.FifoHead = fifo'.head]
      /\ card' = [card EXCEPT !.irq = FALSE]
      /\ UNCHANGED <<dma_fill, cmdCount, index, umap, handler, i, content, started, starts>>
  BY DEF KyoukoInv, BufferInv, rkintr, AsPrograms, Locked, Locking, bindvars
<1>2. \/ dma_fill # dma_drain' /\ isFull' = FALSE /\ pc' = IF pc = "wait" THEN "woken" ELSE pc
      \/ dma_fill = dma_drain' /\ isFull' = isFull /\ pc' = pc
  BY DEF rkintr, Wakes
<1>3. /\ Bound /\ Used /\ pc \in {"user", "flush", "full", "wait", "woken"}
      /\ pc' \in {"user", "flush", "full", "wait", "woken"}
  <2>1. Bound
    BY <1>1 DEF UnboundInv
  <2>2. Used
    BY <1>1, <2>1 DEF BindInv, Bound
  <2>3. pc \in {"user", "flush", "full", "wait", "woken"}
    BY <1>1, <2>1, <2>2 DEF FifoTypes, Bound, Used, Locking, QueueInv, Kicking
  <2> QED
    BY <1>2, <2>1, <2>2, <2>3
<1>4. Used' /\ Bound' /\ ~ Locking'
  BY <1>1, <1>3 DEF Used, Bound, Locking
<1>5. /\ starts \in Nat /\ starts <= NumBufs /\ Filled = starts /\ Drained \in Nat /\ Drained < Filled
      /\ Len(started) \in Nat /\ Drained = starts - Len(started) - 1 /\ i = starts
      /\ dma_fill = Wrap(Filled) /\ dma_drain = Drained /\ Drained \in Bufs
  <2>1. /\ starts <= NumBufs /\ 0 <= Drained /\ Drained <= Filled /\ i = starts
        /\ dma_fill = Wrap(Filled) /\ dma_drain = Wrap(Drained)
    BY <1>1, <1>3 DEF CountInv
  <2>2. starts \in Nat /\ Len(started) \in Nat /\ Filled = starts
        /\ Drained = starts - Len(started) - 1
    BY <1>1, CountFacts
  <2>3. Drained # Filled
    BY <1>1, <1>3 DEF TransferInv, Resting
  <2>4. Drained \in Nat /\ Drained < Filled /\ Drained \in Bufs
    BY <2>1, <2>2, <2>3, Sizes DEF Bufs
  <2> QED
    BY <2>1, <2>2, <2>4, Sizes DEF Wrap
<1>6. Ending(Pending, card)
  BY <1>1, <1>3, <1>5 DEF TransferInv, Transferring, Moving, Ordered
<1>7. dma_drain' = D /\ D \in Bufs /\ D \in Nat
  <2>1. Succ(dma_drain) = D /\ D \in Bufs
    BY <1>5, SuccIs
  <2> QED
    BY <1>1, <2>1 DEF Bufs
<1>8. /\ card' \in [address : Nat, busy : Transfers, irq : BOOLEAN]
      /\ ~ card'.irq /\ card'.busy = None /\ card'.address = card.address
  BY <1>1, <1>6 DEF DmaTypes, Ending
<1> HIDE DEF D
<1>9. DmaTypes'
  <2>1. isFull' \in BOOLEAN
    <3>1. isFull \in BOOLEAN
      BY <1>1 DEF DmaTypes
    <3> QED
      BY <1>2, <3>1, Zenon
  <2> QED
    BY <1>1, <1>7, <1>8, <2>1 DEF DmaTypes
<1>10. Filled' = starts /\ Drained' = Drained + 1
  <2>1. starts' = starts /\ Len(started') = Len(started)
    BY <1>1
  <2>2. Filled' = starts' /\ Drained' = starts' - Len(started')
    BY <1>4, <1>8, <1>9, CountsNext
  <2> QED
    BY <1>5, <2>1, <2>2
<1>11. /\ ToCome = 2 * Len(started) + 2 /\ ToCome' = 2 * Len(started)
       /\ Written \in Nat /\ Waits \in Nat /\ Executed \in Nat
       /\ Written + 2 + 2 * Len(started) < FifoEntries
  <2>1. ToCome = 2 * Len(started) + 2
    BY <1>1, <1>3, <1>5 DEF ToCome, One
  <2>2. ToCome' = 2 * Len(started)
    BY <1>1, <1>3, <1>5, <1>8 DEF ToCome, One
  <2>3. Written + ToCome < FifoEntries
    BY <1>1 DEF RoomInv
  <2> QED
    BY <1>1, <1>5, <2>1, <2>2, <2>3, RingFacts, Sizes
<1>12. cmdCount[D] \in Nat
  BY <1>1, <1>7 DEF DmaTypes, Count
<1>13. /\ reg'.FifoTail = reg.FifoTail /\ reg'.FifoHead = fifo'.head
       /\ fifo' = Submit(fifo, D, cmdCount[D])
  BY <1>1, <1>7 DEF FifoTypes
<1>14. /\ fifo' \in Rings /\ fifo'.tail_cache = fifo.tail_cache /\ fifo'.head \in Slots
       /\ Waits' = Waits + 2 /\ Written' = Written + 2 /\ Executed' = Executed
       /\ Pending' = Handover(Pending, D, cmdCount[D])
  <2>1. Written + 2 < FifoEntries
    BY <1>5, <1>11, Sizes
  <2> QED
    BY <1>1, <1>3, <1>7, <1>12, <1>13, <2>1, SubmitStep
<1>15. reg' \in [FifoHead : Slots, FifoTail : Slots] /\ Kicked' = Waits' /\ Visible' = Waits + 2
  <2>1. reg' \in [FifoHead : Slots, FifoTail : Slots]
    BY <1>1, <1>14 DEF FifoTypes
  <2>2. Kicked' = Waits'
    BY <1>13 DEF Kicked, Waits
  <2> QED
    BY <1>14, <2>1, <2>2 DEF Visible, Kicking
<1>16. CommandInv'
  <2>1. FifoTypes'
    BY <1>3, <1>14, <1>15 DEF FifoTypes
  <2>2. RingInv'
    <3>1. Executed + Waits = Written
      BY <1>1, <1>3 DEF RingInv
    <3>2. Executed' + Waits' = Written' /\ Kicked' <= Waits'
      BY <1>11, <1>14, <1>15, <3>1
    <3> QED
      BY <1>3, <1>4, <3>2 DEF RingInv
  <2>3. Written' + ToCome' < FifoEntries
    BY <1>11, <1>14
  <2>4. RoomInv' /\ QueueInv'
    BY <1>3, <2>3 DEF RoomInv, QueueInv, Kicking
  <2> QED
    BY <2>1, <2>2, <2>4 DEF CommandInv
<1>17. BindInv'
  <2>1. starts # 0
    BY <1>5
  <2> QED
    BY <1>1, <1>3, <1>4, <2>1 DEF BindInv, Bound
<1>18. ~ isFull'
  <2>1. isFull => Filled = NumBufs /\ Drained = 0 /\ NumBufs >= 2
    BY <1>1, <1>3 DEF CountInv
  <2>2. isFull => dma_fill # D
    BY <1>5, <2>1, Sizes DEF Wrap, D
  <2> QED
    BY <1>2, <1>7, <2>2
<1>19. CountInv'
  <2>1. /\ cmdCount[0] = 0
        /\ \A b \in Bufs : /\ Drained < b /\ b < Filled => cmdCount[b] = Count
                           /\ Filled <= b => cmdCount[b] = 0
                           /\ b < starts => content[b] = b + 1
        /\ \A k \in 1 .. Len(started) :
             started[k] = [buf |-> starts - Len(started) + k - 1, count |-> Count,
                           data |-> starts - Len(started) + k]
    BY <1>1, <1>3 DEF CountInv
  <2>2. ASSUME NEW b \in Bufs
        PROVE  Drained + 1 < b /\ b < starts => cmdCount[b] = Count
    <3>1. b \in Nat
      BY DEF Bufs
    <3> QED
      BY <1>5, <2>1, <3>1
  <2>3. i = starts /\ starts <= NumBufs /\ 0 <= Drained + 1 /\ Drained + 1 <= starts
    BY <1>5
  <2>4. dma_drain' = Wrap(Drained + 1) /\ dma_fill = Wrap(starts)
    BY <1>5, <1>7 DEF D
  <2>5. pc' \notin {"direct", "later"}
    BY <1>3
  <2>6. UNCHANGED <<dma_fill, cmdCount, i, content, started, starts>>
    BY <1>1
  <2> QED
    BY <1>5, <1>10, <1>18, <2>1, <2>2, <2>3, <2>4, <2>5, <2>6 DEF CountInv
<1>20. TransferInv' /\ UnboundInv'
  <2>1. Pending \in Seq(Entries) /\ Len(Pending) = Waits /\ NoneStarting(Pending)
    BY <1>1, <1>6, RingFacts DEF Ending
  <2>2. /\ cmdCount[0] = 0
        /\ \A b \in Bufs : /\ Drained < b /\ b < Filled => cmdCount[b] = Count
                           /\ Filled <= b => cmdCount[b] = 0
    BY <1>1, <1>3 DEF CountInv
  <2>3. CASE Drained + 1 < Filled
    <3>1. D = Drained + 1 /\ cmdCount[D] = Count
      <4>1. D = Drained + 1
        BY <1>5, <2>3, Sizes DEF D, Wrap
      <4>2. Drained < D /\ D < Filled
        BY <1>5, <2>3, <4>1
      <4> QED
        BY <1>7, <2>2, <4>1, <4>2
    <3>2. /\ Len(Pending') = Waits + 2
          /\ StartsAt(Pending', Waits + 2, D, card.address)
      BY <1>7, <1>14, <2>1, <3>1, HandoverStarts
    <3>3. Waits + 2 \in 1 .. Len(Pending') /\ Waits + 2 <= Visible'
      BY <1>11, <1>15, <3>2
    <3>4. Ordered(Pending', card', Drained + 1, Visible')
      BY <1>8, <3>1, <3>2, <3>3 DEF Ordered
    <3>5. Drained' # Filled'
      BY <1>5, <1>10, <2>3
    <3> QED
      BY <1>4, <1>10, <3>4, <3>5 DEF TransferInv, Transferring, UnboundInv
  <2>4. CASE Drained + 1 = Filled
    <3>1. cmdCount[D] = 0
      <4>1. CASE Filled < NumBufs
        <5>1. D = Filled /\ Filled <= D
          BY <1>5, <2>4, <4>1, Sizes DEF D, Wrap
        <5> QED
          BY <1>7, <2>2, <5>1
      <4>2. CASE ~ Filled < NumBufs
        BY <1>5, <2>2, <2>4, <4>2, Sizes DEF D, Wrap
      <4> QED
        BY <4>1, <4>2
    <3>2. NoneStarting(Pending')
      BY <1>7, <1>14, <2>1, <3>1, HandoverNone
    <3>3. Resting(Pending', card')
      BY <1>8, <3>2 DEF Resting
    <3>4. Drained' = Filled' /\ ~ (Drained' < Filled')
      BY <1>5, <1>10, <2>4
    <3> QED
      BY <1>4, <3>3, <3>4 DEF TransferInv, UnboundInv
  <2> QED
    BY <1>5, <2>3, <2>4
<1>21. Longer(Pending, Pending')
  BY <1>1, <1>7, <1>12, <1>14, RingFacts, HandoverLonger
<1> QED
  BY <1>9, <1>16, <1>17, <1>19, <1>20, <1>21 DEF KyoukoInv, CommandInv, BufferInv

LEMMA NothingStep ==
  ASSUME KyoukoInv, UNCHANGED vars
  PROVE  KyoukoInv'
<1>1. UNCHANGED <<fifo, reg, executed, pc, arg, dma_fill, dma_drain, isFull, cmdCount, index, umap,
                  handler, i, card, content, started, starts>>
  BY DEF vars, fifovars, dmavars, ringvars, bindvars
<1>2. /\ Used' = Used /\ Executed' = Executed /\ Waits' = Waits /\ Written' = Written
      /\ Kicked' = Kicked /\ Pending' = Pending /\ Visible' = Visible /\ ToCome' = ToCome
  BY <1>1 DEF Used, Executed, Waits, Written, Kicked, Pending, Visible, ToCome, One, Kicking
<1>3. FifoTypes' /\ RingInv' /\ RoomInv' /\ QueueInv'
  BY <1>1, <1>2 DEF KyoukoInv, FifoTypes, RingInv, RoomInv, QueueInv, Kicking
<1>4. DmaTypes' /\ BindInv'
  BY <1>1, <1>2 DEF KyoukoInv, BufferInv, DmaTypes, BindInv
<1>5. Bound' = Bound /\ Locking' = Locking /\ Filled' = Filled /\ Drained' = Drained
  BY <1>1 DEF Bound, Locking, Filled, Drained, One
<1>6. CountInv'
  BY <1>1, <1>5 DEF KyoukoInv, BufferInv, CountInv
<1>7. TransferInv' /\ UnboundInv'
  BY <1>1, <1>2, <1>5 DEF KyoukoInv, BufferInv, TransferInv, UnboundInv
<1> QED
  BY <1>3, <1>4, <1>6, <1>7 DEF KyoukoInv, BufferInv

LEMMA KyoukoStep ==
  ASSUME AsPrograms, KyoukoInv, [Next]_vars
  PROVE  KyoukoInv'
<1>1. CASE kyouko3_open
  BY <1>1, OpenStep
<1>2. CASE kyouko3_release
  BY <1>2, ReleaseStep
<1>3. CASE VMODE
  BY <1>3, ClearStep, QuietSteps DEF VMODE
<1>4. CASE FIFO_QUEUE
  BY <1>4, QueueStep
<1>5. CASE FIFO_FLUSH
  BY <1>5, LoadStep DEF FIFO_FLUSH, FlushLoad, AsPrograms
<1>6. CASE Waiting
  BY <1>6, PauseStep, ValueStep DEF Waiting
<1>7. CASE BIND_DMA
  BY <1>7, BindStep
<1>8. CASE kyouko3_mmap
  BY <1>8, MmapStep
<1>9. CASE HookUp
  BY <1>9, HookStep
<1>10. CASE UNBIND_DMA
  BY <1>10, UnbindStep
<1>11. CASE START_DMA
  BY <1>11, StartStep
<1>12. CASE TransferDirect
  BY <1>12, DirectStep
<1>13. CASE Kick
  BY <1>13, LoadStep, KickStep DEF Kick
<1>14. CASE TransferLater
  BY <1>14, LaterStep
<1>15. CASE TestFull \/ WaitEnds(FALSE) \/ WaitEnds(TRUE)
  BY <1>15, FullSteps
<1>16. CASE rkintr
  BY <1>16, InterruptStep
<1>17. CASE CardStep
  <2>1. CASE CardReset /\ UNCHANGED card
    BY <1>17, <2>1, ResetStep DEF CardStep
  <2>2. CASE CardExecute /\ card' = Obeys(executed')
    BY <1>17, <2>2, ExecuteStep DEF CardStep
  <2> QED
    BY <1>17, <2>1, <2>2 DEF CardStep
<1>18. CASE Transferred
  BY <1>18, TransferredStep
<1>19. CASE UNCHANGED vars
  BY <1>19, NothingStep
<1>20. CASE Flushing
  BY <1>20, KickStep, PollStep, QuietSteps DEF Flushing, FlushKick
<1> QED
  BY <1>1, <1>2, <1>3, <1>4, <1>5, <1>6, <1>7, <1>8, <1>9, <1>10, <1>11, <1>12, <1>13, <1>14,
     <1>15, <1>16, <1>17, <1>18, <1>19, <1>20 DEF Next

LEMMA KyoukoSafe ==
  ASSUME AsPrograms
  PROVE  Spec => []KyoukoInv
<1>1. Init => KyoukoInv
  BY KyoukoInit
<1>2. KyoukoInv /\ [Next]_vars => KyoukoInv'
  BY KyoukoStep
<1> QED
  BY <1>1, <1>2, PTL DEF Spec

-----------------------------------------------------------------------------
(* Used as the two programs use it, the driver makes the card transfer     *)
(* exactly the buffers START_DMA was called for, in that order, with their *)
(* length and content: rkintr never hands over a buffer nobody started, or *)
(* one twice, also though it goes on to the next buffer unconditionally.   *)
THEOREM TransfersInOrder ==
  ASSUME AsPrograms
  PROVE  Spec => []TransfersAsStarted
<1>1. KyoukoInv => TransfersAsStarted
  BY OldestFirst DEF TransfersAsStarted
<1> QED
  BY <1>1, KyoukoSafe, PTL

(* A return from FIFO_FLUSH means that the card has executed every entry,  *)
(* though the test compares the head with a cached tail: RingInv keeps the *)
(* card's tail between the two.                                            *)
THEOREM FlushesDrain ==
  ASSUME AsPrograms
  PROVE  Spec => FlushDrains
<1>1. ASSUME KyoukoInv, [Next]_vars, pc = "flush", pc' # "flush"
      PROVE  Pending = <<>>
  <2>1. fifo.tail_cache = fifo.head
    <3>1. CASE UNCHANGED vars
      BY <1>1, <3>1 DEF vars, fifovars
    <3>2. CASE Next
      BY <1>1, <3>2 DEF Next, kyouko3_open, Open, kyouko3_release, Release, VMODE, VmodeOn, VmodeOff,
           FIFO_QUEUE, QueueCommand, FIFO_FLUSH, FlushLoad, LoadHead, Flushing, FlushKick, StoreHead,
           FlushPoll, FlushReturn, Waiting, Pause, QueueValue, BIND_DMA, kyouko3_mmap, HookUp, UNBIND_DMA, START_DMA, TransferDirect, Kick,
           TransferLater, TestFull, WaitEnds, rkintr, Wakes, CardStep, CardReset, CardExecute,
           Transferred, fifovars
    <3> QED
      BY <1>1, <3>1, <3>2
  <2>2. /\ FifoTypes /\ Used /\ Executed + Waits = Written
        /\ Executed \in Nat /\ Waits \in Nat /\ Written = 0
    <3>1. FifoTypes /\ RingInv /\ Used
      BY <1>1 DEF KyoukoInv, Used
    <3> QED
      BY <2>1, <3>1, RingFacts, NoDistance DEF RingInv, Written
  <2>3. Waits = 0
    BY <2>2
  <2> QED
    BY <2>2, <2>3, RingFacts, EmptySeq
<1>2. KyoukoInv /\ [Next]_vars => [pc = "flush" /\ pc' # "flush" => Pending = <<>>]_vars
  BY <1>1
<1> QED
  BY <1>2, KyoukoSafe, PTL DEF Spec, FlushDrains

(* What the queue of commands is mapped to.                                *)
Queue == IF IsOpen THEN Pending ELSE <<>>

(* Steps that touch neither the entries that wait nor executed.            *)
LEMMA QueueKept ==
  ASSUME Next, ~ kyouko3_release, ~ (VMODE /\ VmodeOn), ~ FIFO_QUEUE, ~ Waiting,
         ~ TransferDirect, ~ rkintr, ~ CardExecute, KyoukoInv, AsPrograms
  PROVE  Queue' = Queue /\ executed' = executed /\ IsOpen' = IsOpen
<1>1. CASE kyouko3_open \/ (CardStep /\ CardReset)
  BY <1>1 DEF kyouko3_open, Open, CardStep, CardReset, Queue, IsOpen
<1>2. CASE \/ VMODE \/ BIND_DMA \/ kyouko3_mmap \/ HookUp \/ UNBIND_DMA \/ START_DMA \/ TransferLater
           \/ TestFull \/ WaitEnds(FALSE) \/ WaitEnds(TRUE) \/ Transferred \/ FlushReturn
  <2>1. UNCHANGED <<fifo, reg, executed>>
    BY <1>2 DEF VMODE, VmodeOff, BIND_DMA, kyouko3_mmap, HookUp, UNBIND_DMA, START_DMA, TransferLater,
         TestFull, WaitEnds, Transferred, FlushReturn, fifovars
  <2>2. IsOpen' = IsOpen
    BY <1>2 DEF VMODE, VmodeOff, BIND_DMA, kyouko3_mmap, HookUp, UNBIND_DMA, START_DMA, TransferLater,
         TestFull, WaitEnds, Transferred, FlushReturn, fifovars, IsOpen
  <2>3. Pending' = Pending
    BY <2>1 DEF Pending
  <2> QED
    BY <2>1, <2>2, <2>3 DEF Queue
<1>3. CASE FIFO_FLUSH \/ Kick \/ (FlushKick /\ UNCHANGED dmavars)
  <2>1. /\ pc \notin {"closed", "pause"} /\ pc' \notin {"closed", "pause"} /\ executed' = executed
    BY <1>3 DEF FIFO_FLUSH, FlushLoad, Kick, FlushKick, LoadHead, StoreHead
  <2>2. Pending' = Pending
    BY <1>3, LoadStep, KickStep DEF FIFO_FLUSH, FlushLoad, Kick, FlushKick, AsPrograms
  <2> QED
    BY <2>1, <2>2 DEF Queue, IsOpen
<1>4. CASE FlushPoll
  <2>1. /\ pc \notin {"closed", "pause"} /\ UNCHANGED <<pc, executed, reg>>
        /\ fifo' = [fifo EXCEPT !.tail_cache = reg.FifoTail]
    BY <1>4 DEF FlushPoll
  <2>2. fifo'.head = fifo.head /\ fifo'.k_base = fifo.k_base
    BY <2>1 DEF KyoukoInv, FifoTypes, Rings
  <2>3. Pending' = Pending
    BY <2>1, <2>2 DEF Pending, Ring
  <2> QED
    BY <2>1, <2>3 DEF Queue, IsOpen
<1> QED
  BY <1>1, <1>2, <1>3, <1>4 DEF Next, VMODE, Flushing, CardStep

(* Every step of the driver and the card opens or closes the queue of      *)
(* commands, appends to it while it is open, takes its first entry, or     *)
(* leaves it alone.                                                        *)
LEMMA QueueMoves ==
  ASSUME AsPrograms, KyoukoInv, [Next]_vars
  PROVE  \/ ~ IsOpen /\ IsOpen' /\ Queue = <<>> /\ Queue' = <<>> /\ executed' = executed
         \/ IsOpen /\ ~ IsOpen' /\ Queue' = <<>> /\ executed' = executed
         \/ IsOpen /\ IsOpen' /\ IsStrictPrefix(Queue, Queue') /\ executed' = executed
         \/ IsOpen /\ IsOpen' /\ Queue # <<>> /\ executed' = Head(Queue) /\ Queue' = Tail(Queue)
         \/ Queue' = Queue /\ executed' = executed /\ IsOpen' = IsOpen
<1>1. Pending \in Seq(Entries)
  BY RingFacts DEF KyoukoInv
<1>2. CASE kyouko3_release
  BY <1>2 DEF kyouko3_release, Release, Queue, IsOpen
<1>3. CASE VMODE /\ VmodeOn
  <2>1. pc = "user" /\ pc' = "user" /\ executed' = executed
    BY <1>3 DEF VmodeOn
  <2>2. Longer(Pending, Pending')
    BY <1>3, ClearStep DEF VMODE
  <2> QED
    BY <1>1, <2>1, <2>2, LongerPrefix DEF Queue, IsOpen
<1>4. CASE FIFO_QUEUE
  <2>1. pc = "user" /\ pc' = "queue" /\ executed' = executed
    BY <1>4 DEF FIFO_QUEUE, QueueCommand
  <2> QED
    BY <1>4, <2>1, QueueStep DEF Queue, IsOpen
<1>5. CASE Waiting
  <2>1. CASE Pause /\ UNCHANGED dmavars
    BY <2>1, PauseStep DEF Queue, Pause, IsOpen
  <2>2. CASE QueueValue /\ UNCHANGED dmavars
    <3>1. pc = "queue" /\ pc' = "user" /\ executed' = executed
      BY <2>2 DEF QueueValue
    <3> QED
      BY <1>1, <2>2, <3>1, ValueStep, LongerPrefix DEF Queue, IsOpen
  <2> QED
    BY <1>5, <2>1, <2>2 DEF Waiting
<1>6. CASE TransferDirect
  <2>1. pc = "direct" /\ pc' = "kick" /\ executed' = executed
    BY <1>6 DEF TransferDirect
  <2> QED
    BY <1>1, <1>6, <2>1, DirectStep, LongerPrefix DEF Queue, IsOpen
<1>7. CASE rkintr
  <2>1. IsOpen /\ IsOpen' /\ executed' = executed
    <3>1. card.irq /\ (pc' = pc \/ pc' = "woken") /\ executed' = executed
      BY <1>7 DEF rkintr, Wakes
    <3>2. Bound /\ Used
      BY <3>1 DEF KyoukoInv, BufferInv, UnboundInv, BindInv, Bound
    <3> QED
      BY <3>1, <3>2 DEF Used, IsOpen
  <2> QED
    BY <1>1, <1>7, <2>1, InterruptStep, LongerPrefix DEF Queue
<1>8. CASE CardExecute
  <2>1. /\ pc' = pc /\ Used /\ Pending # <<>> /\ executed' = Head(Pending) /\ Pending' = Tail(Pending)
    BY <1>8, ExecuteMoves
  <2> QED
    BY <2>1 DEF Queue, Used, IsOpen
<1>9. CASE UNCHANGED vars
  BY <1>9 DEF vars, fifovars, Queue, Pending, IsOpen
<1> QED
  BY <1>2, <1>3, <1>4, <1>5, <1>6, <1>7, <1>8, <1>9, QueueKept

(* The ring in memory implements the queue of commands: FIFO_WRITE never   *)
(* overwrites an entry the card has not executed, the card executes every  *)
(* entry once and in order, and none is lost while the device is open, for *)
(* every length of the ring.                                               *)
THEOREM RingIsQueue ==
  ASSUME AsPrograms
  PROVE  Spec => CommandQueueSpec
<1>1. Init => Commands!Init
  BY DEF Init, InitFifo, Commands!Init, IsOpen
<1>2. KyoukoInv /\ [Next]_vars => [Commands!Next]_<<Queue, executed, IsOpen>>
  <2> SUFFICES ASSUME KyoukoInv, [Next]_vars
               PROVE  [Commands!Next]_<<Queue, executed, IsOpen>>
    OBVIOUS
  <2>1. \A P, R : Commands!IsStrictPrefix(P, R) <=> IsStrictPrefix(P, R)
    BY DEF Commands!IsStrictPrefix, Commands!IsPrefix, IsStrictPrefix, IsPrefix
  <2>2. IsOpen \in BOOLEAN /\ IsOpen' \in BOOLEAN
    BY DEF IsOpen
  <2> QED
    BY QueueMoves, <2>1, <2>2 DEF Commands!Next, Commands!Open, Commands!Close, Commands!Add,
         Commands!Execute, Queue
<1> QED
  BY <1>1, <1>2, KyoukoSafe, PTL DEF Spec, CommandQueueSpec, Commands!Spec, Queue
=============================================================================
