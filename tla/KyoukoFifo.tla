----------------------------- MODULE KyoukoFifo -----------------------------
(***************************************************************************)
(* The command FIFO between the Kyouko3 driver (lab3/mymod.c) and the      *)
(* card: a ring of entries in memory, filled at fifo.head by FIFO_WRITE    *)
(* and emptied by the card at its register FifoTail up to the register     *)
(* FifoHead, which the driver sets when it "kicks" the card.  FIFO_WRITE   *)
(* never looks at the tail: not overrunning the ring is left to the        *)
(* program (Room).                                                         *)
(*                                                                         *)
(* The card is modelled from how the driver uses it.  One program has the  *)
(* device open; pc is where it is in the driver.                           *)
(***************************************************************************)
EXTENDS Integers, Sequences, SequencesExt

CONSTANTS FifoEntries,   \* FIFO_ENTRIES
          UserEntries,   \* the entries the program passes to FIFO_QUEUE
          MaxCalls       \* bound: calls of open, VMODE and FIFO_QUEUE

ASSUME FifoAssumption ==
  /\ FifoEntries \in Nat \ {0}
  /\ UserEntries \subseteq [command : STRING, value : Nat]
  /\ MaxCalls \in Nat

VARIABLES fifo,          \* kyouko3.fifo: k_base, head, tail_cache
          reg,           \* the card's registers FifoHead and FifoTail
          executed,      \* the entry the card executed last
          pc,            \* where the program is in the driver
          arg,           \* the entry a FIFO_QUEUE is storing and the slot it began with,
                         \* or the slot loaded for the store to FifoHead
          graphics_on,   \* kyouko3.graphics_on
          calls

fifovars == <<fifo, reg, executed, pc, arg, graphics_on, calls>>

Slots == 0 .. FifoEntries - 1
Entry(c, v) == [command |-> c, value |-> v]
Garbage == Entry("garbage", 0)
NoArg == [entry |-> Garbage, slot |-> 0]

-----------------------------------------------------------------------------
(* FIFO_WRITE's last part: head++ and back to 0 at the end of the ring.    *)
AdvanceHead(n) == IF n + 1 >= FifoEntries THEN 0 ELSE n + 1
AdvanceTail(n) == (n + 1) % FifoEntries

FIFO_WRITE(q, e) == [q EXCEPT !.k_base[q.head] = e, !.head = AdvanceHead(q.head)]

(* The entries from slot a up to slot b.                                   *)
Distance(a, b) == (b - a) % FifoEntries
Ring(q, a, b) == [i \in 1 .. Distance(a, b) |-> q.k_base[(a + i - 1) % FifoEntries]]
Pending == Ring(fifo, reg.FifoTail, fifo.head)

(* The program leaves room for n more entries since its last FIFO_FLUSH:   *)
(* both user programs write far fewer than FIFO_ENTRIES in a session.      *)
Room(n) == Distance(fifo.tail_cache, fifo.head) + n < FifoEntries

-----------------------------------------------------------------------------
InitFifo ==
  /\ fifo = [k_base |-> [s \in Slots |-> Garbage], head |-> 0, tail_cache |-> 0]
  /\ reg = [FifoHead |-> 0, FifoTail |-> 0]
  /\ executed = Garbage
  /\ pc = "closed" /\ arg = NoArg /\ graphics_on = FALSE /\ calls = 0

(* kyouko3_open: init_fifo empties the ring and gives it to the card, then *)
(* pause() spins until the card has reset FifoTail.                        *)
init_fifo == [k_base |-> [s \in Slots |-> Garbage], head |-> 0, tail_cache |-> 0]

Open ==
  /\ pc = "closed" /\ calls < MaxCalls
  /\ fifo' = init_fifo
  /\ pc' = "pause" /\ calls' = calls + 1
  /\ UNCHANGED <<reg, executed, arg, graphics_on>>

NoPause == pc = "pause" /\ pc' = "user"         \* mutant: the reset is not awaited
           /\ UNCHANGED <<fifo, reg, executed, arg, graphics_on, calls>>
Pause ==
  /\ pc = "pause" /\ reg.FifoTail = 0
  /\ pc' = "user"
  /\ UNCHANGED <<fifo, reg, executed, arg, graphics_on, calls>>

(* kyouko3_release frees the ring; the programs turn the graphics off      *)
(* before they close.                                                      *)
Release ==
  /\ pc = "user" /\ ~ graphics_on
  /\ pc' = "closed"
  /\ UNCHANGED <<fifo, reg, executed, arg, graphics_on, calls>>

(* ioctl VMODE with GRAPHICS_ON clears the screen with six entries.        *)
ClearScreen ==
  <<Entry("Clear_Color", 0), Entry("Clear_Color", 0), Entry("Clear_Color", 0),
    Entry("Clear_Color", 1), Entry("Clear_Buffer", 3), Entry("Flush", 0)>>
Clear(q) == LET W(n, p) == FIFO_WRITE(p, ClearScreen[n])
            IN  W(6, W(5, W(4, W(3, W(2, W(1, q))))))

VmodeOn ==
  /\ pc = "user" /\ ~ graphics_on /\ Room(6) /\ calls < MaxCalls
  /\ fifo' = Clear(fifo)
  /\ graphics_on' = TRUE /\ calls' = calls + 1
  /\ UNCHANGED <<reg, executed, pc, arg>>

VmodeOff ==
  /\ pc = "user" /\ graphics_on
  /\ graphics_on' = FALSE
  /\ UNCHANGED <<fifo, reg, executed, pc, arg, calls>>

(***************************************************************************)
(* ioctl FIFO_QUEUE: copy_from_user, then FIFO_WRITE in process context,   *)
(* so an interrupt handler that writes to the FIFO may come between its    *)
(* two stores.  Whether the second store reads fifo.head again or uses the *)
(* slot of the first one is up to the compiler.                            *)
(***************************************************************************)
QueueCommand(e) ==
  /\ pc = "user" /\ graphics_on /\ Room(1) /\ calls < MaxCalls
  /\ fifo' = [fifo EXCEPT !.k_base[fifo.head].command = e.command]
  /\ arg' = [entry |-> e, slot |-> fifo.head]
  /\ pc' = "queue" /\ calls' = calls + 1
  /\ UNCHANGED <<reg, executed, graphics_on>>

QueueValue ==
  /\ pc = "queue"
  /\ \E at \in {arg.slot, fifo.head} :
       fifo' = [fifo EXCEPT !.k_base[at].value = arg.entry.value,
                            !.head = AdvanceHead(fifo.head)]
  /\ arg' = NoArg /\ pc' = "user"
  /\ UNCHANGED <<reg, executed, graphics_on, calls>>

(***************************************************************************)
(* K_WRITE_REG(FifoHead, kyouko3.fifo.head), with which the driver kicks   *)
(* the card: the head is loaded for the call, which waits (udelay) before  *)
(* it stores it.  An interrupt handler that publishes a later head in      *)
(* between is undone by the store.                                         *)
(***************************************************************************)
LoadHead(from, to) ==
  /\ pc = from /\ pc' = to
  /\ arg' = [NoArg EXCEPT !.slot = fifo.head]
  /\ UNCHANGED <<fifo, reg, executed, graphics_on, calls>>

StoreHead(from, to) ==
  /\ pc = from /\ pc' = to
  /\ reg' = [reg EXCEPT !.FifoHead = arg.slot] /\ arg' = NoArg
  /\ UNCHANGED <<fifo, executed, graphics_on, calls>>

(* ioctl FIFO_FLUSH: kick the card and poll FifoTail until it has caught   *)
(* up; the first comparison uses the tail of an earlier flush.             *)
FlushLoad == LoadHead("user", "flushing")
FlushKick == StoreHead("flushing", "flush")

FlushPoll ==
  /\ pc = "flush" /\ fifo.tail_cache # fifo.head
  /\ fifo' = [fifo EXCEPT !.tail_cache = reg.FifoTail]
  /\ UNCHANGED <<reg, executed, pc, arg, graphics_on, calls>>

OnePoll == pc = "flush" /\ pc' = "user" /\ UNCHANGED <<fifo, reg, executed, arg, graphics_on, calls>>  \* mutant
FlushReturn ==
  /\ pc = "flush" /\ fifo.tail_cache = fifo.head
  /\ pc' = "user"
  /\ UNCHANGED <<fifo, reg, executed, arg, graphics_on, calls>>

-----------------------------------------------------------------------------
(* The card (external): a new FifoStart resets it, else it executes the    *)
(* entry at FifoTail while that is short of FifoHead.                      *)
CardReset ==
  /\ pc = "pause" /\ reg.FifoTail # 0
  /\ reg' = [FifoHead |-> 0, FifoTail |-> 0]
  /\ UNCHANGED <<fifo, executed, pc, arg, graphics_on, calls>>

CardExecute ==
  /\ pc # "closed" /\ pc # "pause"
  /\ reg.FifoTail # reg.FifoHead
  /\ executed' = fifo.k_base[reg.FifoTail]
  /\ reg' = [reg EXCEPT !.FifoTail = AdvanceTail(@)]
  /\ UNCHANGED <<fifo, pc, arg, graphics_on, calls>>
=============================================================================
