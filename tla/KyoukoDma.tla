------------------------------ MODULE KyoukoDma ------------------------------
(***************************************************************************)
(* The Kyouko3 driver with DMA (lab4/mymod.c): a ring of buffers shared by *)
(* the START_DMA ioctl, which hands the next buffer to the card when the   *)
(* ring is empty and leaves it for the interrupt handler otherwise, and    *)
(* rkintr, which runs when the card has transferred a buffer and hands it  *)
(* the next one.  Both write to the command FIFO.  The handler takes no    *)
(* lock: only on one CPU does spin_lock_irqsave keep it out (SMP).         *)
(***************************************************************************)
EXTENDS KyoukoFifo

CONSTANTS NumBufs,         \* NUM_BUFS
          MaxStarts,       \* bound: START_DMA calls
          Restart,         \* may buffers be started again after a BIND_DMA ... UNBIND_DMA?
          SMP,             \* may the handler run on another CPU than the program?
          CallsWhileBusy   \* may it call FIFO_QUEUE and FIFO_FLUSH during a transfer?

ASSUME DmaAssumption ==
  /\ NumBufs \in Nat \ {0} /\ MaxStarts \in Nat
  /\ Restart \in BOOLEAN /\ SMP \in BOOLEAN /\ CallsWhileBusy \in BOOLEAN
  /\ \A e \in UserEntries :    \* the programs queue drawing commands, no transfers
       e.command \notin {"BufferA_Address", "BufferA_Config"}

VARIABLES dma_fill, dma_drain, isFull,
          cmdCount,        \* dmabuffs[i].cmdCount
          index,           \* the static variable of kyouko3_mmap
          umap,            \* the buffers the program's addresses map; <<>>: not bound
          handler,         \* rkintr is hooked up and the card may interrupt
          card,            \* the card's BufferA_Address, the transfer it does, its interrupt
          content,         \* what the program last put into each buffer
          started,         \* buffers started and not yet transferred, oldest first
          i,               \* the program's loop variable: the next buffer to start
          starts           \* START_DMA calls so far: the contents are numbered by it

ringvars == <<dma_fill, dma_drain, isFull, cmdCount>>
bindvars == <<index, umap, handler, i>>
dmavars  == <<ringvars, bindvars, card, content, started, starts>>
vars     == <<fifovars, dmavars>>

Bufs == 0 .. NumBufs - 1
Succ(n) == (n + 1) % NumBufs
None == [buf |-> 0, count |-> 0, data |-> 0]

(* The card has nothing left to do: what the programs' sleeps wait for.    *)
Quiet == reg.FifoTail = reg.FifoHead /\ card.busy = None /\ ~ card.irq

Init ==
  /\ InitFifo
  /\ dma_fill = 0 /\ dma_drain = 0 /\ isFull = FALSE
  /\ cmdCount = [b \in Bufs |-> 0]
  /\ index = 0 /\ umap = <<>> /\ handler = FALSE /\ i = 0
  /\ card = [address |-> 0, busy |-> None, irq |-> FALSE]
  /\ content = [b \in Bufs |-> 0]
  /\ started = <<>> /\ starts = 0

-----------------------------------------------------------------------------
(* The operations the driver has in common with lab3's.                    *)
kyouko3_open ==
  /\ Open
  /\ dma_fill' = 0 /\ dma_drain' = 0
  /\ UNCHANGED <<isFull, cmdCount, bindvars, card, content, started, starts>>

(* The programs sleep before they close.                                   *)
kyouko3_release == umap = <<>> /\ Quiet /\ Release /\ UNCHANGED dmavars

VMODE == umap = <<>> /\ (VmodeOn \/ VmodeOff) /\ UNCHANGED dmavars

(* Each interrupt still to come will write two entries.                    *)
Reserved == 2 * (Len(started) + IF card.irq THEN 1 ELSE 0)

FIFO_QUEUE ==
  /\ CallsWhileBusy \/ Quiet
  /\ Room(1 + Reserved)
  /\ \E e \in UserEntries : QueueCommand(e)
  /\ UNCHANGED dmavars

FIFO_FLUSH == (CallsWhileBusy \/ Quiet) /\ FlushLoad /\ UNCHANGED dmavars

Flushing == (FlushKick \/ FlushPoll \/ FlushReturn) /\ UNCHANGED dmavars

Waiting == (Pause \/ QueueValue) /\ UNCHANGED dmavars

-----------------------------------------------------------------------------
(***************************************************************************)
(* ioctl BIND_DMA allocates and maps one buffer after the other.  The      *)
(* mapping goes through kyouko3_mmap, which takes the buffer from a static *)
(* index of its own.  When the interrupt cannot be had the call fails with *)
(* the buffers in place; the programs do not look at its result.           *)
(***************************************************************************)
NextIndex(k) == (k + 1) % NumBufs

BIND_DMA ==
  /\ pc = "user" /\ graphics_on /\ umap = <<>>
  /\ Restart \/ starts = 0
  /\ pc' = "bind"
  /\ UNCHANGED <<fifo, reg, executed, arg, graphics_on, calls, dmavars>>

kyouko3_mmap ==
  /\ pc = "bind" /\ Len(umap) < NumBufs
  /\ umap' = Append(umap, index) /\ index' = NextIndex(index)
  /\ UNCHANGED <<fifovars, ringvars, handler, i, card, content, started, starts>>

HookUp ==
  /\ pc = "bind" /\ Len(umap) = NumBufs
  /\ handler' \in BOOLEAN      \* FALSE: pci_enable_msi or request_irq fails
  /\ pc' = "user" /\ i' = 0
  /\ UNCHANGED <<fifo, reg, executed, arg, graphics_on, calls, ringvars, index, umap, card, content,
                 started, starts>>

(* The programs sleep before this call.                                    *)
UNBIND_DMA ==
  /\ pc = "user" /\ umap # <<>> /\ Quiet
  /\ umap' = <<>> /\ handler' = FALSE
  /\ UNCHANGED <<fifovars, ringvars, index, i, card, content, started, starts>>

(***************************************************************************)
(* ioctl START_DMA.  The program has filled its next buffer and passes the *)
(* number of words; initiate_transfer tests the ring under the lock.       *)
(***************************************************************************)
Count == 1                                      \* any number but zero
RingEmpty == dma_fill = dma_drain /\ ~ isFull

FillBuffer ==
  /\ content' = [content EXCEPT ![umap[i + 1]] = starts + 1]
  /\ started' = Append(started, [buf |-> i, count |-> Count, data |-> starts + 1])
  /\ i' = i + 1 /\ starts' = starts + 1

START_DMA ==
  /\ pc = "user" /\ Len(umap) = NumBufs /\ i < NumBufs /\ starts < MaxStarts
  /\ Room(4 + Reserved)
  /\ FillBuffer
  /\ pc' = IF RingEmpty THEN "direct" ELSE "later"
  /\ UNCHANGED <<fifo, reg, executed, arg, graphics_on, calls, ringvars, index, umap, handler, card>>

(* The two entries that make the card transfer a buffer.                   *)
ConfigFirst(q, b, c) ==                         \* mutant: config before address
  FIFO_WRITE(FIFO_WRITE(q, Entry("BufferA_Config", c)), Entry("BufferA_Address", b))
Submit(q, b, c) ==
  FIFO_WRITE(FIFO_WRITE(q, Entry("BufferA_Address", b)), Entry("BufferA_Config", c))

TransferDirect ==
  /\ pc = "direct"
  /\ fifo' = Submit(fifo, dma_fill, Count)
  /\ dma_fill' = Succ(dma_fill)
  /\ pc' = "kick"
  /\ UNCHANGED <<reg, executed, arg, graphics_on, calls, dma_drain, isFull, cmdCount, bindvars,
                 card, content, started, starts>>

(* With the lock dropped.                                                  *)
Kick == (LoadHead("kick", "kicking") \/ StoreHead("kicking", "user")) /\ UNCHANGED dmavars

FullAfter(f, d) == isFull \/ f = d

TransferLater ==
  /\ pc = "later"
  /\ cmdCount' = [cmdCount EXCEPT ![dma_fill] = Count]
  /\ dma_fill' = Succ(dma_fill)
  /\ isFull' = FullAfter(Succ(dma_fill), dma_drain)
  /\ pc' = "full"
  /\ UNCHANGED <<fifo, reg, executed, arg, graphics_on, calls, dma_drain, bindvars, card, content,
                 started, starts>>

(* With the lock dropped: sleep if the ring is full.                       *)
TestFull ==
  /\ pc = "full"
  /\ pc' = IF isFull /\ dma_fill = dma_drain THEN "wait" ELSE "user"
  /\ UNCHANGED <<fifo, reg, executed, arg, graphics_on, calls, dmavars>>

(* wait_event_interruptible: a wake-up tests the condition again; a signal *)
(* ends the wait whatever it is.                                           *)
WaitEnds(signal) ==
  /\ pc = IF signal THEN "wait" ELSE "woken"
  /\ pc' = IF signal \/ dma_fill # dma_drain \/ ~ isFull THEN "user" ELSE "wait"
  /\ UNCHANGED <<fifo, reg, executed, arg, graphics_on, calls, dmavars>>

(***************************************************************************)
(* rkintr.  `iflags&0x02 == 0' is `iflags & (0x02 == 0)': never true, so   *)
(* the handler always goes on to the next buffer, started or not.          *)
(***************************************************************************)
IrqsStayOn == FALSE                             \* mutant: spin_lock for spin_lock_irqsave
Locked == pc \in {"direct", "later"}

NeverWakes(drain) == isFull' = (isFull /\ dma_fill = drain) /\ UNCHANGED pc   \* mutant
Wakes(drain) ==
  IF dma_fill # drain
  THEN isFull' = FALSE /\ pc' = IF pc = "wait" THEN "woken" ELSE pc
  ELSE UNCHANGED <<isFull, pc>>

rkintr ==
  /\ card.irq /\ handler
  /\ SMP \/ ~ Locked
  /\ dma_drain' = Succ(dma_drain)
  /\ fifo' = Submit(fifo, dma_drain', cmdCount[dma_drain'])
  /\ reg' = [reg EXCEPT !.FifoHead = fifo'.head]
  /\ card' = [card EXCEPT !.irq = FALSE]
  /\ Wakes(dma_drain')
  /\ UNCHANGED <<executed, arg, graphics_on, calls, dma_fill, cmdCount, bindvars, content,
                 started, starts>>

-----------------------------------------------------------------------------
(* The card (external): it executes entries, except during a transfer; a   *)
(* BufferA_Config with a count begins one, whose end raises the interrupt. *)
Obeys(e) ==
  CASE e.command = "BufferA_Address" -> [card EXCEPT !.address = e.value]
    [] e.command = "BufferA_Config" /\ e.value # 0 ->
         [card EXCEPT !.busy = [buf |-> card.address, count |-> e.value,
                                data |-> content[card.address]]]
    [] OTHER -> card

CardStep ==
  /\ card.busy = None
  /\ \/ CardReset /\ UNCHANGED card
     \/ CardExecute /\ card' = Obeys(executed')
  /\ UNCHANGED <<ringvars, bindvars, content, started, starts>>

Transferred ==
  /\ card.busy # None /\ ~ card.irq
  /\ card' = [card EXCEPT !.busy = None, !.irq = TRUE]
  /\ started' = Tail(started)
  /\ UNCHANGED <<fifovars, ringvars, bindvars, content, starts>>

Next ==
  \/ kyouko3_open \/ kyouko3_release \/ VMODE \/ FIFO_QUEUE \/ FIFO_FLUSH \/ Flushing \/ Waiting
  \/ BIND_DMA \/ kyouko3_mmap \/ HookUp \/ UNBIND_DMA
  \/ START_DMA \/ TransferDirect \/ Kick \/ TransferLater \/ TestFull
  \/ WaitEnds(FALSE) \/ WaitEnds(TRUE) \/ rkintr
  \/ CardStep \/ Transferred

(* The card goes on, a pending interrupt is taken, and a program inside    *)
(* the driver is scheduled; nothing makes it call the driver again.        *)
Fairness ==
  /\ WF_vars(CardStep) /\ WF_vars(Transferred) /\ WF_vars(rkintr)
  /\ WF_vars(Waiting) /\ WF_vars(kyouko3_mmap) /\ WF_vars(HookUp)
  /\ WF_vars(Flushing)
  /\ WF_vars(TransferDirect) /\ WF_vars(Kick) /\ WF_vars(TransferLater) /\ WF_vars(TestFull)
  /\ WF_vars(WaitEnds(FALSE))

Spec == Init /\ [][Next]_vars /\ Fairness

-----------------------------------------------------------------------------
(* Every variable has its type; the indices stay inside their rings.       *)
TypeOK ==
  /\ fifo.head \in Slots /\ fifo.tail_cache \in Slots
  /\ reg.FifoHead \in Slots /\ reg.FifoTail \in Slots
  /\ pc \in {"closed", "pause", "user", "queue", "flushing", "flush", "bind", "direct", "kick",
             "kicking", "later", "full", "wait", "woken"}
  /\ dma_fill \in Bufs /\ dma_drain \in Bufs /\ index \in Bufs
  /\ cmdCount \in [Bufs -> {0, Count}] /\ content \in [Bufs -> 0 .. MaxStarts]
  /\ \A v \in {isFull, handler, graphics_on, card.irq} : v \in BOOLEAN

(* Refinement: the ring in memory is the queue of commands CommandQueue    *)
(* describes.  Nothing FIFO_WRITE stores overwrites an entry the card has  *)
(* not executed, and the card executes every entry once and in order,      *)
(* also when the ring wraps and when the interrupt handler writes to it.   *)
IsOpen == pc \notin {"closed", "pause"}
Commands == INSTANCE CommandQueue WITH
  queue <- IF IsOpen THEN Pending ELSE <<>>, open <- IsOpen
CommandQueueSpec == Commands!Spec

(* FIFO_FLUSH returns only when the card has executed every entry that was *)
(* in the ring: its test compares a cached tail with the head.             *)
FlushDrains == [][pc = "flush" /\ pc' # "flush" => Pending = <<>>]_vars

(* The card transfers exactly the buffers the program started, in that     *)
(* order, with the length given and with what the program put into them:   *)
(* rkintr never hands over a buffer nobody started or one twice.           *)
TransfersAsStarted == card.busy # None => started # <<>> /\ card.busy = Head(started)

(* With the handler hooked up every started buffer is transferred: none is *)
(* left for an interrupt that has come already.                            *)
EveryStartTransferred == [](handler => <>(started = <<>> \/ ~ handler))

(* Opening, queueing, flushing and binding return, and so does START_DMA,  *)
(* also when it sleeps on a full ring: rkintr wakes it without a signal.   *)
InDriver == pc \notin {"closed", "user"}
CallsReturn ==
  InDriver /\ (handler \/ pc \in {"pause", "flushing", "flush", "queue", "bind", "direct", "kick",
                                   "kicking"})
    ~> ~ InDriver
=============================================================================
