---------------------------- MODULE CommandQueue ----------------------------
(***************************************************************************)
(* What the command FIFO of the Kyouko3 card promises: entries are         *)
(* appended, and executed one at a time in the order they were appended.   *)
(* Opening the device starts with an empty queue, and only closing it      *)
(* throws entries away.                                                    *)
(***************************************************************************)
EXTENDS Sequences, SequencesExt

VARIABLES queue,      \* entries written and not yet executed
          executed,   \* the entry the card executed last
          open        \* the device is open

Init == queue = <<>> /\ open = FALSE

Open == ~ open /\ open' = TRUE /\ queue = <<>> /\ UNCHANGED <<queue, executed>>
Close == open /\ open' = FALSE /\ queue' = <<>> /\ UNCHANGED executed
Add == open /\ IsStrictPrefix(queue, queue') /\ UNCHANGED <<executed, open>>
Execute ==
  /\ open /\ queue # <<>>
  /\ executed' = Head(queue) /\ queue' = Tail(queue)
  /\ UNCHANGED open

Next == Open \/ Close \/ Add \/ Execute
Spec == Init /\ [][Next]_<<queue, executed, open>>
=============================================================================
