----------------------------- MODULE RequestFifo -----------------------------
(***************************************************************************)
(* What request_queue.h promises: bounded first-in-first-out queues of     *)
(* nodes, each call with the value it returns. There is no operation that  *)
(* reports an internal fault except request_queue_move from an empty       *)
(* queue. RequestQueue implements this specification with linked nodes.    *)
(***************************************************************************)
EXTENDS Integers, Sequences

CONSTANTS Queues, Nodes, NULL, capacity

VARIABLES fifo, result

fifoVars == <<fifo, result>>

FifoInit ==
    /\ fifo = [q \in Queues |-> <<>>]
    /\ result = NULL

FifoPush(q, n) ==
    IF Len(fifo[q]) >= capacity[q]
    THEN result' = "FULL" /\ UNCHANGED fifo
    ELSE /\ result' = "SUCCESS"
         /\ fifo' = [fifo EXCEPT ![q] = Append(@, n)]

FifoPop(q) ==
    IF fifo[q] = <<>>
    THEN result' = NULL /\ UNCHANGED fifo
    ELSE /\ result' = Head(fifo[q])
         /\ fifo' = [fifo EXCEPT ![q] = Tail(@)]

FifoPeek(q) ==
    /\ result' = IF fifo[q] = <<>> THEN NULL ELSE Head(fifo[q])
    /\ UNCHANGED fifo

FifoEmpty(q) ==
    /\ result' = IF fifo[q] = <<>> THEN "true" ELSE "false"
    /\ UNCHANGED fifo

FifoMove(from, to) ==
    IF fifo[from] = <<>>
    THEN result' = "FAULT" /\ UNCHANGED fifo
    ELSE IF Len(fifo[to]) + Len(fifo[from]) > capacity[to]
         THEN result' = "FULL" /\ UNCHANGED fifo
         ELSE /\ result' = "SUCCESS"
              /\ fifo' = [fifo EXCEPT ![to] = @ \o fifo[from], ![from] = <<>>]

\* A NULL argument is refused.
FifoRefuse ==
    /\ result' \in {"INVALID_PARAMETER", NULL, "true"}
    /\ UNCHANGED fifo

FifoNext ==
    \/ \E q \in Queues, n \in Nodes : FifoPush(q, n)
    \/ \E q \in Queues : FifoPop(q) \/ FifoPeek(q) \/ FifoEmpty(q)
    \/ \E from, to \in Queues : FifoMove(from, to)
    \/ FifoRefuse

FifoSpec == FifoInit /\ [][FifoNext]_fifoVars
=============================================================================
