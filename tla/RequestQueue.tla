----------------------------- MODULE RequestQueue -----------------------------
(***************************************************************************)
(* request_queue.c: intrusive queues. A queue is a head and a tail pointer *)
(* and a counter; a node embedded in a request points to the node behind   *)
(* it (the field is called prev). The module keeps the pointers exactly as *)
(* the code does, including the tail pointer that request_queue_pop leaves *)
(* behind when it takes the last node.                                     *)
(*                                                                         *)
(* Obligations of the callers: a node that is in a queue is not pushed     *)
(* again (RequestDispatch!QueuedSlotsDistinct discharges it for the queue  *)
(* of a connection), and a queue is not moved to itself.                   *)
(***************************************************************************)
EXTENDS Integers, Sequences

CONSTANTS
    Queues,
    Nodes,
    NULL,
    capacity        \* capacity[q]: the argument of request_queue_new

ASSUME NullAssumption == NULL \notin Nodes /\ NULL \notin Queues
ASSUME CapacityAssumption == capacity \in [Queues -> Nat]

VARIABLES
    head, tail,     \* per queue, a node or NULL
    size,           \* per queue
    prev,           \* per node, the node behind it or NULL
    result,         \* what the last call returned
    fifo            \* history: the nodes of each queue, oldest first

vars == <<head, tail, size, prev, result, fifo>>

Codes == {"SUCCESS", "FULL", "INVALID_PARAMETER", "FAULT"}
Pointers == Nodes \cup {NULL}

\* request_queue_new
Init ==
    /\ head = [q \in Queues |-> NULL]
    /\ tail = [q \in Queues |-> NULL]
    /\ size = [q \in Queues |-> 0]
    /\ prev = [n \in Nodes |-> NULL]
    /\ result = NULL
    /\ fifo = [q \in Queues |-> <<>>]

Queued(n) == \E q \in Queues : \E i \in DOMAIN fifo[q] : fifo[q][i] = n

Returns(value) ==
    /\ result' = value
    /\ UNCHANGED <<head, tail, size, prev, fifo>>

-----------------------------------------------------------------------------
\* Mutations: prev of the new node is not cleared, or a stale tail is taken
\* for the newest node of a drained queue.
Link_StalePrev(q, n) ==
    /\ head' = IF size[q] = 0 THEN [head EXCEPT ![q] = n] ELSE head
    /\ prev' = IF size[q] = 0 THEN prev ELSE [prev EXCEPT ![tail[q]] = n]
    /\ tail' = [tail EXCEPT ![q] = n]
    /\ size' = [size EXCEPT ![q] = @ + 1]
    /\ result' = "SUCCESS"
    /\ fifo' = [fifo EXCEPT ![q] = Append(@, n)]

Link_StaleTail(q, n) ==
    /\ head' = IF tail[q] = NULL THEN [head EXCEPT ![q] = n] ELSE head
    /\ prev' = IF tail[q] = NULL
               THEN [prev EXCEPT ![n] = NULL]
               ELSE [prev EXCEPT ![n] = NULL, ![tail[q]] = n]
    /\ tail' = [tail EXCEPT ![q] = n]
    /\ size' = [size EXCEPT ![q] = @ + 1]
    /\ result' = "SUCCESS"
    /\ fifo' = [fifo EXCEPT ![q] = Append(@, n)]

\* The node is taken in as the only node, or linked behind the newest one.
Link(q, n) ==
    /\ head' = IF size[q] = 0 THEN [head EXCEPT ![q] = n] ELSE head
    /\ prev' = IF size[q] = 0
               THEN [prev EXCEPT ![n] = NULL]
               ELSE [prev EXCEPT ![n] = NULL, ![tail[q]] = n]
    /\ tail' = [tail EXCEPT ![q] = n]
    /\ size' = [size EXCEPT ![q] = @ + 1]
    /\ result' = "SUCCESS"
    /\ fifo' = [fifo EXCEPT ![q] = Append(@, n)]

\* A queue that holds nodes but has lost its tail is a fault, found after
\* the node was cleared.
request_queue_push(q, n) ==
    /\ ~Queued(n)
    /\ IF size[q] >= capacity[q]
       THEN Returns("FULL")
       ELSE IF size[q] # 0 /\ tail[q] = NULL
            THEN /\ prev' = [prev EXCEPT ![n] = NULL]
                 /\ result' = "FAULT"
                 /\ UNCHANGED <<head, tail, size, fifo>>
            ELSE Link(q, n)

\* tail is left alone, and so is the prev pointer of the node taken out.
request_queue_pop(q) ==
    IF size[q] <= 0 \/ head[q] = NULL
    THEN Returns(NULL)
    ELSE /\ result' = head[q]
         /\ head' = [head EXCEPT ![q] = prev[head[q]]]
         /\ size' = [size EXCEPT ![q] = @ - 1]
         /\ fifo' = [fifo EXCEPT ![q] = Tail(@)]
         /\ UNCHANGED <<tail, prev>>

\* peek looks at head and not at size.
request_queue_peek(q) == Returns(head[q])

request_queue_empty(q) == Returns(IF size[q] <= 0 THEN "true" ELSE "false")

\* Mutation: the size of the wrong queue is subtracted.
Splice_WrongSize(from, to) ==
    /\ prev' = IF size[to] > 0
               THEN [prev EXCEPT ![tail[to]] = head[from]]
               ELSE prev
    /\ head' = [head EXCEPT ![to] = IF size[to] > 0 THEN @ ELSE head[from],
                            ![from] = NULL]
    /\ tail' = [tail EXCEPT ![to] = tail[from], ![from] = NULL]
    /\ size' = [size EXCEPT ![to] = @ + size[from], ![from] = @ - size[to]]
    /\ result' = "SUCCESS"
    /\ fifo' = [fifo EXCEPT ![to] = @ \o fifo[from], ![from] = <<>>]

\* The nodes of from go behind those of to.
Splice(from, to) ==
    /\ prev' = IF size[to] > 0
               THEN [prev EXCEPT ![tail[to]] = head[from]]
               ELSE prev
    /\ head' = [head EXCEPT ![to] = IF size[to] > 0 THEN @ ELSE head[from],
                            ![from] = NULL]
    /\ tail' = [tail EXCEPT ![to] = tail[from], ![from] = NULL]
    /\ size' = [size EXCEPT ![to] = @ + size[from], ![from] = 0]
    /\ result' = "SUCCESS"
    /\ fifo' = [fifo EXCEPT ![to] = @ \o fifo[from], ![from] = <<>>]

request_queue_move(from, to) ==
    /\ from # to
    /\ IF head[from] = NULL \/ tail[from] = NULL
       THEN Returns("FAULT")
       ELSE IF tail[to] = NULL /\ size[to] > 0
            THEN Returns("FAULT")
            ELSE IF size[to] + size[from] > capacity[to]
                 THEN Returns("FULL")
                 ELSE Splice(from, to)

\* NULL arguments: push and move return an error code, pop and peek NULL,
\* empty returns true.
NullArgument == \E value \in {"INVALID_PARAMETER", NULL, "true"} : Returns(value)

Next ==
    \/ \E q \in Queues, n \in Nodes : request_queue_push(q, n)
    \/ \E q \in Queues : request_queue_pop(q)
    \/ \E q \in Queues : request_queue_peek(q)
    \/ \E q \in Queues : request_queue_empty(q)
    \/ \E from, to \in Queues : request_queue_move(from, to)
    \/ NullArgument

Spec == Init /\ [][Next]_vars

-----------------------------------------------------------------------------
(* Properties.                                                             *)

Fifo == INSTANCE RequestFifo

\* Types: head, tail and prev are nodes or NULL, and size, an int decremented
\* by request_queue_pop, never becomes negative.
TypeOK ==
    /\ head \in [Queues -> Pointers]
    /\ tail \in [Queues -> Pointers]
    /\ size \in [Queues -> Nat]
    /\ prev \in [Nodes -> Pointers]
    /\ result \in Codes \cup Pointers \cup {"true", "false"}
    /\ fifo \in [Queues -> Seq(Nodes)]

\* No node is in two places of one queue or in two queues.
NodesDistinct ==
    \A q, r \in Queues : \A i \in DOMAIN fifo[q], j \in DOMAIN fifo[r] :
        fifo[q][i] = fifo[r][j] => q = r /\ i = j

\* The pointers spell out the queue: size counts its nodes and stays within
\* the capacity, head is the oldest, each node points to the one behind it,
\* the newest points to nothing, and tail names it. An empty queue has no
\* head, which request_queue_peek relies on, while its tail may be stale.
Linked ==
    \A q \in Queues :
        LET s == fifo[q] IN
        /\ size[q] = Len(s)
        /\ size[q] <= capacity[q]
        /\ s = <<>> => head[q] = NULL
        /\ s # <<>> => /\ head[q] = s[1]
                       /\ tail[q] = s[Len(s)]
                       /\ prev[s[Len(s)]] = NULL
        /\ \A i \in DOMAIN s : i < Len(s) => prev[s[i]] = s[i + 1]

\* The pointer code behaves as a bounded FIFO queue: every call returns what
\* the abstract queue returns. In particular request_queue_push never reports
\* a fault and no node is lost when a drained queue with its stale tail
\* pointer is filled again, or when two queues are spliced.
ImplementsFifo == Fifo!FifoSpec
=============================================================================
