--------------------------- MODULE RequestDispatch ---------------------------
(***************************************************************************)
(* Request dispatch of one LDAP connection: the functions of entry.c that  *)
(* issue a request (add, search, modify, ld_delete, whoami, ld_rename),    *)
(* the verto callback connection_on_read of connection.c that polls the    *)
(* outstanding requests, and the *_on_read handlers it calls.              *)
(*                                                                         *)
(* Everything runs on one thread, but application code runs in the middle  *)
(* of connection_on_read (the search callback and the error callback) and  *)
(* may issue requests there; the server answers at any moment.             *)
(*                                                                         *)
(* A request whose ldap_*_ext call fails changes no state and is no step.  *)
(* A message stands for the complete answer to one request (ldap_result is *)
(* called with LDAP_MSG_ALL).                                              *)
(***************************************************************************)
EXTENDS Integers, FiniteSets, Sequences, SequencesExt

CONSTANTS
    MAX_REQUESTS,   \* length of read_requests and of search_requests
    MaxMsg,         \* bound: requests issued over one LDAP handle
    Ops,            \* kinds of request the application issues
    Faults          \* which failures the environment shows

AllOps == {"add", "modify", "delete", "rename", "whoami", "search"}

AllFaults ==
    {"result_fails",   \* ldap_result returns -1
     "option_fails",   \* ... and so does ldap_get_option after it
     "reference",      \* the first message of a search is a referral
     "no_memory",      \* talloc fails in search_on_read
     "reconnect"}      \* the state machine reconfigures the connection

ASSUME MaxRequestsAssumption == MAX_REQUESTS \in Nat \ {0}
ASSUME MaxMsgAssumption == MaxMsg \in Nat
ASSUME OpsAssumption == Ops \subseteq AllOps
ASSUME FaultsAssumption == Faults \subseteq AllFaults

VARIABLES
    \* struct ldap_connection_ctx_t
    read_requests,      \* array of requests; write_requests lies behind it
    n_read_requests,    \* first unused slot
    callqueue,          \* the slots queued, oldest first
    search_requests,    \* msgids registered by search; 0 is a zeroed entry
    on_error_operation, \* TRUE when the application installed a handler
    \* locals of connection_on_read and of search_on_read
    pc,                 \* where the thread is
    pending,            \* pending_requests
    current,            \* the request whose handler runs
    search_index,       \* i of search_on_read (1-based)
    \* libldap and the server
    next_msgid,         \* msgid of the next request
    unanswered,         \* requests the server still works on
    wire,               \* answers sent and not read
    buffered,           \* answers libldap read while it looked for another
    \* history
    handled,            \* requests whose handler was called
    failed,             \* requests dropped when ldap_result failed
    forgotten,          \* requests lost with pending_requests
    refused,            \* requests issued that request_queue_push refused
    registered,         \* searches for which search returned success
    called              \* searches whose callback was called

conn == <<read_requests, n_read_requests, callqueue>>
libldap == <<unanswered, wire, buffered>>
history == <<handled, failed, forgotten, called>>
vars == <<conn, search_requests, on_error_operation, pc, pending, current,
          search_index, next_msgid, libldap, refused, registered, history>>

-----------------------------------------------------------------------------
\* Slots: write_requests follows read_requests in the struct and is used by
\* nothing else, so an index past MAX_REQUESTS lands there; an index past
\* both lands in search_requests, where the model stops ("corrupted").
Slots == 0 .. (2 * MAX_REQUESTS - 1)

Msgids == 1 .. MaxMsg

\* ldap_requests_init
Unused == [msgid |-> -1, op |-> "none"]

Requests == [msgid : Msgids, op : Ops]

\* Mutation: one element too few.
Full_OffByOne(queue) == Len(queue) + 1 >= MAX_REQUESTS

\* request_queue_push on a queue of capacity MAX_REQUESTS. Every caller
\* ignores the OPERATION_ERROR_FULL it may return.
Full(queue) == Len(queue) >= MAX_REQUESTS
request_queue_push(queue, slot) ==
    IF Full(queue) THEN queue ELSE Append(queue, slot)

\* Where control is outside connection_on_read, or in application code.
InApplication == pc \in {"idle", "search_callback", "error_callback"}

Init ==
    /\ read_requests = [s \in Slots |-> Unused]
    /\ n_read_requests = 0
    /\ callqueue = <<>>
    /\ search_requests = <<>>
    /\ on_error_operation = FALSE
    /\ pc = "idle"
    /\ pending = <<>>
    /\ current = Unused
    /\ search_index = 0
    /\ next_msgid = 1
    /\ unanswered = {}
    /\ wire = <<>>
    /\ buffered = {}
    /\ handled = {}
    /\ failed = {}
    /\ forgotten = {}
    /\ refused = {}
    /\ registered = {}
    /\ called = {}

-----------------------------------------------------------------------------
(* Issuing a request.                                                      *)

\* The tail shared by every function that issues a request: take the next
\* slot, without a look at MAX_REQUESTS, and queue it.
Enqueue(op) ==
    /\ n_read_requests \in Slots
    /\ read_requests' = [read_requests EXCEPT
           ![n_read_requests] = [msgid |-> next_msgid, op |-> op]]
    /\ n_read_requests' = n_read_requests + 1
    /\ callqueue' = request_queue_push(callqueue, n_read_requests)
    /\ refused' = IF Full(callqueue) THEN refused \cup {next_msgid} ELSE refused
    /\ next_msgid' = next_msgid + 1
    /\ unanswered' = unanswered \cup {next_msgid}
    /\ UNCHANGED <<on_error_operation, pc, pending, current, search_index,
                   wire, buffered, history>>

MayIssue(op) == op \in Ops /\ InApplication /\ next_msgid <= MaxMsg

add ==
    /\ MayIssue("add")
    /\ Enqueue("add")
    /\ UNCHANGED <<search_requests, registered>>

modify ==
    /\ MayIssue("modify")
    /\ Enqueue("modify")
    /\ UNCHANGED <<search_requests, registered>>

ld_delete ==
    /\ MayIssue("delete")
    /\ Enqueue("delete")
    /\ UNCHANGED <<search_requests, registered>>

ld_rename ==
    /\ MayIssue("rename")
    /\ Enqueue("rename")
    /\ UNCHANGED <<search_requests, registered>>

whoami ==
    /\ MayIssue("whoami")
    /\ Enqueue("whoami")
    /\ UNCHANGED <<search_requests, registered>>

\* Mutation: the new entry goes to the front of the table.
search_PushFront ==
    /\ MayIssue("search")
    /\ Enqueue("search")
    /\ IF Len(search_requests) + 1 >= MAX_REQUESTS
       THEN UNCHANGED <<search_requests, registered>>
       ELSE /\ search_requests' = <<next_msgid>> \o search_requests
            /\ registered' = registered \cup {next_msgid}

\* search queues the request before it finds out that the table is full.
search ==
    /\ MayIssue("search")
    /\ Enqueue("search")
    /\ IF Len(search_requests) + 1 >= MAX_REQUESTS
       THEN UNCHANGED <<search_requests, registered>>
       ELSE /\ search_requests' = Append(search_requests, next_msgid)
            /\ registered' = registered \cup {next_msgid}

\* The write one slot past write_requests.
Overrun ==
    /\ \E op \in Ops : MayIssue(op)
    /\ n_read_requests \notin Slots
    /\ pc' = "corrupted"
    /\ UNCHANGED <<conn, search_requests, on_error_operation, pending, current,
                   search_index, next_msgid, libldap, refused, registered,
                   history>>

ld_install_error_handler ==
    /\ InApplication
    /\ on_error_operation' = TRUE
    /\ UNCHANGED <<conn, search_requests, pc, pending, current, search_index,
                   next_msgid, libldap, refused, registered, history>>

\* The part of connection_configure that concerns requests, run by the state
\* machine on a reconnect: a fresh LDAP handle, arrays, queue and counters.
connection_configure ==
    /\ "reconnect" \in Faults
    /\ pc = "idle"
    /\ read_requests' = [s \in Slots |-> Unused]
    /\ n_read_requests' = 0
    /\ callqueue' = <<>>
    /\ search_requests' = <<>>
    /\ next_msgid' = 1
    /\ unanswered' = {}
    /\ wire' = <<>>
    /\ buffered' = {}
    /\ handled' = {}
    /\ failed' = {}
    /\ forgotten' = {}
    /\ refused' = {}
    /\ registered' = {}
    /\ called' = {}
    /\ UNCHANGED <<on_error_operation, pc, pending, current, search_index>>

-----------------------------------------------------------------------------
(* The handlers. Each runs with pc = "loop", after the request was popped  *)
(* and its answer taken from libldap.                                      *)

ResultCodes == {"success", "already_exists", "other"}

\* The handler returns to the loop.
Return ==
    /\ pc' = "loop"
    /\ current' = Unused
    /\ UNCHANGED search_index

\* The handler calls on_error_operation, if there is one.
ReportError(request) ==
    IF on_error_operation
    THEN pc' = "error_callback" /\ current' = request /\ UNCHANGED search_index
    ELSE Return

add_on_read(request) ==
    \E error_code \in ResultCodes :
        IF error_code \in {"success", "already_exists"}
        THEN Return
        ELSE ReportError(request)

modify_on_read(request) ==
    \E error_code \in ResultCodes :
        IF error_code = "success" THEN Return ELSE ReportError(request)

delete_on_read(request) ==
    \E error_code \in ResultCodes :
        IF error_code = "success" THEN Return ELSE ReportError(request)

rename_on_read(request) ==
    \E error_code \in ResultCodes :
        IF error_code = "success" THEN Return ELSE ReportError(request)

whoami_on_read(request) == Return

\* Mutation: the msgid is not compared.
Matches_Any(msgid) == 1 .. Len(search_requests)

\* An answer that starts with an entry or the result goes to the callback of
\* the first table entry with its msgid; an answer that starts with a
\* reference is ignored; out of memory leaves before the callback.
Matches(msgid) ==
    {i \in 1 .. Len(search_requests) : search_requests[i] = msgid}

search_on_read(request) ==
    \/ \E i \in Matches(request.msgid) :
          /\ \A j \in Matches(request.msgid) : i <= j
          /\ pc' = "search_callback"
          /\ current' = request
          /\ search_index' = i
    \/ /\ Matches(request.msgid) = {}
       /\ ReportError(request)
    \/ /\ "reference" \in Faults
       /\ Return
    \/ /\ "no_memory" \in Faults
       /\ Matches(request.msgid) # {}
       /\ Return

on_read_operation(request) ==
    \/ request.op = "add" /\ add_on_read(request)
    \/ request.op = "modify" /\ modify_on_read(request)
    \/ request.op = "delete" /\ delete_on_read(request)
    \/ request.op = "rename" /\ rename_on_read(request)
    \/ request.op = "whoami" /\ whoami_on_read(request)
    \/ request.op = "search" /\ search_on_read(request)

-----------------------------------------------------------------------------
(* connection_on_read.                                                     *)

\* Mutation: n_read_requests is reset before the loop, not behind it.
OnReadBegin_ResetsSlots ==
    /\ pc = "idle"
    /\ wire # <<>>
    /\ pc' = "loop"
    /\ n_read_requests' = 0
    /\ UNCHANGED <<read_requests, callqueue, search_requests,
                   on_error_operation, pending, current, search_index,
                   next_msgid, libldap, refused, registered, history>>

\* verto calls connection_on_read when the socket is readable.
OnReadBegin ==
    /\ pc = "idle"
    /\ wire # <<>>
    /\ pc' = "loop"
    /\ UNCHANGED <<conn, search_requests, on_error_operation, pending, current,
                   search_index, next_msgid, libldap, refused, registered,
                   history>>

\* The request whose turn it is.
Top == read_requests[Head(callqueue)]

\* Mutation: the request is looked at and stays in the queue.
request_queue_pop_Peek ==
    /\ pc = "loop"
    /\ callqueue # <<>>
    /\ UNCHANGED callqueue

\* Every poll pops it.
request_queue_pop ==
    /\ pc = "loop"
    /\ callqueue # <<>>
    /\ callqueue' = Tail(callqueue)

\* libldap reads k messages off the socket and stores them.
ReadWire(k) ==
    /\ wire' = SubSeq(wire, k + 1, Len(wire))
    /\ buffered' = buffered \cup ToSet(SubSeq(wire, 1, k))

\* ldap_result finds the answer among the stored messages, or reads up to it.
ldap_result(msgid) ==
    \/ /\ msgid \in buffered
       /\ buffered' = buffered \ {msgid}
       /\ UNCHANGED wire
    \/ /\ msgid \notin buffered
       /\ \E k \in 1 .. Len(wire) :
             /\ wire[k] = msgid
             /\ wire' = SubSeq(wire, k + 1, Len(wire))
             /\ buffered' = buffered \cup ToSet(SubSeq(wire, 1, k - 1))

\* ldap_result gives up after 10 microseconds: it read at least one message
\* if there was one, and not the one it looked for.
ldap_result_timeout(msgid) ==
    /\ msgid \notin buffered
    /\ \E k \in 0 .. Len(wire) :
          /\ wire # <<>> => k > 0
          /\ msgid \notin ToSet(SubSeq(wire, 1, k))
          /\ ReadWire(k)

PollAnswered ==
    /\ request_queue_pop
    /\ ldap_result(Top.msgid)
    /\ handled' = handled \cup {Top.msgid}
    /\ on_read_operation(Top)
    /\ UNCHANGED <<read_requests, n_read_requests, search_requests,
                   on_error_operation, pending, next_msgid, unanswered,
                   refused, registered, failed, forgotten, called>>

\* Mutation: the request goes straight back to the queue being drained.
PollPending_Requeues ==
    /\ pc = "loop"
    /\ callqueue # <<>>
    /\ ldap_result_timeout(Top.msgid)
    /\ callqueue' = Append(Tail(callqueue), Head(callqueue))
    /\ UNCHANGED <<read_requests, n_read_requests, search_requests,
                   on_error_operation, pc, pending, current, search_index,
                   next_msgid, unanswered, refused, registered, history>>

\* Mutation: the first request without an answer ends the callback.
PollPending_Breaks ==
    /\ request_queue_pop
    /\ ldap_result_timeout(Top.msgid)
    /\ pending' = Append(pending, Top)
    /\ pc' = "idle"
    /\ UNCHANGED <<read_requests, n_read_requests, search_requests,
                   on_error_operation, current, search_index, next_msgid,
                   unanswered, refused, registered, history>>

\* Mutation: a timeout is taken for an answer.
PollPending_Handles ==
    /\ request_queue_pop
    /\ ldap_result_timeout(Top.msgid)
    /\ handled' = handled \cup {Top.msgid}
    /\ on_read_operation(Top)
    /\ UNCHANGED <<read_requests, n_read_requests, search_requests,
                   on_error_operation, pending, next_msgid, unanswered,
                   refused, registered, failed, forgotten, called>>

\* No answer yet: the request moves to the local array, whose last element
\* is pending_requests[MAX_REQUESTS - 1].
PollPending ==
    /\ request_queue_pop
    /\ ldap_result_timeout(Top.msgid)
    /\ IF Len(pending) < MAX_REQUESTS
       THEN pending' = Append(pending, Top) /\ UNCHANGED pc
       ELSE pc' = "corrupted" /\ UNCHANGED pending
    /\ UNCHANGED <<read_requests, n_read_requests, search_requests,
                   on_error_operation, current, search_index, next_msgid,
                   unanswered, refused, registered, history>>

\* ldap_result fails: the request is dropped, no handler runs.
PollFailed ==
    /\ "result_fails" \in Faults
    /\ request_queue_pop
    /\ failed' = failed \cup {Top.msgid}
    /\ UNCHANGED <<read_requests, n_read_requests, search_requests,
                   on_error_operation, pc, pending, current, search_index,
                   next_msgid, libldap, refused, registered, handled,
                   forgotten, called>>

\* ... and get_ldap_option too: goto error_exit leaves with pending_requests
\* not copied back and n_read_requests not reset.
PollFailedNoOption ==
    /\ "result_fails" \in Faults
    /\ "option_fails" \in Faults
    /\ request_queue_pop
    /\ failed' = failed \cup {Top.msgid}
    /\ forgotten' = forgotten \cup {pending[i].msgid : i \in DOMAIN pending}
    /\ pending' = <<>>
    /\ pc' = "idle"
    /\ UNCHANGED <<read_requests, n_read_requests, search_requests,
                   on_error_operation, current, search_index, next_msgid,
                   libldap, refused, registered, handled, called>>

\* Mutations: the entry is not removed, the last one is removed in its place,
\* or it is cleared to -1 like an unused request.
connection_remove_search_request_None(index) == UNCHANGED search_requests
connection_remove_search_request_Last(index) ==
    search_requests' = Front(search_requests)
connection_remove_search_request_Clear(index) ==
    search_requests' = ReplaceAt(search_requests, index, Unused.msgid)

\* Shift the entries behind index down; but when index happens to be the
\* last READ request, clear the entry and cut the last one.
connection_remove_search_request(index) ==
    search_requests' =
        IF index = n_read_requests
        THEN Front(ReplaceAt(search_requests, index, 0))
        ELSE RemoveAt(search_requests, index)

\* The search callback returns and search_on_read removes its table entry.
SearchCallbackReturns ==
    /\ pc = "search_callback"
    /\ called' = called \cup {search_requests[search_index]}
    /\ connection_remove_search_request(search_index)
    /\ pc' = "loop"
    /\ current' = Unused
    /\ search_index' = 0
    /\ UNCHANGED <<conn, on_error_operation, pending, next_msgid, libldap,
                   refused, registered, handled, failed, forgotten>>

ErrorCallbackReturns ==
    /\ pc = "error_callback"
    /\ Return
    /\ UNCHANGED <<conn, search_requests, on_error_operation, pending,
                   next_msgid, libldap, refused, registered, history>>

\* Mutations: n_read_requests keeps counting, or the pending requests are
\* queued and not copied back.
OnReadEnd_KeepsCount ==
    /\ pc = "loop"
    /\ callqueue = <<>>
    /\ read_requests' = [s \in Slots |-> IF s < Len(pending)
                                         THEN pending[s + 1]
                                         ELSE read_requests[s]]
    /\ callqueue' = [i \in 1 .. Len(pending) |-> i - 1]
    /\ pending' = <<>>
    /\ pc' = "idle"
    /\ UNCHANGED <<n_read_requests, search_requests, on_error_operation,
                   current, search_index, next_msgid, libldap, refused,
                   registered, history>>

OnReadEnd_NoCopy ==
    /\ pc = "loop"
    /\ callqueue = <<>>
    /\ callqueue' = [i \in 1 .. Len(pending) |-> i - 1]
    /\ n_read_requests' = Len(pending)
    /\ pending' = <<>>
    /\ pc' = "idle"
    /\ UNCHANGED <<read_requests, search_requests, on_error_operation, current,
                   search_index, next_msgid, libldap, refused, registered,
                   history>>

\* The queue is drained: the pending requests go back to slots 0, 1, ...
OnReadEnd ==
    /\ pc = "loop"
    /\ callqueue = <<>>
    /\ read_requests' = [s \in Slots |-> IF s < Len(pending)
                                         THEN pending[s + 1]
                                         ELSE read_requests[s]]
    /\ callqueue' = [i \in 1 .. Len(pending) |-> i - 1]
    /\ n_read_requests' = Len(pending)
    /\ pending' = <<>>
    /\ pc' = "idle"
    /\ UNCHANGED <<search_requests, on_error_operation, current, search_index,
                   next_msgid, libldap, refused, registered, history>>

-----------------------------------------------------------------------------
\* The server answers its requests in any order.
ServerAnswers ==
    \E m \in unanswered :
        /\ unanswered' = unanswered \ {m}
        /\ wire' = Append(wire, m)
        /\ UNCHANGED <<conn, search_requests, on_error_operation, pc, pending,
                       current, search_index, next_msgid, buffered, refused,
                       registered, history>>

Issue == add \/ modify \/ ld_delete \/ ld_rename \/ whoami \/ search

OnRead ==
    \/ OnReadBegin
    \/ PollAnswered
    \/ PollPending
    \/ PollFailed
    \/ PollFailedNoOption
    \/ SearchCallbackReturns
    \/ ErrorCallbackReturns
    \/ OnReadEnd

Next ==
    \/ Issue
    \/ Overrun
    \/ ld_install_error_handler
    \/ connection_configure
    \/ OnRead
    \/ ServerAnswers

Spec == Init /\ [][Next]_vars

\* A callback returns, verto calls connection_on_read while the socket is
\* readable, and the loop goes on: the thread never stops inside the library.
Fairness == WF_vars(OnRead)

FairSpec == Spec /\ Fairness

\* ... and a server that answers everything it is asked.
AnsweringSpec == FairSpec /\ WF_vars(ServerAnswers)
-----------------------------------------------------------------------------
(* Properties.                                                             *)

SlotMsgid(slot) == read_requests[slot].msgid
QueuedMsgids == {SlotMsgid(callqueue[i]) : i \in DOMAIN callqueue}
PendingMsgids == {pending[i].msgid : i \in DOMAIN pending}
Issued == 1 .. (next_msgid - 1)
Outstanding == QueuedMsgids \cup PendingMsgids

TypeConn ==
    /\ read_requests \in [Slots -> Requests \cup {Unused}]
    /\ n_read_requests \in 0 .. (2 * MAX_REQUESTS)
    /\ callqueue \in Seq(Slots)
    /\ pending \in Seq(Requests)
    /\ next_msgid \in 1 .. (MaxMsg + 1)

TypeControl ==
    /\ on_error_operation \in BOOLEAN
    /\ pc \in {"idle", "loop", "search_callback", "error_callback", "corrupted"}
    /\ current \in Requests \cup {Unused}

TypeSearch ==
    /\ search_requests \in Seq(Msgids \cup {0})
    /\ search_index \in Nat
    /\ registered \in SUBSET Msgids
    /\ called \in SUBSET (Msgids \cup {0})

TypeLdap ==
    /\ unanswered \in SUBSET Msgids
    /\ wire \in Seq(Msgids)
    /\ buffered \in SUBSET Msgids

TypeHistory ==
    /\ handled \in SUBSET Msgids
    /\ failed \in SUBSET Msgids
    /\ forgotten \in SUBSET Msgids
    /\ refused \in SUBSET Msgids

\* Types: slots are numbers the two arrays have room for, a request that
\* connection_on_read set aside is a request, current is a request or unused.
TypeOK == TypeConn /\ TypeControl /\ TypeSearch /\ TypeLdap /\ TypeHistory

\* What request_queue_push asks of its callers: the intrusive node of a slot
\* is never queued twice, and every queued slot was handed out. It would
\* break if connection_on_read reset n_read_requests while slots are queued,
\* because a callback issues requests in the middle of the loop.
QueuedSlotsDistinct ==
    /\ \A i, j \in DOMAIN callqueue : callqueue[i] = callqueue[j] => i = j
    /\ \A i \in DOMAIN callqueue : callqueue[i] < n_read_requests

\* n_read_requests never falls behind the requests it stands for, and
\* between two calls of connection_on_read no slot is leaked: each one below
\* n_read_requests is queued (unless get_ldap_option cut a call short or the
\* queue refused a request).
SlotsAccounted ==
    /\ Len(callqueue) + Len(pending) <= n_read_requests
    /\ (pc = "idle" /\ "option_fails" \notin Faults /\ refused = {}) =>
           n_read_requests = Len(callqueue)

QueuedOnce ==
    \A i, j \in DOMAIN callqueue :
        SlotMsgid(callqueue[i]) = SlotMsgid(callqueue[j]) => i = j
PendingOnce ==
    \A i, j \in DOMAIN pending : pending[i].msgid = pending[j].msgid => i = j
GivenUp == failed \cup forgotten \cup refused

\* No request is duplicated or lost by the moves between callqueue,
\* pending_requests and read_requests: each one issued is waiting exactly
\* once, or was handed to its handler, or was given up on a named error path.
EveryRequestInOnePlace ==
    pc # "corrupted" =>
    /\ Issued = Outstanding \cup handled \cup GivenUp
    /\ QueuedOnce
    /\ PendingOnce
    /\ QueuedMsgids \cap PendingMsgids = {}
    /\ Outstanding \cap (handled \cup GivenUp) = {}
    /\ handled \cap GivenUp = {}

\* While a search callback runs, and issues searches of its own, the index
\* search_on_read passes to connection_remove_search_request afterwards still
\* names the entry of the search being answered.
SearchIndexValid ==
    pc = "search_callback" =>
        /\ search_index \in DOMAIN search_requests
        /\ search_requests[search_index] = current.msgid

\* A search callback only runs for a search that was registered and whose
\* answer was taken from libldap.
CalledWereAnswered == called \subseteq registered \cap handled

\* While a request waits its answer is still to come, or on the wire, or stored
\* by libldap, in one of these places once; when its handler has been called
\* the answer is in none of them. So connection_on_read drops no answer when
\* it looks for another one and times out, and calls no handler on a timeout.
AnswersAccounted ==
    /\ IsInjective(wire)
    /\ unanswered \cap (ToSet(wire) \cup buffered) = {}
    /\ ToSet(wire) \cap buffered = {}
    /\ Outstanding \subseteq unanswered \cup ToSet(wire) \cup buffered
    /\ handled \cap (unanswered \cup ToSet(wire) \cup buffered) = {}

\* On a fault-free connection the table never keeps the entry of a search
\* that is over, so that the table does not fill up with dead entries (search
\* does register a search that the queue refused).
NoStaleSearchEntry ==
    pc \in {"idle", "loop"} =>
        ToSet(search_requests) \ {0} \subseteq Outstanding \cup refused

\* Every caller ignores what request_queue_push returns. That is safe as
\* long as the slot handed out lies inside read_requests: the queue refuses
\* a request only when n_read_requests already passed the end of the array.
IgnoredPushIsSafe ==
    [][refused' \subseteq refused \/ n_read_requests >= MAX_REQUESTS]_vars

\* connection_on_read returns to the event loop, provided the application's
\* callbacks return and issue boundedly many requests.
OnReadReturns == (pc # "idle") ~> (pc \in {"idle", "corrupted"})

\* An answer libldap already holds is delivered by the running
\* connection_on_read if its request is still queued.
BufferedIsHandled ==
    \A m \in Msgids :
        (pc = "loop" /\ m \in buffered /\ m \in QueuedMsgids) ~> m \in handled

\* The refinement mapping to RequestPool.
Gone ==
    Issued \ (Outstanding \cup handled)
Pool ==
    INSTANCE RequestPool WITH
        Ids <- Msgids, outstanding <- Outstanding, done <- handled, lost <- Gone

\* What callers of the request functions rely on: RequestDispatch implements
\* RequestPool. Every handler is called at most once, for a request that was
\* outstanding, and a request that left connection_on_read's hands never
\* comes back, whatever callbacks issue meanwhile. (In a corrupted state
\* nothing is promised: a request popped there counts as lost.)
ImplementsPool == Pool!PoolSpec

\* A registered search that is still waiting has its entry in the table
\* (connection_remove_search_request removes the entry at index and no other).
RegisteredSearchHasEntry ==
    registered \cap Outstanding \subseteq ToSet(search_requests)

\* A search is answered, so its handler is called.
AnsweredIsHandled ==
    \A m \in Msgids : (m \in QueuedMsgids /\ m \notin unanswered) ~> m \in handled
=============================================================================
