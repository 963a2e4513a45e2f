# A TLA+ verification of libdomain

libdomain is a C library that talks to LDAP directories (OpenLDAP, Active
Directory) without blocking: requests go out through libldap, a verto event loop
calls the library back when the socket is readable, and a state machine driven by
a timer brings the connection up. This directory holds TLA+ models of that core,
the TLC configurations that check them on small instances, and TLAPS proofs of
the properties that matter most. Source lines are given as `file:line` below
`src/src/`.

## The system

| part | state | operations | interacts with |
|---|---|---|---|
| request queue (`request_queue.c`) | head, tail, size; a `prev` pointer in each node | push, pop, peek, empty, move | nodes live inside the requests of a connection |
| request dispatch (`entry.c`, `connection_on_read`) | `read_requests`, `n_read_requests`, `callqueue`, `search_requests`, local `pending_requests` | `add`, `search`, `modify`, `ld_delete`, `ld_rename`, `whoami`; the `*_on_read` handlers | libldap (`ldap_result`), application callbacks |
| connection (`connection.c`) | LDAP handle, events, counters | configure, start TLS, bind, close and their read handlers | state machine, libldap, verto |
| state machine (`connection_state_machine.c`) | the state | `csm_next_state`, `csm_set_state` | driven by a timer, moved by read handlers |
| directory detection (`directory.c`) | `directory_type` | search of the root entry, its handler | state machine |
| schema (`schema.c`, `openldap_schema.c`, `ad_schema.c`) | tables by OID and by name, static `schema_entry_path` | load, append, ready, getters | state machine, searches |
| handle (`domain.c`) | config, connection | init, install handlers, free, `ld_*_entry` | everything |
| users, groups, computers, OUs, attributes (`user.c`, `group.c`, `computer.c`, `organizational_unit.c`, `attribute.c`) | none of their own; the directory holds it | `ld_add_user` and its like: pick a parent and attributes by directory type and call the handle | handle, directory type, the server |
| entry records (`ld_entry_*` in `entry.c`) | attributes of one entry | new, add, get | searches |
| syntaxes and parsers | none | recognise attribute values | none |

What is hard here:

* everything runs on one thread, but application callbacks run in the middle of
  `connection_on_read` and issue requests that go to the very arrays being drained;
* timer callbacks and read callbacks come in any order, so answers arrive in a
  later state than the one that asked;
* handlers decide by `LDAP_OPT_RESULT_CODE`, which need not be about the message at
  hand, or do not look at a result code at all;
* a request lives in three places (queued slot, local array, libldap) and is copied
  between them, with error paths that leave in the middle;
* reconnecting reuses the connection structure: what `connection_configure` resets
  and what it leaves decides what the next life of the connection sees;
* arrays of fixed length whose bounds callers do not check;
* what a call about a user or a group sends depends on a directory type that is
  unknown at first, becomes known, and is forgotten by a reconnect;
* one static variable is shared by all handles.

What makes each part correct: the queue is FIFO and bounded; every request is handled
at most once and never lost silently; the machine gets to RUN or ERROR, works only on
what it holds, and knows the directory in RUN; lookups in the schema find the latest
definition; calls about one object name one entry, in terms the server knows.

## Modules

| module | what it is |
|---|---|
| `RequestQueue` | `request_queue.c` with its pointers; `fifo` is a history variable |
| `RequestFifo` | what the queue promises: bounded FIFO queues with the values calls return |
| `RequestQueueProofs` | theorems about `RequestQueue` |
| `RequestDispatch` | issuing requests, `connection_on_read` and the handlers of `entry.c` |
| `RequestPool` | what dispatch promises: each request is handled at most once or lost, and never comes back |
| `RequestDispatchProofs` | theorems about `RequestDispatch`: slots, places, the pool, the table of searches |
| `RequestDeliveryProofs` | theorems about `RequestDispatch`: waiting searches, answers, and what `connection_on_read` has left to do |
| `ConnectionStateMachine` | the life of a connection: ticks, read handlers, reconnects |
| `ConnectionStateMachineProofs` | theorems about it |
| `ConnectionPhases` | what a connection promises its users: RUN or not, and what is known of the directory |
| `DirectoryObjects` | users, groups, computers, units, attributes and the `ld_*_entry` functions, over `ConnectionPhases` |
| `DirectoryObjectsProofs` | theorems about it |
| `SchemaTables` | the tables of the schema, the loop that fills them and the getters |
| `SchemaTablesProofs` | theorems about it |
| `SchemaEntryPath` | several handles sharing the static path of the schema entry |
| `SchemaEntryPathProofs` | the theorem about one handle |
| `MCRequestQueue`, `MCStateMachine`, `MCDirectoryObjects`, `MCSchemaTables` | constants for TLC |

Composition: `RequestDispatch` uses the queue through what `RequestQueue` is proved to
be, a sequence; `ConnectionStateMachine` is proved to implement `ConnectionPhases`, and
`DirectoryObjects` extends `ConnectionPhases`, so that what it shows holds on top of the
real state machine.

### RequestQueue

One action per function. A node that is in a queue is not pushed again and a queue
is not moved to itself: those are obligations of the callers, and
`QueuedSlotsDistinct` of `RequestDispatch` discharges the first for the queue of a
connection. The tail that `request_queue_pop` leaves behind (`request_queue.c:144`)
is kept as in the code.

### RequestDispatch

`callqueue` is the sequence of queued slots (what `RequestQueue` is proved to be),
`read_requests` maps slots to requests, `search_requests` is the prefix of the table
below `n_search_requests`. Application code runs where `pc` is `"idle"`,
`"search_callback"` or `"error_callback"`, and there it may issue any request.
`connection_on_read` is one action per turn of its loop (`PollAnswered`,
`PollPending`, `PollFailed`, `PollFailedNoOption`), with `OnReadBegin` and
`OnReadEnd` around them; a handler that calls the application is cut in two at the
call. `PollFailedNoOption` is the jump inside `get_ldap_option`
(`connection.c:627`), which leaves the local array behind.

`write_requests` lies behind `read_requests` and nothing uses it, so slots up to
`2 * MAX_REQUESTS - 1` behave; the write past both arrays is `Overrun`, after which
the model stops (`pc = "corrupted"`). `pending_requests` past its end does the same.

libldap and the server are external. A message stands for the complete answer to a
request, because `ldap_result` is called with `LDAP_MSG_ALL`. `ldap_result` looks
among the messages it stored before, and otherwise reads from the socket; on a
timeout it has read at least one message if there was one. A request whose
`ldap_*_ext` call fails changes no state and is no step. `connection_configure`
starts new message identities, so the history starts over with it. A callback does
not run the event loop from within.

### ConnectionStateMachine

One action per state for `csm_next_state` (`Tick...`), one per read handler, the
failures of `ldap_result`, and the transport, the application and `ld_free`.
`Driver` is `"default"` for `ld_install_default_handlers`, whose `connection_update`
deletes its timer in RUN and ERROR (`domain.c:451`), or `"application"` for a timer
of the application's own (as the repository's reconnect test installs).
`ldap = "unbound"` marks a handle that was unbound; unbinding it again, reading it, or
deleting an event twice, is undefined behaviour and ends the model
(`ended = "corrupt"`). `read_event` stands for `write_event` too: they are created
and deleted together.

*Requests and answers.* The arrays of requests are abstracted to counts of each kind:
`queue`, the requests that wait, and `stored`, those of them whose answer libldap has
read but not given out. `connection_on_read` polls the queued requests in their order,
so an answer that arrives while a later request is polled stays in libldap
(`StoreAnswer`; `PolledBehind` says when there is a later request, `Turn` gives the
order) until the callback runs again. `RequestDispatch` has this request by request. A
bind is exclusive: the server answers nothing else while it is unanswered (RFC 4511,
4.2.1).

*Bind.* Nobody parses the answer to a simple bind: its handler falls to the branch that
reads `LDAP_OPT_RESULT_CODE` and sets ERROR unless that is `LDAP_SUCCESS`
(`connection.c:782`). `SimpleBindRead` therefore lets a refusal go unnoticed, and, with
the fault `stale_code`, an accepted bind become an ERROR. `bind_answer` is what the
server decided. An interactive bind is parsed by libldap (`InteractiveBindRead`); its
rounds, each a request in place of the one answered, are stutters. libldap never returns
`LDAP_SUCCESS` from the first call of one, so `connection_ldap_bind` goes to
BIND_IN_PROGRESS.

*Handlers that set no state.* `get_ldap_option` jumps out of `connection_on_read`
(`connection.c:627`), of `connection_bind_on_read` (784) and of
`connection_start_tls_on_read` (836); and a failed interactive bind whose result code
reads as `LDAP_SUCCESS` (788) changes nothing. Each takes a request and leaves a
machine in TLS_NEGOTIATION or BIND_IN_PROGRESS waiting for nothing. `dropped` remembers
it, and `WaitHasAnEnd` says that nothing else does that.

*Directory.* `config.directory` stands for what the server's root entry reveals. The
result code of the search is not looked at: with the fault `no_entry` an answer carries
no entry and nothing is recognised (`Unrecognised`: UNKNOWN), or it begins with a
referral and changes nothing. Every tick before the first answer sends another search,
and a duplicate may tell the type later, in RUN too. `Abstract` maps the machine to
`ConnectionPhases`: `running` is being in RUN on a handle that was not freed, `server`
is what the root entry reveals.

*Reconnecting and freeing.* `connection_configure` may fail on a reconnect, at the TLS
context (`connection_configure_failed`): the new state machine is freed with the local
talloc context while the connection points at it, and `csm_next_state` goes on.
`connection_on_read_unbound` is the event of a handle that the application unbound with
requests queued: `ldap_result` gets freed memory (`connection.c:622`). In ERROR
`connection_close` frees neither the event loop nor the timer (713), so after `ld_free`
a timer may still be armed; `TickFreed` is that timer on a loop that goes on. In other
states `verto_free` gives up one reference to the loop, and whether the timer goes with
it depends on who else holds one: the model takes both.

Not in the model: lack of memory, a subschema answer without its attribute,
`LDAP_TYPE_FREE_IPA` (never detected by `directory.c`). A table of the schema is
abstracted to whether it holds data, because that is all `ldap_schema_ready` looks at;
`SchemaTables` has the contents.

### DirectoryObjects

One action per `ld_*` function. Each goes through the `ld_*_entry` action of `domain.c`
it calls: the checks of its strings, the name it puts together, one request. A call
that fails its checks changes nothing and is no step. Names are records of prefix, name
and parent; containers and attributes are named by what they stand for. `ld_add_*` takes
an empty parent for none, the other functions only `NULL`, so that `""` fails their
check: `NonEmptyOr` and `GivenOr` keep the difference. `create_user_parent`, the lockout
attribute and the member attribute follow `directory_type` as it is at the call.

What the server does with a request is not modelled: a request in flight is answered or
lost at any moment (`Answered`), and a reconnect drops what is in flight. That a call
which the error handler says nothing about was carried out is not claimed: the code
drops requests without telling anybody (`connection.c:625`, ignored pushes).

`named` records what calls without a parent named in RUN, once the type that the
connection found is the server's.

`create_lockout_time_attributes_ad` leaves its array without the final `NULL` that
`fill_attributes` looks for (`user.c:104`, `domain.c:546`): by chance the next word is
`NULL`, or the behaviour is undefined. The model takes either branch; `undefined` ends it.

### SchemaTables

A definition is named by its position among those taken in, which stands for its
address, so that dangling pointers are visible. One step per value of an answer.
`Insert` writes the table by OID and then the table by name for every name, and only
what the last insertion told is returned (`schema.c:280`): a definition whose last name
is known already is in all tables and still counts as a failure that ends the loading.
The two loaders (`openldap_schema.c`, `ad_schema.c`) have the same loop and share the
actions.

### SchemaEntryPath

Several handles on Active Directory and the one static `schema_entry_path`. A path is
named by the handle whose server gave it, which also owns its memory.

## Runs

Passing:

| run | bounds | what it shows |
|---|---|---|
| `dispatch` | 4 slots, 4 requests, adds and searches | the index a search holds across its callback stays valid, no stale or missing entry in the table of searches, `connection_on_read` returns, stored answers of queued requests are delivered |
| `dispatch_faults` | 3 slots, 3 requests of all kinds, all faults, reconnects | types, every request in exactly one place, callbacks only for answered registered searches, no answer dropped or used twice, refinement of `RequestPool` |
| `dispatch_capacity` | 2 slots, 5 requests | past the end: slots never queued twice, none leaked, refused pushes only past `read_requests` |
| `request_queue` | capacities 2 and 3, 4 nodes | pointers well linked, refinement of `RequestFifo` |
| `state_machine` | all 12 configurations, all faults, 3 reconnects | bind answered before schema and RUN (accepted if interactive), outstanding requests watched, no work on an unbound handle, no step back, something to wait for in each state that waits, refinement of `ConnectionPhases` |
| `state_machine_live` | all configurations, default timer | INIT gets to RUN or ERROR unless libldap holds the answer that CHECK_SCHEMA waits for; an ERROR set by a read handler is retried; after RUN each table is loaded or its answer held by libldap, also on Active Directory where nothing waits for it, and each table is there or on its way meanwhile |
| `schema` | 2 OIDs, 2 names, lists of at most 2 names, 2 definitions of each kind, 1 reconnect | tables point at definitions in memory, lookups find the latest one, none is forgotten |
| `directory_objects` | 1 name and 2 new names, 2 calls of any kind in any phase | types of what is sent, calls in RUN about one object name one entry, only attributes the server knows |

The bounds make the hard cases happen. Four requests allow two searches waiting, one
being answered and one issued from its callback. Five requests on two slots fill the
queue, pass the end of `read_requests` and overrun `write_requests`. Four nodes are
one more than the larger capacity, and the two capacities differ so that a move can
fail. `MaxSame = 2` lets a duplicate search answer late; with
`MAX_RECONNECT_ATTEMPTS = 2` three reconnects pass the limit. Two definitions suffice
for one to replace the other under its OID, under one name, or under both, and lists of
two names include the same name twice. Two calls suffice for every property of
`directory_objects`: each relates two calls, or one call and the server; the theorems
cover any number. `CHECK_DEADLOCK FALSE`
is set where the system may really stop: an idle connection with the bound on
requests used up, or one that was freed.

Violations. Each run checks one statement of the repository that the code does not
keep; `findings` in `PROJECT.json` quotes the lines.

| run | what happens |
|---|---|
| `lost_wakeup` | an answer stored by libldap after its request was polled is not delivered until more data arrives |
| `reconnect_limit` | `connection_configure` resets the counter the limit is about |
| `use_after_release` | a failing `ldap_install_tls` leads to ERROR, as any handler that sets it would; the reconnect closes and deletes the events, and a close before they are installed again deletes them a second time |
| `schema_path` | a second handle searches its schema at the path of the first one's server |

Other things the models show, for which no run is kept:

* a full queue refuses a request that was sent and is reported as successful (`refused`
  in `dispatch_capacity`);
* a connection that breaks in RUN stays in RUN until the application acts (the `TODO` at
  `connection_state_machine.c:183`);
* `connection_remove_search_request` compares with `n_read_requests` where the table's
  own counter is `n_search_requests` (`entry.c:249`). Without faults this is harmless
  (`RegisteredSearchHasEntry` in `dispatch`); once a referral has left a stale entry,
  the entry of a search that is still waiting can be cut;
* an ERROR set by a read handler leaves the LDAP handle open, `connection_close` does
  not unbind it, and the reconnect overwrites it;
* on Active Directory `ldap_schema_ready` says yes before the schema has arrived, and on
  either directory after a load that ended early;
* a refused simple bind may go unnoticed, so that RUN is reached on a connection that is
  anonymous (`RunIsBound` claims no more than that the bind was answered);
* a machine whose TLS or bind handler took its request without setting a state waits for
  ever;
* a search for the root entry that returns no entry makes the directory UNKNOWN. RUN is
  then reached without a schema, and a late duplicate may name the type afterwards; if
  that makes it OpenLDAP in CHECK_SCHEMA, the machine waits for a schema that nobody
  requested. `SchemaOnItsWay` is therefore checked, and proved, without `no_entry`;
* on OpenLDAP CHECK_SCHEMA may wait for an answer that libldap holds: the ticks do not
  poll, and no readable socket makes `connection_on_read` run (the case of `lost_wakeup`
  inside the library; `SchemaHeld` in `InitSettles`);
* after `ld_free` in ERROR the timer keeps a pointer to the freed connection, and
  `ldap_result` may be called on a handle the application unbound: both end in
  `"corrupt"` under the faults `loop_goes_on` and `application_error`;
* with `tls_fails` and `tls_context` a failing `connection_configure` violates
  `NoUseAfterRelease` as well;
* `ld_add_computer` puts a computer below the base, while the other functions look below
  `ou=equipment` when no parent is given; `FoundAgain` leaves computers out;
* a call made before the directory is detected may name another entry than one made
  after it (`create_user_parent` defaults to `ou=users`);
* `user.c`, and `group_member_modify`, read the handle before anything checks it for
  `NULL`.

## Fairness

`RequestDispatch!Fairness` is weak fairness of `OnRead`: verto calls
`connection_on_read` while the socket is readable, the thread does not stop inside
the library, and callbacks return. `AnsweringSpec` adds a server that answers; it is
used only to show that `lost_wakeup` is no fault of the server.
`ConnectionStateMachine!Fairness` is weak fairness of the timer, of the transport
coming up, and of the read callback while an answer that nobody read makes the socket
readable (`ReadsSocket`): both callbacks are persistent verto events, and the server
answers what it was asked. It does not say which request gets its answer: the step may
as well store it. What libldap holds makes no socket readable, so giving it out has no
fairness, in agreement with `lost_wakeup`; `InitSettles` and `SchemaFollowsRun` name the
held answer as the one way out. Issuing requests, faults and `ld_free` have no fairness.

## Proofs

TLAPS proves, for every value of the constants that satisfies the named
assumptions (positive `MAX_REQUESTS`; any `Ops` and `Faults` of the modelled kinds;
any queues, nodes and capacities; any configurations, at least two attempts; any names
and number of calls; any OIDs, names and lists of names):

* **RequestQueue**: types, `Linked`, and `Spec => ImplementsFifo`. The inductive
  invariant is `TypeOK /\ Linked /\ NodesDistinct`. `NodesDistinct` is needed because
  a node in two places would have its one `prev` pointer overwritten by the second
  push; the move needs it to show that redirecting the old tail of one queue touches
  no node of the other.
* **RequestDispatch**: `SlotInv` strengthens the types by: queued slots are distinct
  and below `n_read_requests`, `callqueue` and `pending` together fit below
  `n_read_requests`, queued slots hold requests, `pending` is empty between two calls
  of `connection_on_read`, and the search being answered is where its index says. From it follow types,
  `QueuedSlotsDistinct`, `SearchIndexValid` and `IgnoredPushIsSafe`. `PlaceInv` adds
  `EveryRequestInOnePlace`, from which `Spec => ImplementsPool` follows step by step:
  issuing maps to `PoolIssue` or `PoolRefuse`, `PollAnswered` to `PoolHandle`, the
  failures to `PoolLose`, a reconnect to `PoolReset`, everything else stutters;
  `OnReadEnd` stutters because it copies every pending request to the slot it queues.
  `SlotsAccounted` needs `IdleExact` (between two calls the count is exact) on top of
  `SlotInv`; `CalledWereAnswered` needs that the table holds only registered searches
  and that the search whose callback runs had its answer taken (`CallInv`).
  `NoStaleSearchEntry` is proved for a connection on which no call fails
  (`Faults \subseteq {"reconnect"}`; a referral breaks it): `TableInv` adds
  that entries are distinct, that waiting requests of other kinds have none, and that
  the search whose callback runs is the only one that is over and still has its entry.

  `RegisteredSearchHasEntry` is proved under the same faults while `refused` is empty. The
  code tests its index against `n_read_requests`, the count of another array; the proof
  is that the test never errs (`RemoveExact`), because the table is never longer than
  `n_read_requests`. That is a count (`TableFits`): entries map injectively to the
  requests that are queued, set aside or being answered, and each of these has its slot
  below `n_read_requests`. It needs that a search whose callback runs came from a slot
  of its own (`CallbackSlot`). A refused search keeps its entry without a slot, which is
  why the hypothesis is there.

  `AnswersAccounted` holds under every fault, with the invariant that answers belong to
  requests issued over this handle; `WireSplit` says what reading some messages off the
  socket leaves there. `OnReadWorkShrinks` and `WorkLeftIsNatural` give a measure,
  `WorkLeft`, that every step of a running `connection_on_read` makes smaller: two for
  each queued request, three for each request that callbacks may still issue, one for a
  callback that runs. With fairness this is `OnReadReturns`. `BufferedStaysUntilHandled`:
  unless `ldap_result` fails, a queued request whose answer libldap holds stays queued
  until its handler is called, which with the measure is `BufferedIsHandled`.
* **ConnectionStateMachine**: the invariant relates the state to what must have
  happened. `Phases`: which requests can be outstanding, and held by libldap, in which
  state; answers to StartTLS and to an interactive bind are never held, because nothing
  is polled behind them. `BindProgress`: states behind the bind are entered when it was
  answered; an answer to any search, taken or held, implies that. `Handlers`: nothing is
  queued before the handlers are installed. `DirectoryKnown`: the type is the server's
  or none, and some answer came before the schema is requested. `AttemptsReset`: at most
  one attempt is ever counted. `UnboundIsIdle`: the library itself unbinds only handles
  on which nothing is outstanding. `AnswerEffect` says once what taking an answer does.
  From the invariant follow types, `RunIsBound`, `OutstandingAreWatched`,
  `OpenUnlessError`, and `Spec => ImplementsPhases`: an answer to the root search maps to
  `Detect` or, late and repeated, to a stutter, because nothing takes a type back that
  an entry told.

  From the same invariant: `MovesForward` (an answer to StartTLS or to an interactive bind
  is outstanding only in the state that waits for it, and the answer to a simple bind
  sets no state but ERROR); `LimitNeverReached`, the reason for `reconnect_limit`, for
  every limit; and `CorruptionSources`, which names the five situations from which
  something released is used again (`UsesReleased`): the events of an earlier close,
  handlers that cannot be installed, a reconfiguration that fails, a handle that the
  application unbound with requests queued, a timer that outlived `ld_free`.
  `NoUseAfterRelease` itself is proved where nothing is missing but the root entry and
  the schema: ERROR is then only reached before the handlers are installed, so that no
  close leaves an event behind (`NoLeftover`). `WaitHasAnEnd` holds under every
  fault; it needs that BIND_IN_PROGRESS is a state of interactive binds only.
  `SchemaOnItsWay`, the safety half of `SchemaFollowsRun`, holds while the transport,
  the root entry and the schema's definitions do, with `LinkHolds`: the transport is up
  in every state behind the bind.
* **DirectoryObjects**: the invariant adds to the types that what was named in RUN lies
  where the server's own type puts it (`NamedAtHome`) and that attributes in flight fit
  the server. Types, `FoundAgain` and `KnownAttributes` follow.
* **SchemaTables**: the invariant is types, `LatestIsFound` and that every
  definition taken in has an OID and a list of names; a table entry is the
  latest position because `Insert` writes the length of the sequence. `NothingForgotten`
  follows from the types alone: what is written is larger than all that was there.

* **SchemaEntryPath**: with a single handle `OwnSchemaEntry` holds, through reconnects and
  late answers; the violation needs a second one.

Only model-checked: liveness (`OnReadReturns`, `BufferedIsHandled`, `InitSettles`,
`ErrorIsRetried`, `SchemaFollowsRun`), which needs fairness and `ENABLED`. The safety
halves of the first two and of the last are proved, as said above; `MovesForward` and
`WaitHasAnEnd` are the corresponding part of `InitSettles`. Every invariant and every
action property of a passing run is stated by a theorem.

## Plan

Done, in this order: queue; dispatch; state machine; phases and the refinement; directory
objects; schema tables and the shared path; proofs of the table of searches; proofs about
answers, waiting, releasing and the schema on its way.

Left, should the project grow: the rounds of an interactive bind with their failures;
requests of the application outstanding across ERROR and reconnect, composed with the
state machine through `RequestPool`.

## Not modelled

* `ld_load_config` and `ld_create_config` copy settings from a file or from arguments;
  they keep no state and follow no protocol.
* `ld_entry_*` wrap one GLib hash table that one caller owns.
* `ldap_syntaxes.c` and `ldap_parsers.c` are character-level recognisers generated from
  Ragel grammars, without state.
* Logging and the talloc helpers; where a macro jumps, the jump is in the action.
* `sasl_interact_gssapi` answers the prompts of a library; `ld_exec` and `ld_exec_once`
  run the event loop, whose calls are the actions.
* Lack of memory, except in `search_on_read`.
