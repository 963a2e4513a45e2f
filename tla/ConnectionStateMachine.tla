------------------------ MODULE ConnectionStateMachine ------------------------
(***************************************************************************)
(* The life of one connection: csm_next_state, which a verto timer calls,  *)
(* connection_configure and connection_close around it, the functions that *)
(* start TLS, bind, detect the directory and load the schema, and the      *)
(* *_on_read handlers through which answers move the state machine.        *)
(*                                                                         *)
(* Timer callbacks and read callbacks interleave in any order. The request *)
(* arrays are abstracted to the number of outstanding requests of each     *)
(* kind and, of these, the number whose answers libldap has read but not   *)
(* given out yet (RequestDispatch models them one by one). Memory never    *)
(* runs out; of the options connection_configure sets, the TLS context may *)
(* be refused, for it reads files that can be gone when the connection is  *)
(* set up again.                                                           *)
(***************************************************************************)
EXTENDS Integers

CONSTANTS
    Configs,                \* configurations: see ConfigType
    Driver,                 \* "default": ld_install_default_handlers;
                            \* "application": a persistent timer of its own
    MAX_RECONNECT_ATTEMPTS,
    MaxSame,                \* bound: outstanding requests of one kind
    MaxReconnects,          \* bound: reconnects since the last RUN
    Faults                  \* what may go wrong: a subset of AllFaults

AllFaults ==
    {"link_down",           \* the transport fails
     "bind_refused",        \* the server refuses the bind
     "tls_fails",           \* ldap_install_tls fails
     "tls_context",         \* LDAP_OPT_X_TLS_NEWCTX is refused on a reconnect
     "no_descriptor",       \* LDAP_OPT_DESC gives no descriptor
     "option_fails",        \* get_ldap_option jumps out of a read handler
     "stale_code",          \* LDAP_OPT_RESULT_CODE tells of another operation
     "no_entry",            \* the search for the root entry returns no entry
     "schema_rejected",     \* no definition of the schema is taken in
     "application_error",   \* the application unbinds and sets ERROR
     "loop_goes_on"}        \* the event loop runs on after ld_free

ConfigType == [bind_type : {"simple", "interactive"},
               use_start_tls : BOOLEAN,
               directory : {"OPENLDAP", "ACTIVE_DIRECTORY", "UNKNOWN"}]

ASSUME ConfigsAssumption == Configs \subseteq ConfigType
ASSUME DriverAssumption == Driver \in {"default", "application"}
ASSUME AttemptsAssumption == MAX_RECONNECT_ATTEMPTS \in Nat \ {0, 1}
ASSUME BoundsAssumption == MaxSame \in Nat \ {0} /\ MaxReconnects \in Nat
ASSUME FaultsAssumption == Faults \subseteq AllFaults

VARIABLES
    config,                 \* connection->config and the server it names
    state,                  \* state_machine->state
    ldap,                   \* the LDAP handle: "open" or "unbound"
    link,                   \* its transport: "connecting", "up" or "down"
    handlers_installed,
    read_event,             \* "null", "live" or "deleted" (never reset)
    queue,                  \* outstanding requests of each kind
    stored,                 \* of these, the ones whose answer libldap holds
    directory_type,
    schema,                 \* which tables of connection->schema hold data
    schema_entry_path,      \* static of ad_schema.c: TRUE once it is set
    n_reconnect_attempts,
    timer,                  \* "armed" or "deleted"
    ended,                  \* "no", "freed", or "corrupt" (undefined behaviour)
    \* history
    bind_answer,            \* the server's answer to the bind on this handle
    dropped,                \* a read handler took a request and told nobody
    reconnects              \* reconnects since the last RUN

events == <<handlers_installed, read_event>>
directory == <<directory_type, schema, schema_entry_path>>
history == <<bind_answer, dropped, reconnects>>
vars == <<config, state, ldap, link, events, queue, stored, directory,
          n_reconnect_attempts, timer, ended, history>>

States == {"INIT", "TLS_NEGOTIATION", "TRANSPORT_READY", "BIND_IN_PROGRESS",
           "BOUND", "DETECT_DIRECTORY", "REQUEST_SCHEMA", "CHECK_SCHEMA",
           "RUN", "ERROR"}

Kinds == {"tls", "bind", "directory", "subschema", "attributes", "classes"}

NoRequests == [k \in Kinds |-> 0]

\* Tables of definitions; none of them holds any.
ldap_schema_new == {}

\* ld_install_default_handlers or ld_install_handler adds a persistent timer.
ld_install_handler == timer = "armed"

\* The connection after the first connection_configure (ld_init).
Init ==
    /\ config \in Configs
    /\ state = "INIT"
    /\ ldap = "open"
    /\ link = "connecting"
    /\ handlers_installed = FALSE
    /\ read_event = "null"
    /\ queue = NoRequests
    /\ stored = NoRequests
    /\ directory_type = "UNINITIALIZED"
    /\ schema = ldap_schema_new
    /\ schema_entry_path = FALSE
    /\ n_reconnect_attempts = 0
    /\ ld_install_handler
    /\ ended = "no"
    /\ bind_answer = "none"
    /\ dropped = FALSE
    /\ reconnects = 0

-----------------------------------------------------------------------------
(* Calls made by the state machine. Each sets state, ldap, the events and  *)
(* the queue.                                                              *)

csm_set_state(s) == state' = s
csm_is_in_state(s) == state = s
csm_init == csm_set_state("INIT")

Push(kind) == queue' = [queue EXCEPT ![kind] = @ + 1]

\* ldap_unbind_ext_s on a handle that was unbound before is undefined.
Unbind ==
    /\ ldap' = "unbound"
    /\ ended' = IF ldap = "open" THEN ended ELSE "corrupt"

\* Mutation: the state machine retries on the handle that is gone.
FailUnbound_Retry ==
    /\ Unbind
    /\ csm_set_state("TRANSPORT_READY")
    /\ UNCHANGED <<events, queue>>

\* The call fails after ldap_unbind_ext_s.
FailUnbound ==
    /\ Unbind
    /\ csm_set_state("ERROR")
    /\ UNCHANGED <<events, queue>>

\* connection_install_handlers unbinds on failure, and so does its caller.
FailNoDescriptor ==
    /\ "no_descriptor" \in Faults
    /\ ~handlers_installed
    /\ ldap' = "unbound"
    /\ ended' = "corrupt"
    /\ csm_set_state("ERROR")
    /\ UNCHANGED <<events, queue>>

connection_install_handlers ==
    /\ handlers_installed' = TRUE
    /\ read_event' = IF handlers_installed THEN read_event ELSE "live"

\* A request went out, so the handlers are installed (once) and its slot is
\* queued.
Sent(kind, next_state) ==
    \/ /\ connection_install_handlers
       /\ Push(kind)
       /\ csm_set_state(next_state)
       /\ UNCHANGED <<ldap, ended>>
    \/ FailNoDescriptor

connection_start_tls ==
    IF link = "up" THEN Sent("tls", "TLS_NEGOTIATION") ELSE FailUnbound

\* LDAP_X_CONNECTING: try again on the next tick.
RepeatLastOperation ==
    /\ csm_set_state("TRANSPORT_READY")
    /\ UNCHANGED <<ldap, ended, events, queue>>

connection_sasl_bind ==
    \/ link = "connecting" /\ RepeatLastOperation
    \/ link = "up" /\ Sent("bind", "DETECT_DIRECTORY")
    \/ link = "down" /\ FailUnbound

\* Mutation: like a simple bind, an interactive one that was sent counts as done.
connection_ldap_bind_Early ==
    \/ link = "connecting" /\ RepeatLastOperation
    \/ link = "up" /\ Sent("bind", "DETECT_DIRECTORY")
    \/ link = "down" /\ FailUnbound

\* The first call of an interactive bind never completes it, so it is in
\* progress.
connection_ldap_bind ==
    \/ link = "connecting" /\ RepeatLastOperation
    \/ link = "up" /\ Sent("bind", "BIND_IN_PROGRESS")
    \/ link = "down" /\ FailUnbound

\* A search goes out or fails; failing does not unbind.
Search(kinds, next_state) ==
    /\ \A k \in kinds : queue[k] < MaxSame
    /\ IF link = "up"
       THEN /\ queue' = [k \in Kinds |-> IF k \in kinds THEN queue[k] + 1
                                                        ELSE queue[k]]
            /\ csm_set_state(next_state)
       ELSE /\ csm_set_state("ERROR")
            /\ UNCHANGED queue
    /\ UNCHANGED <<ldap, ended, events>>

directory_get_type == Search({"directory"}, "DETECT_DIRECTORY")

schema_load_openldap == Search({"attributes", "classes"}, "CHECK_SCHEMA")

\* Mutation: the object classes are forgotten.
schema_load_active_directory_Half ==
    IF schema_entry_path
    THEN Search({"attributes"}, "CHECK_SCHEMA")
    ELSE Search({"subschema"}, "REQUEST_SCHEMA")

\* Without the path of the schema entry, ask for it, on every tick.
schema_load_active_directory ==
    IF schema_entry_path
    THEN Search({"attributes", "classes"}, "CHECK_SCHEMA")
    ELSE Search({"subschema"}, "REQUEST_SCHEMA")

Move(next_state) ==
    /\ csm_set_state(next_state)
    /\ UNCHANGED <<ldap, ended, events, queue>>

ldap_schema_load ==
    \/ directory_type = "OPENLDAP" /\ schema_load_openldap
    \/ directory_type = "ACTIVE_DIRECTORY" /\ schema_load_active_directory
    \/ /\ directory_type \notin {"OPENLDAP", "ACTIVE_DIRECTORY"}
       /\ Move("CHECK_SCHEMA")

ldap_schema_ready ==
    directory_type = "OPENLDAP" => schema = {"attributes", "classes"}

-----------------------------------------------------------------------------
(* csm_next_state, one action per state it can be called in.               *)

\* What no state but RUN and ERROR touches.
Rest == <<config, link, stored, directory, n_reconnect_attempts, history>>

InState(s) == ended = "no" /\ timer = "armed" /\ csm_is_in_state(s)

\* connection_update deletes its timer when it leaves the machine in RUN or
\* in ERROR; a timer of the application's own stays.
connection_update ==
    timer' = IF Driver = "default" /\ state' \in {"RUN", "ERROR"}
             THEN "deleted" ELSE timer

TickInit ==
    /\ InState("INIT")
    /\ IF config.use_start_tls
       THEN connection_start_tls
       ELSE Move("TRANSPORT_READY")
    /\ connection_update
    /\ UNCHANGED Rest

TickTransportReady ==
    /\ InState("TRANSPORT_READY")
    /\ IF config.bind_type = "interactive"
       THEN connection_ldap_bind
       ELSE connection_sasl_bind
    /\ connection_update
    /\ UNCHANGED Rest

TickBound ==
    /\ InState("BOUND")
    /\ Move("DETECT_DIRECTORY")
    /\ connection_update
    /\ UNCHANGED Rest

TickDetectDirectory ==
    /\ InState("DETECT_DIRECTORY")
    /\ IF directory_type = "UNINITIALIZED"
       THEN directory_get_type
       ELSE Move("REQUEST_SCHEMA")
    /\ connection_update
    /\ UNCHANGED Rest

TickRequestSchema ==
    /\ InState("REQUEST_SCHEMA")
    /\ ldap_schema_load
    /\ connection_update
    /\ UNCHANGED Rest

TickCheckSchema ==
    /\ InState("CHECK_SCHEMA")
    /\ ldap_schema_ready
    /\ Move("RUN")
    /\ connection_update
    /\ UNCHANGED Rest

TickRun ==
    /\ InState("RUN")
    /\ n_reconnect_attempts' = 0
    /\ reconnects' = 0
    /\ connection_update
    /\ UNCHANGED <<config, state, ldap, link, events, queue, stored, directory,
                   ended, bind_answer, dropped>>

\* connection_close deletes the events its pointers name, and unbinds the
\* handle unless the machine is in ERROR (where a handle that is still open is
\* lost). A second delete is undefined.
connection_close ==
    read_event' = IF read_event = "null" THEN "null" ELSE "deleted"

CloseEnds(outcome) ==
    ended' = IF read_event = "deleted" \/ (state # "ERROR" /\ ldap = "unbound")
             THEN "corrupt" ELSE outcome

\* Mutations: the events count as installed on the new handle, or the number
\* of attempts goes down.
connection_configure_KeepsHandlers ==
    /\ ldap' = "open"
    /\ link' = "connecting"
    /\ UNCHANGED handlers_installed
    /\ queue' = NoRequests
    /\ stored' = NoRequests
    /\ directory_type' = "UNINITIALIZED"
    /\ schema' = ldap_schema_new
    /\ n_reconnect_attempts' = 0 + 1
    /\ bind_answer' = "none"
    /\ dropped' = FALSE

connection_configure_CountsDown ==
    /\ ldap' = "open"
    /\ link' = "connecting"
    /\ handlers_installed' = FALSE
    /\ queue' = NoRequests
    /\ stored' = NoRequests
    /\ directory_type' = "UNINITIALIZED"
    /\ schema' = ldap_schema_new
    /\ n_reconnect_attempts' = 0 - 1
    /\ bind_answer' = "none"
    /\ dropped' = FALSE

\* connection_configure starts over: a new handle and state machine, empty
\* queue and schema, and the number of attempts back at 0.
connection_configure ==
    /\ ldap' = "open"
    /\ link' = "connecting"
    /\ handlers_installed' = FALSE
    /\ queue' = NoRequests
    /\ stored' = NoRequests
    /\ directory_type' = "UNINITIALIZED"
    /\ schema' = ldap_schema_new
    /\ n_reconnect_attempts' = 0 + 1    \* ++ in csm_next_state
    /\ bind_answer' = "none"
    /\ dropped' = FALSE

\* Mutation: the comparison is the wrong way round.
MayReconnect_Swapped == n_reconnect_attempts > MAX_RECONNECT_ATTEMPTS

MayReconnect == n_reconnect_attempts < MAX_RECONNECT_ATTEMPTS

\* It fails at the TLS context: the new state machine is freed while the
\* connection points at it, and what comes after in the code is left out. The
\* caller goes on, so connection_update or the next tick reads freed memory.
connection_configure_failed ==
    /\ "tls_context" \in Faults
    /\ config.use_start_tls
    /\ ldap' = "open"
    /\ link' = "connecting"
    /\ handlers_installed' = FALSE
    /\ n_reconnect_attempts' = n_reconnect_attempts + 1
    /\ bind_answer' = "none"
    /\ dropped' = FALSE
    /\ ended' = "corrupt"
    /\ UNCHANGED <<queue, stored, directory_type, schema>>

TickError ==
    /\ InState("ERROR")
    /\ reconnects < MaxReconnects
    /\ connection_close
    /\ IF MayReconnect
       THEN /\ \/ connection_configure /\ CloseEnds("no")
               \/ connection_configure_failed
            /\ csm_init
            /\ reconnects' = reconnects + 1
       ELSE /\ CloseEnds("no")
            /\ UNCHANGED <<state, ldap, link, handlers_installed, queue, stored,
                           directory_type, schema, n_reconnect_attempts,
                           bind_answer, dropped, reconnects>>
    /\ connection_update
    /\ UNCHANGED <<config, schema_entry_path>>

Tick ==
    \/ TickInit \/ TickTransportReady \/ TickBound \/ TickDetectDirectory
    \/ TickRequestSchema \/ TickCheckSchema \/ TickRun \/ TickError

-----------------------------------------------------------------------------
(* Read callbacks. connection_on_read runs when read_event is live.        *)

Watching == ended = "no" /\ read_event = "live"

\* The order in which requests are sent. connection_on_read keeps it: those
\* that stay pending go back to the queue as they came.
Turn == [tls |-> 1, bind |-> 2, directory |-> 3, subschema |-> 4,
         attributes |-> 5, classes |-> 6]

Unanswered(kind) == queue[kind] > stored[kind]

\* ldap_result reads an answer of this kind off the wire. A server works on
\* nothing else while a bind is unanswered (RFC 4511, 4.2.1).
Arrives(kind) ==
    /\ Watching
    /\ ldap = "open"
    /\ link = "up"
    /\ Unanswered(kind)
    /\ kind # "bind" => ~Unanswered("bind")

\* A request behind one of this kind is polled in the same connection_on_read.
\* RUN may have the application's own requests behind any of the library's.
PolledBehind(kind) ==
    \/ queue[kind] > stored[kind] + 1
    \/ \E k \in Kinds : Turn[k] > Turn[kind] /\ Unanswered(k)
    \/ state \in {"RUN", "ERROR"}

ServerDecides ==
    \/ bind_answer' = "accepted"
    \/ "bind_refused" \in Faults /\ bind_answer' = "refused"

\* The answer arrives after its request was polled, while a later one is:
\* libldap keeps it until connection_on_read runs again.
StoreAnswer(kind) ==
    /\ Arrives(kind)
    /\ PolledBehind(kind)
    /\ stored' = [stored EXCEPT ![kind] = @ + 1]
    /\ IF kind = "bind" THEN ServerDecides ELSE UNCHANGED bind_answer
    /\ UNCHANGED <<config, state, ldap, link, events, queue, directory,
                   n_reconnect_attempts, timer, ended, dropped, reconnects>>

\* connection_on_read takes a request whose answer arrives while it is polled,
\* or one whose answer libldap held.
Answer(kind) ==
    /\ \/ Arrives(kind) /\ UNCHANGED stored
       \/ /\ Watching
          /\ ldap = "open"
          /\ stored[kind] > 0
          /\ stored' = [stored EXCEPT ![kind] = @ - 1]
    /\ queue' = [queue EXCEPT ![kind] = @ - 1]

\* ldap_install_tls succeeds, or fails and sets ERROR unless its result code
\* cannot be read.
connection_start_tls_on_read ==
    /\ Answer("tls")
    /\ \/ csm_set_state("TRANSPORT_READY") /\ UNCHANGED dropped
       \/ /\ "tls_fails" \in Faults
          /\ \/ csm_set_state("ERROR") /\ UNCHANGED dropped
             \/ /\ "option_fails" \in Faults
                /\ UNCHANGED state
                /\ dropped' = TRUE
    /\ UNCHANGED <<config, ldap, link, events, directory, n_reconnect_attempts,
                   timer, ended, bind_answer, reconnects>>

\* Nobody parses the answer to a simple bind. LDAP_OPT_RESULT_CODE decides,
\* which libldap need not have set from that answer: a refusal may go
\* unnoticed, and an earlier failure make a bind that was accepted an ERROR.
SimpleBindRead ==
    /\ \/ UNCHANGED state
       \/ /\ bind_answer' = "refused" \/ "stale_code" \in Faults
          /\ csm_set_state("ERROR")
    /\ UNCHANGED dropped

\* ldap_sasl_interactive_bind parses it, over rounds that each put a bind
\* request in the place of the one answered. A failure sets ERROR unless its
\* result code cannot be read, or reads as LDAP_SUCCESS.
InteractiveBindRead ==
    \/ /\ bind_answer' = "accepted"
       /\ csm_set_state("BOUND")
       /\ UNCHANGED dropped
    \/ /\ bind_answer' = "refused"
       /\ \/ csm_set_state("ERROR") /\ UNCHANGED dropped
          \/ /\ {"option_fails", "stale_code"} \cap Faults # {}
             /\ UNCHANGED state
             /\ dropped' = TRUE

\* Mutation: any bind that was answered is BOUND.
connection_bind_on_read_Back ==
    /\ Answer("bind")
    /\ IF stored["bind"] > 0 THEN UNCHANGED bind_answer ELSE ServerDecides
    /\ csm_set_state("BOUND")
    /\ UNCHANGED <<config, ldap, link, events, directory, n_reconnect_attempts,
                   timer, ended, dropped, reconnects>>

connection_bind_on_read ==
    /\ Answer("bind")
    /\ IF stored["bind"] > 0 THEN UNCHANGED bind_answer ELSE ServerDecides
    /\ IF config.bind_type = "interactive" THEN InteractiveBindRead
                                           ELSE SimpleBindRead
    /\ UNCHANGED <<config, ldap, link, events, directory, n_reconnect_attempts,
                   timer, ended, reconnects>>

\* Mutation: a directory that is not recognised stays uninitialized.
directory_parse_result_NoUnknown ==
    /\ Answer("directory")
    /\ directory_type' = IF config.directory # "UNKNOWN" THEN config.directory
                                                        ELSE directory_type
    /\ UNCHANGED <<config, state, ldap, link, events, schema,
                   schema_entry_path, n_reconnect_attempts, timer, ended,
                   history>>

\* Mutation: an answer without an entry takes back what an earlier one told.
directory_parse_result_TakesBack ==
    /\ Answer("directory")
    /\ \/ directory_type' = config.directory
       \/ "no_entry" \in Faults /\ directory_type' = "UNKNOWN"
    /\ UNCHANGED <<config, state, ldap, link, events, schema,
                   schema_entry_path, n_reconnect_attempts, timer, ended,
                   history>>

\* Nothing was recognised.
Unrecognised ==
    directory_type' = IF directory_type = "UNINITIALIZED" THEN "UNKNOWN"
                                                          ELSE directory_type

\* The attributes of the root entry tell the type. The result code is not
\* looked at: an answer without an entry is one in which nothing is
\* recognised, and one that begins with a referral changes nothing.
directory_parse_result ==
    /\ Answer("directory")
    /\ \/ config.directory # "UNKNOWN" /\ directory_type' = config.directory
       \/ config.directory = "UNKNOWN" /\ Unrecognised
       \/ "no_entry" \in Faults /\ (Unrecognised \/ UNCHANGED directory_type)
    /\ UNCHANGED <<config, state, ldap, link, events, schema,
                   schema_entry_path, n_reconnect_attempts, timer, ended,
                   history>>

subschema_subentry_callback ==
    /\ Answer("subschema")
    /\ schema_entry_path' = TRUE
    /\ UNCHANGED <<config, state, ldap, link, events, directory_type, schema,
                   n_reconnect_attempts, timer, ended, history>>

\* The definitions in the answer go to the table up to the first one that
\* cannot be parsed or appended; the result is only logged. OpenLDAP's are
\* parsed by libldap, Active Directory's by ldap_parsers.c.
openldap_schema_callback(table) ==
    \/ schema' = schema \cup {table}
    \/ "schema_rejected" \in Faults /\ UNCHANGED schema

ad_schema_callback(table) ==
    \/ schema' = schema \cup {table}
    \/ "schema_rejected" \in Faults /\ UNCHANGED schema

\* The loader that sent the search chose the callback by directory_type,
\* which does not change once it is one of these two.
schema_search_callback(table) ==
    /\ Answer(table)
    /\ \/ directory_type = "OPENLDAP" /\ openldap_schema_callback(table)
       \/ directory_type = "ACTIVE_DIRECTORY" /\ ad_schema_callback(table)
    /\ UNCHANGED <<config, state, ldap, link, events, directory_type,
                   schema_entry_path, n_reconnect_attempts, timer, ended,
                   history>>

\* Mutation: a state that waits for an answer is not told.
connection_on_read_error_Silent ==
    /\ Watching
    /\ ldap = "open"
    /\ link = "down"
    /\ queue # stored
    /\ queue' = stored
    /\ UNCHANGED <<state, ldap, timer, ended, events, Rest>>

\* The transport failed: ldap_result fails for every queued request whose
\* answer it does not hold. Only the two states that wait for an answer turn
\* to ERROR.
connection_on_read_error ==
    /\ Watching
    /\ ldap = "open"
    /\ link = "down"
    /\ queue # stored
    /\ queue' = stored
    /\ IF csm_is_in_state("TLS_NEGOTIATION") \/ csm_is_in_state("BIND_IN_PROGRESS")
       THEN csm_set_state("ERROR")
       ELSE UNCHANGED state
    /\ UNCHANGED <<ldap, timer, ended, events, Rest>>

\* The result code of the failure cannot be read: get_ldap_option jumps out of
\* the loop, the request it was about is dropped and nobody is told.
connection_on_read_no_option ==
    /\ "option_fails" \in Faults
    /\ Watching
    /\ ldap = "open"
    /\ link = "down"
    /\ \E kind \in Kinds : /\ Unanswered(kind)
                          /\ queue' = [queue EXCEPT ![kind] = @ - 1]
    /\ dropped' = TRUE
    /\ UNCHANGED <<config, state, ldap, link, events, stored, directory,
                   n_reconnect_attempts, timer, ended, bind_answer, reconnects>>

\* The event of a handle that was unbound fires while requests are queued:
\* ldap_result is called on memory that is freed.
connection_on_read_unbound ==
    /\ Watching
    /\ ldap = "unbound"
    /\ queue # NoRequests
    /\ ended' = "corrupt"
    /\ UNCHANGED <<state, ldap, timer, events, queue, Rest>>

OnRead ==
    \/ connection_start_tls_on_read
    \/ connection_bind_on_read
    \/ directory_parse_result
    \/ subschema_subentry_callback
    \/ \E table \in {"attributes", "classes"} : schema_search_callback(table)
    \/ \E kind \in Kinds : StoreAnswer(kind)
    \/ connection_on_read_error
    \/ connection_on_read_no_option
    \/ connection_on_read_unbound

-----------------------------------------------------------------------------
(* The transport and the application.                                      *)

LinkUp ==
    /\ ended = "no" /\ link = "connecting"
    /\ link' = "up"
    /\ UNCHANGED <<config, state, ldap, events, queue, stored, directory,
                   n_reconnect_attempts, timer, ended, history>>

LinkDown ==
    /\ "link_down" \in Faults
    /\ ended = "no" /\ link \in {"connecting", "up"}
    /\ link' = "down"
    /\ UNCHANGED <<config, state, ldap, events, queue, stored, directory,
                   n_reconnect_attempts, timer, ended, history>>

\* The application gives the connection up and has it reconnected.
ApplicationError ==
    /\ "application_error" \in Faults
    /\ ended = "no" /\ state = "RUN"
    /\ ldap' = "unbound"
    /\ csm_set_state("ERROR")
    /\ UNCHANGED <<timer, ended, events, queue, Rest>>

\* connection_close leaves the event loop its base and the timer in ERROR;
\* elsewhere it gives up one reference to the base, which is the default one
\* of the process, and the timer goes with the last.
ld_free ==
    /\ ended = "no"
    /\ connection_close
    /\ CloseEnds("freed")
    /\ ldap' = IF state # "ERROR" THEN "unbound" ELSE ldap
    /\ timer' \in IF state = "ERROR" THEN {timer} ELSE {timer, "deleted"}
    /\ UNCHANGED <<config, state, link, handlers_installed, queue, stored,
                   directory, n_reconnect_attempts, history>>

\* A timer that outlived the connection fires: connection_update reads the
\* connection it was given.
TickFreed ==
    /\ "loop_goes_on" \in Faults
    /\ ended = "freed" /\ timer = "armed"
    /\ ended' = "corrupt"
    /\ UNCHANGED <<state, ldap, timer, events, queue, Rest>>

Next ==
    \/ Tick
    \/ OnRead
    \/ LinkUp
    \/ LinkDown
    \/ ApplicationError
    \/ ld_free
    \/ TickFreed

Spec == Init /\ [][Next]_vars

\* The verto loop keeps calling the timer, and the read callback while an
\* unread answer makes the socket readable; the transport connects or fails,
\* and the server answers. What libldap holds makes no socket readable:
\* nothing promises that it is ever given out.
ReadsSocket == OnRead /\ (UNCHANGED stored \/ UNCHANGED queue)

Fairness == WF_vars(Tick) /\ WF_vars(ReadsSocket) /\ WF_vars(LinkUp)

FairSpec == Spec /\ Fairness
-----------------------------------------------------------------------------
(* Properties.                                                             *)

\* Types: in particular the counters of outstanding requests and of attempts
\* to reconnect never become negative.
TypeOK ==
    /\ config \in Configs
    /\ state \in States
    /\ ldap \in {"open", "unbound"}
    /\ link \in {"connecting", "up", "down"}
    /\ handlers_installed \in BOOLEAN
    /\ read_event \in {"null", "live", "deleted"}
    /\ queue \in [Kinds -> Nat]
    /\ stored \in [Kinds -> Nat]
    /\ directory_type \in {"UNINITIALIZED", "UNKNOWN", "OPENLDAP",
                           "ACTIVE_DIRECTORY"}
    /\ schema \in SUBSET {"attributes", "classes"}
    /\ schema_entry_path \in BOOLEAN
    /\ n_reconnect_attempts \in Nat
    /\ timer \in {"armed", "deleted"}
    /\ ended \in {"no", "freed", "corrupt"}
    /\ bind_answer \in {"none", "accepted", "refused"}
    /\ dropped \in BOOLEAN
    /\ reconnects \in Nat

\* The schema is requested, and RUN entered, only after the server answered
\* the bind, although a simple bind moves the machine on before its answer,
\* and after it accepted it when the bind is interactive. That a simple bind
\* was accepted does not follow: see SimpleBindRead.
RunIsBound ==
    (ended = "no" /\ state \in {"REQUEST_SCHEMA", "CHECK_SCHEMA", "RUN"}) =>
        /\ bind_answer # "none"
        /\ config.bind_type = "interactive" => bind_answer = "accepted"

\* A request waits only on a connection whose read event is live: after a
\* reconnect nothing is sent before the handlers are installed again.
OutstandingAreWatched ==
    (ended = "no" /\ queue # NoRequests) =>
        /\ handlers_installed
        /\ read_event = "live"

\* csm_next_state never works on a handle that was unbound: every function
\* that unbinds leaves the machine in ERROR, and ERROR is left with a new
\* handle.
OpenUnlessError == (ended = "no" /\ state # "ERROR") => ldap = "open"

\* The order in which a connection comes up, with ERROR behind every state.
Rank(s) ==
    CASE s = "INIT"             -> 0
      [] s = "TLS_NEGOTIATION"  -> 1
      [] s = "TRANSPORT_READY"  -> 2
      [] s = "BIND_IN_PROGRESS" -> 3
      [] s = "BOUND"            -> 4
      [] s = "DETECT_DIRECTORY" -> 5
      [] s = "REQUEST_SCHEMA"   -> 6
      [] s = "CHECK_SCHEMA"     -> 7
      [] s = "RUN"              -> 8
      [] s = "ERROR"            -> 9

\* No callback takes the machine back: read handlers set the state without a
\* look at it, and csm_next_state moves on from DETECT_DIRECTORY before the
\* bind is answered and out of REQUEST_SCHEMA with answers on their way, yet
\* a late answer finds no state it could undo. Only ERROR is left, for INIT.
MovesForward ==
    [][Rank(state) <= Rank(state') \/ (state = "ERROR" /\ state' = "INIT")]_vars

\* csm_next_state does nothing in TLS_NEGOTIATION and in BIND_IN_PROGRESS, so
\* that only an answer, or its failure, leads on: there is always one to come,
\* and an event that will read it, also when the transport breaks meanwhile.
\* Only a read handler that takes the request without setting a state leaves
\* the machine waiting for nothing: one that a jump out of get_ldap_option ends,
\* in connection_on_read or in the handlers of TLS and bind, or a bind that
\* failed with a result code of LDAP_SUCCESS.
WaitHasAnEnd ==
    (ended = "no" /\ ~dropped) =>
        /\ state = "TLS_NEGOTIATION" => queue["tls"] > 0 /\ read_event = "live"
        /\ state = "BIND_IN_PROGRESS" => queue["bind"] > 0 /\ read_event = "live"

\* On a transport that holds and with definitions that can be read, a table of
\* the schema is filled or its answer is on its way from the moment the schema
\* was requested, in whatever state the answer finds the machine.
SchemaOnItsWay ==
    (/\ ended = "no"
     /\ state \in {"CHECK_SCHEMA", "RUN"}
     /\ directory_type \in {"OPENLDAP", "ACTIVE_DIRECTORY"}) =>
        \A table \in {"attributes", "classes"} : table \in schema \/ queue[table] > 0

\* The machine waits for a part of OpenLDAP's schema that libldap holds.
SchemaHeld ==
    /\ state = "CHECK_SCHEMA"
    /\ directory_type = "OPENLDAP"
    /\ \E table \in {"attributes", "classes"} : table \notin schema /\ stored[table] > 0

\* From INIT the machine gets to RUN or ERROR, on a connection that connects,
\* does not break and whose server answers, unless it stays in CHECK_SCHEMA for
\* an answer that libldap holds and no readable socket makes it give out.
InitSettles ==
    (state = "INIT") ~>
        (state \in {"RUN", "ERROR"} \/ ended # "no" \/ []SchemaHeld)

\* An ERROR raised by a read callback is followed by a reconnect while the
\* timer is armed.
ErrorIsRetried ==
    (state = "ERROR" /\ timer = "armed" /\ reconnects < MaxReconnects) ~>
        (state = "INIT" \/ ended # "no")

\* The attempts to reconnect that never got to RUN are limited.
ReconnectsLimited == reconnects <= MAX_RECONNECT_ATTEMPTS

\* What the library released it does not use again: connection_close deletes
\* the events of the connection it closes, not the ones an earlier close
\* deleted, no handle is unbound twice or read after it was unbound, after a
\* reconnect the connection points at a state machine that exists, and no
\* timer is left with a connection that was freed.
NoUseAfterRelease == ended # "corrupt"

\* On a directory that has a schema, each table holds data some time after RUN
\* is entered, or libldap holds the answer that would fill it. Only OpenLDAP's
\* tables are waited for; on Active Directory the answers may come when the
\* machine is in RUN and its timer is gone.
SchemaFollowsRun ==
    (state = "RUN" /\ directory_type # "UNKNOWN") ~>
        (\/ ended # "no"
         \/ \A table \in {"attributes", "classes"} : table \in schema \/ stored[table] > 0)

\* To its users the connection is ConnectionPhases: in RUN the search for the
\* type of the directory was answered, and once the type of the server is found
\* it is forgotten only by a reconnect.
Abstract ==
    INSTANCE ConnectionPhases
        WITH server <- config.directory,
             running <- (state = "RUN" /\ ended = "no")

ImplementsPhases == Abstract!PhaseSpec
=============================================================================
