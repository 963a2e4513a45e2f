--------------------- MODULE ConnectionStateMachineProofs ---------------------
(***************************************************************************)
(* Proofs about ConnectionStateMachine, for every set of configurations,   *)
(* faults and bounds, and for both kinds of timer.                         *)
(***************************************************************************)
EXTENDS ConnectionStateMachine, TLAPS

\* Which requests can be outstanding in which state. The answer to StartTLS
\* and to an interactive bind only arrives in the state that waits for it, so
\* neither of them can move the machine out of another state. As nothing is
\* polled behind them, libldap never holds their answers.
Phases ==
    ended = "no" =>
    /\ \A k \in Kinds : stored[k] <= queue[k]
    /\ stored["tls"] = 0
    /\ stored["bind"] > 0 => config.bind_type # "interactive"
    /\ state \in {"INIT", "TRANSPORT_READY"} => \A k \in Kinds : queue[k] = 0
    /\ state \in {"TLS_NEGOTIATION", "BIND_IN_PROGRESS"} =>
           /\ directory_type = "UNINITIALIZED"
           /\ queue["directory"] = 0
    /\ state \in {"INIT", "TRANSPORT_READY"} => directory_type = "UNINITIALIZED"
    /\ state = "TLS_NEGOTIATION" => \A k \in Kinds \ {"tls"} : queue[k] = 0
    /\ queue["tls"] <= 1
    /\ queue["bind"] <= 1
    /\ queue["tls"] > 0 => state = "TLS_NEGOTIATION"
    /\ (queue["bind"] > 0 /\ config.bind_type = "interactive") =>
           state = "BIND_IN_PROGRESS"
    /\ state = "BIND_IN_PROGRESS" => \A k \in Kinds \ {"bind"} : queue[k] = 0

\* How far the bind is: a state behind it is entered when it was answered, and
\* accepted if it is interactive; DETECT_DIRECTORY, entered early by a simple
\* bind, learns nothing about the directory before that.
BindProgress ==
    ended = "no" =>
    /\ state \in {"BOUND", "REQUEST_SCHEMA", "CHECK_SCHEMA", "RUN"} =>
           bind_answer # "none"
    /\ (/\ state \in {"BOUND", "DETECT_DIRECTORY", "REQUEST_SCHEMA",
                      "CHECK_SCHEMA", "RUN"}
        /\ config.bind_type = "interactive") => bind_answer = "accepted"
    /\ state = "DETECT_DIRECTORY" =>
           \/ bind_answer # "none"
           \/ /\ directory_type = "UNINITIALIZED"
              /\ queue["bind"] > stored["bind"] \/ link = "down"
    /\ \A k \in Kinds : stored[k] > 0 => bind_answer # "none"
    /\ \A k \in Kinds \ {"tls", "bind"} : queue[k] > 0 =>
           \/ bind_answer # "none"
           \/ queue["bind"] > stored["bind"] \/ link = "down"

\* The read event is live exactly while handlers_installed says so, and every
\* state that has sent something has installed it.
Handlers ==
    ended = "no" =>
    /\ handlers_installed => read_event = "live"
    /\ state \notin {"INIT", "TRANSPORT_READY", "ERROR"} => handlers_installed
    /\ (\E k \in Kinds : queue[k] > 0) => handlers_installed

\* The search for the directory is answered before the schema is requested.
\* Answers tell the type of the server or, without an entry, none, and once
\* the type is known later ones do not change it.
DirectoryKnown ==
    ended = "no" =>
    /\ directory_type \in {"UNINITIALIZED", "UNKNOWN", config.directory}
    /\ (directory_type = "UNKNOWN" /\ "no_entry" \notin Faults) =>
           config.directory = "UNKNOWN"
    /\ state \in {"REQUEST_SCHEMA", "CHECK_SCHEMA", "RUN"} =>
           directory_type # "UNINITIALIZED"

\* connection_configure sets the number of attempts to 0 on the way, so it
\* never gets past 1.
AttemptsReset == ended = "no" => n_reconnect_attempts <= 1

\* The library itself unbinds a handle only when nothing is outstanding on it.
UnboundIsIdle ==
    (ended = "no" /\ ldap = "unbound" /\ "application_error" \notin Faults) =>
        \A k \in Kinds : queue[k] = 0

IInv ==
    /\ TypeOK
    /\ Phases
    /\ BindProgress
    /\ Handlers
    /\ OpenUnlessError
    /\ AttemptsReset
    /\ DirectoryKnown
    /\ UnboundIsIdle
-----------------------------------------------------------------------------
\* The connection connection_configure leaves behind satisfies the invariant.
LEMMA InitInv == Init => IInv
<1> USE DEF Init, States, Kinds, NoRequests, ldap_schema_new, ld_install_handler
<1> SUFFICES ASSUME Init PROVE IInv
  OBVIOUS
<1>1. TypeOK
  BY DEF TypeOK
<1>2. Phases
  BY DEF Phases
<1>3. BindProgress /\ Handlers /\ OpenUnlessError /\ AttemptsReset
  BY DEF BindProgress, Handlers, OpenUnlessError, AttemptsReset
<1>4. DirectoryKnown /\ UnboundIsIdle
  BY DEF DirectoryKnown, UnboundIsIdle
<1>5. QED
  BY <1>1, <1>2, <1>3, <1>4 DEF IInv

\* What a search of the state machine does: it adds requests of the kinds
\* named, or the machine is in ERROR.
LEMMA SearchEffect ==
  ASSUME TypeOK, NEW kinds \in SUBSET Kinds, NEW next_state,
         Search(kinds, next_state)
  PROVE  /\ queue' \in [Kinds -> Nat]
         /\ \A k \in Kinds : k \notin kinds => queue'[k] = queue[k]
         /\ \A k \in Kinds : queue'[k] >= queue[k]
         /\ state' = next_state \/ state' = "ERROR"
         /\ UNCHANGED <<ldap, ended, events>>
<1>1. CASE link = "up"
  <2>1. queue' = [k \in Kinds |-> IF k \in kinds THEN queue[k] + 1 ELSE queue[k]]
    BY <1>1 DEF Search
  <2>2. \A k \in Kinds : queue[k] \in Nat
    BY DEF TypeOK
  <2>3. QED
    BY <1>1, <2>1, <2>2 DEF Search, csm_set_state
<1>2. CASE link # "up"
  BY <1>2 DEF Search, csm_set_state, TypeOK
<1>3. QED
  BY <1>1, <1>2

\* What taking an answer does: it takes one request of its kind away, and a
\* search is answered after the bind.
LEMMA AnswerEffect ==
  ASSUME IInv, NEW kind \in Kinds, Answer(kind)
  PROVE  /\ queue' \in [Kinds -> Nat] /\ stored' \in [Kinds -> Nat]
         /\ ended = "no" /\ ldap = "open" /\ read_event = "live"
         /\ queue[kind] > 0
         /\ \A k \in Kinds : /\ queue'[k] <= queue[k]
                             /\ stored'[k] <= queue'[k]
                             /\ stored'[k] <= stored[k]
         /\ \A k \in Kinds \ {kind} : queue'[k] = queue[k] /\ stored'[k] = stored[k]
         /\ kind \notin {"tls", "bind"} => bind_answer # "none"
<1>1. queue' = [queue EXCEPT ![kind] = @ - 1]
  BY DEF Answer
<1>2. \/ stored' = stored /\ queue[kind] > stored[kind]
      \/ stored' = [stored EXCEPT ![kind] = @ - 1] /\ stored[kind] > 0
  BY DEF Answer, Arrives, Unanswered
<1>3. ended = "no" /\ ldap = "open" /\ read_event = "live"
  BY DEF Answer, Arrives, Watching
<1>4. /\ queue \in [Kinds -> Nat] /\ stored \in [Kinds -> Nat]
      /\ \A k \in Kinds : stored[k] <= queue[k]
  BY <1>3 DEF IInv, TypeOK, Phases
<1>5. kind \notin {"tls", "bind"} => bind_answer # "none"
  <2>1. CASE stored[kind] > 0
    BY <1>3, <2>1 DEF IInv, BindProgress
  <2>2. CASE Arrives(kind)
    <3>1. kind # "bind" => ~(queue["bind"] > stored["bind"]) /\ link = "up"
      BY <2>2 DEF Arrives, Unanswered
    <3>2. queue[kind] > 0
      BY <1>2, <1>4
    <3>3. QED
      BY <1>3, <3>1, <3>2 DEF IInv, BindProgress
  <2>3. QED
    BY <2>1, <2>2 DEF Answer
<1>6. QED
  BY <1>1, <1>2, <1>3, <1>4, <1>5

\* Every step preserves it: one case per state of csm_next_state, per read
\* callback and per action of the environment.
LEMMA NextInv == IInv /\ [Next]_vars => IInv'
<1> SUFFICES ASSUME IInv, [Next]_vars PROVE IInv'
  OBVIOUS
<1> USE ConfigsAssumption
<1> USE DEF IInv, TypeOK, Phases, BindProgress, Handlers, OpenUnlessError,
            AttemptsReset, DirectoryKnown, UnboundIsIdle, States, Kinds,
            ConfigType, InState, Rest, csm_set_state,
            csm_is_in_state, csm_init, ldap_schema_new,
            connection_update, events, directory, history
<1>1. CASE TickInit
  <2> USE <1>1 DEF TickInit, connection_start_tls, Sent, FailNoDescriptor,
                   FailUnbound, Unbind, connection_install_handlers, Push,
                   Move
  <2>1. TypeOK'
    <3>1. queue' \in [Kinds -> Nat]
      OBVIOUS
    <3>2. /\ handlers_installed' \in BOOLEAN
          /\ schema_entry_path' \in BOOLEAN
          /\ bind_answer' \in {"none", "accepted", "refused"} /\ dropped' \in BOOLEAN
      OBVIOUS
    <3>3. QED
      BY <3>1, <3>2
  <2>2. Phases'
    OBVIOUS
  <2>3. BindProgress'
    OBVIOUS
  <2>4. Handlers'
    OBVIOUS
  <2>5. OpenUnlessError' /\ AttemptsReset'
    OBVIOUS
  <2>6. DirectoryKnown' /\ UnboundIsIdle'
    OBVIOUS
  <2>7. QED
    BY <2>1, <2>2, <2>3, <2>4, <2>5, <2>6
<1>2. CASE TickTransportReady
  <2> USE <1>2 DEF TickTransportReady, connection_ldap_bind,
                   connection_sasl_bind, RepeatLastOperation, Sent,
                   FailNoDescriptor, FailUnbound, Unbind,
                   connection_install_handlers, Push
  <2>1. TypeOK'
    <3>1. queue' \in [Kinds -> Nat]
      OBVIOUS
    <3>2. /\ handlers_installed' \in BOOLEAN
          /\ schema_entry_path' \in BOOLEAN
          /\ bind_answer' \in {"none", "accepted", "refused"} /\ dropped' \in BOOLEAN
      OBVIOUS
    <3>3. QED
      BY <3>1, <3>2
  <2>2. Phases'
    OBVIOUS
  <2>3. BindProgress'
    OBVIOUS
  <2>4. Handlers'
    OBVIOUS
  <2>5. OpenUnlessError' /\ AttemptsReset'
    OBVIOUS
  <2>6. DirectoryKnown' /\ UnboundIsIdle'
    OBVIOUS
  <2>7. QED
    BY <2>1, <2>2, <2>3, <2>4, <2>5, <2>6
<1>3. CASE TickBound
  BY <1>3 DEF TickBound, Move
<1>4. CASE TickDetectDirectory
  <2>1. CASE directory_type = "UNINITIALIZED"
    <3>1. Search({"directory"}, "DETECT_DIRECTORY")
      BY <1>4, <2>1 DEF TickDetectDirectory, directory_get_type
    <3>2. /\ queue' \in [Kinds -> Nat]
          /\ \A k \in Kinds : k # "directory" => queue'[k] = queue[k]
          /\ \A k \in Kinds : queue'[k] >= queue[k]
          /\ state' = "DETECT_DIRECTORY" \/ state' = "ERROR"
          /\ UNCHANGED <<ldap, ended, events>>
      BY <3>1, SearchEffect
    <3>3. QED
      BY <1>4, <3>2 DEF TickDetectDirectory
  <2>2. CASE directory_type # "UNINITIALIZED"
    BY <1>4, <2>2 DEF TickDetectDirectory, Move
  <2>3. QED
    BY <2>1, <2>2
<1>5. CASE TickRequestSchema
  <2>1. CASE Search({"attributes", "classes"}, "CHECK_SCHEMA")
    <3>1. /\ queue' \in [Kinds -> Nat]
          /\ \A k \in Kinds : k \notin {"attributes", "classes"} =>
                                  queue'[k] = queue[k]
          /\ \A k \in Kinds : queue'[k] >= queue[k]
          /\ state' = "CHECK_SCHEMA" \/ state' = "ERROR"
          /\ UNCHANGED <<ldap, ended, events>>
      BY <2>1, SearchEffect
    <3>2. QED
      BY <1>5, <3>1 DEF TickRequestSchema
  <2>2. CASE Search({"subschema"}, "REQUEST_SCHEMA")
    <3>1. /\ queue' \in [Kinds -> Nat]
          /\ \A k \in Kinds : k # "subschema" => queue'[k] = queue[k]
          /\ \A k \in Kinds : queue'[k] >= queue[k]
          /\ state' = "REQUEST_SCHEMA" \/ state' = "ERROR"
          /\ UNCHANGED <<ldap, ended, events>>
      BY <2>2, SearchEffect
    <3>2. QED
      BY <1>5, <3>1 DEF TickRequestSchema
  <2>3. CASE Move("CHECK_SCHEMA")
    BY <1>5, <2>3 DEF TickRequestSchema, Move
  <2>4. QED
    BY <1>5, <2>1, <2>2, <2>3
    DEF TickRequestSchema, ldap_schema_load, schema_load_openldap,
        schema_load_active_directory
<1>6. CASE TickCheckSchema
  <2> USE <1>6 DEF TickCheckSchema, Move, ldap_schema_ready
  <2>1. TypeOK'
    <3>1. queue' \in [Kinds -> Nat]
      OBVIOUS
    <3>2. /\ handlers_installed' \in BOOLEAN
          /\ schema_entry_path' \in BOOLEAN
          /\ bind_answer' \in {"none", "accepted", "refused"} /\ dropped' \in BOOLEAN
      OBVIOUS
    <3>3. QED
      BY <3>1, <3>2
  <2>2. Phases'
    OBVIOUS
  <2>3. BindProgress'
    OBVIOUS
  <2>4. Handlers'
    OBVIOUS
  <2>5. OpenUnlessError' /\ AttemptsReset'
    OBVIOUS
  <2>6. DirectoryKnown' /\ UnboundIsIdle'
    OBVIOUS
  <2>7. QED
    BY <2>1, <2>2, <2>3, <2>4, <2>5, <2>6
<1>7. CASE TickRun
  BY <1>7 DEF TickRun
<1>8. CASE TickError
  <2> USE <1>8 DEF TickError, MayReconnect, connection_close
  <2>1. read_event' \in {"null", "live", "deleted"} /\ timer' \in {"armed", "deleted"}
    OBVIOUS
  <2>2. n_reconnect_attempts < MAX_RECONNECT_ATTEMPTS
    BY AttemptsAssumption
  <2>3. /\ state' = "INIT"
        /\ reconnects' = reconnects + 1
        /\ UNCHANGED <<config, schema_entry_path>>
    BY <2>2
  <2>4. CASE connection_configure /\ CloseEnds("no")
    <3>1. /\ queue' \in [Kinds -> Nat] /\ \A k \in Kinds : queue'[k] = 0
          /\ stored' \in [Kinds -> Nat] /\ \A k \in Kinds : stored'[k] = 0
      BY <2>4 DEF connection_configure, NoRequests
    <3>2. /\ ldap' = "open"
          /\ handlers_installed' = FALSE
          /\ directory_type' = "UNINITIALIZED"
          /\ n_reconnect_attempts' = 1
          /\ schema' = {}
          /\ bind_answer' = "none" /\ dropped' = FALSE
          /\ link' = "connecting"
      BY <2>4 DEF connection_configure
    <3>3. ended' \in {"no", "freed", "corrupt"}
      BY <2>4 DEF CloseEnds
    <3>4. TypeOK'
      <4>1. /\ config' \in Configs
            /\ schema_entry_path' \in BOOLEAN
            /\ reconnects' \in Nat
        BY <2>3
      <4>2. QED
        BY <2>1, <2>3, <3>1, <3>2, <3>3, <4>1
    <3>5. Phases' /\ BindProgress'
      BY <2>3, <3>1, <3>2
    <3>6. Handlers' /\ OpenUnlessError' /\ AttemptsReset'
      BY <2>3, <3>1, <3>2
    <3>7. DirectoryKnown' /\ UnboundIsIdle'
      BY <2>3, <3>1, <3>2
    <3>8. QED
      BY <3>4, <3>5, <3>6, <3>7
  <2>5. CASE connection_configure_failed
    <3> USE <2>5 DEF connection_configure_failed
    <3>1. TypeOK'
      <4>1. /\ handlers_installed' \in BOOLEAN
            /\ bind_answer' \in {"none", "accepted", "refused"} /\ dropped' \in BOOLEAN
        OBVIOUS
      <4>2. QED
        BY <2>1, <2>3, <4>1
    <3>2. ended' = "corrupt"
      OBVIOUS
    <3>3. QED
      BY <3>1, <3>2
  <2>6. QED
    BY <2>2, <2>4, <2>5
<1>9. CASE connection_start_tls_on_read
  <2>1. Answer("tls")
    BY <1>9 DEF connection_start_tls_on_read
  <2>2. /\ queue' \in [Kinds -> Nat] /\ stored' \in [Kinds -> Nat]
        /\ ended = "no" /\ ldap = "open" /\ read_event = "live"
        /\ queue["tls"] > 0
        /\ \A k \in Kinds : /\ queue'[k] <= queue[k]
                            /\ stored'[k] <= queue'[k]
                            /\ stored'[k] <= stored[k]
        /\ queue'["tls"] = queue["tls"] - 1
    BY <2>1, AnswerEffect DEF Answer
  <2>3. state = "TLS_NEGOTIATION"
    BY <2>2
  <2>4. state' \in {"TRANSPORT_READY", "ERROR", "TLS_NEGOTIATION"}
    BY <1>9, <2>3 DEF connection_start_tls_on_read
  <2>5. UNCHANGED <<config, ldap, link, handlers_installed, read_event,
                    directory_type, schema, schema_entry_path,
                    n_reconnect_attempts, timer, ended, bind_answer, reconnects>>
    BY <1>9 DEF connection_start_tls_on_read
  <2>6. dropped' \in BOOLEAN
    BY <1>9 DEF connection_start_tls_on_read
  <2>7. TypeOK'
    BY <2>2, <2>4, <2>5, <2>6
  <2>8. Phases' /\ BindProgress' /\ Handlers'
    BY <2>2, <2>3, <2>4, <2>5
  <2>9. OpenUnlessError' /\ AttemptsReset' /\ DirectoryKnown' /\ UnboundIsIdle'
    BY <2>2, <2>4, <2>5
  <2>10. QED
    BY <2>7, <2>8, <2>9
<1>10. CASE connection_bind_on_read
  <2>1. /\ queue' \in [Kinds -> Nat] /\ stored' \in [Kinds -> Nat]
        /\ ended = "no" /\ ldap = "open" /\ read_event = "live"
        /\ queue["bind"] > 0
        /\ \A k \in Kinds : /\ queue'[k] <= queue[k]
                            /\ stored'[k] <= queue'[k]
                            /\ stored'[k] <= stored[k]
        /\ queue'["bind"] = queue["bind"] - 1
    <3>1. Answer("bind")
      BY <1>10 DEF connection_bind_on_read
    <3>2. QED
      BY <3>1, AnswerEffect DEF Answer
  <2>2. bind_answer' \in {"accepted", "refused"}
    BY <1>10, <2>1 DEF connection_bind_on_read, ServerDecides
  <2>3. CASE config.bind_type = "interactive"
    <3>1. state = "BIND_IN_PROGRESS"
      BY <2>1, <2>3
    <3>2. \/ state' = "BOUND" /\ bind_answer' = "accepted"
          \/ state' = "ERROR"
          \/ state' = "BIND_IN_PROGRESS"
      BY <1>10, <2>3, <3>1 DEF connection_bind_on_read, InteractiveBindRead
    <3>3. dropped' \in BOOLEAN
      BY <1>10, <2>3 DEF connection_bind_on_read, InteractiveBindRead
    <3>4. UNCHANGED <<config, ldap, link, handlers_installed, read_event,
                      directory_type, schema, schema_entry_path,
                      n_reconnect_attempts, timer, ended, reconnects>>
      BY <1>10 DEF connection_bind_on_read
    <3>5. TypeOK'
      BY <2>1, <2>2, <3>2, <3>3, <3>4
    <3>6. Phases' /\ BindProgress'
      BY <2>1, <2>2, <2>3, <3>1, <3>2, <3>4
    <3>7. Handlers' /\ OpenUnlessError' /\ AttemptsReset' /\ DirectoryKnown'
          /\ UnboundIsIdle'
      BY <2>1, <3>1, <3>2, <3>4
    <3>8. QED
      BY <3>5, <3>6, <3>7
  <2>4. CASE config.bind_type # "interactive"
    <3>1. state' \in {state, "ERROR"} /\ UNCHANGED dropped
      BY <1>10, <2>4 DEF connection_bind_on_read, SimpleBindRead
    <3>2. state \notin {"INIT", "TRANSPORT_READY", "TLS_NEGOTIATION"}
      BY <2>1
    <3>3. UNCHANGED <<config, ldap, link, handlers_installed, read_event,
                      directory_type, schema, schema_entry_path,
                      n_reconnect_attempts, timer, ended, reconnects>>
      BY <1>10 DEF connection_bind_on_read
    <3>4. TypeOK'
      BY <2>1, <2>2, <3>1, <3>3
    <3>5. Phases' /\ BindProgress'
      BY <2>1, <2>2, <2>4, <3>1, <3>2, <3>3
    <3>6. Handlers' /\ OpenUnlessError' /\ AttemptsReset' /\ DirectoryKnown'
          /\ UnboundIsIdle'
      BY <2>1, <3>1, <3>2, <3>3
    <3>7. QED
      BY <3>4, <3>5, <3>6
  <2>5. QED
    BY <2>3, <2>4
<1>11. CASE directory_parse_result
  <2>1. Answer("directory")
    BY <1>11 DEF directory_parse_result
  <2>2. /\ queue' \in [Kinds -> Nat] /\ stored' \in [Kinds -> Nat]
        /\ ended = "no" /\ ldap = "open" /\ read_event = "live"
        /\ queue["directory"] > 0
        /\ \A k \in Kinds : /\ queue'[k] <= queue[k]
                            /\ stored'[k] <= queue'[k]
                            /\ stored'[k] <= stored[k]
        /\ \A k \in {"tls", "bind"} : queue'[k] = queue[k] /\ stored'[k] = stored[k]
        /\ bind_answer # "none"
    BY <2>1, AnswerEffect
  <2>3. UNCHANGED <<config, state, ldap, link, handlers_installed, read_event,
                    schema, schema_entry_path, n_reconnect_attempts, timer,
                    ended, bind_answer, dropped, reconnects>>
    BY <1>11 DEF directory_parse_result
  <2>4. directory_type' \in {directory_type, "UNKNOWN", config.directory} /\
        (directory_type' = "UNINITIALIZED" => directory_type = "UNINITIALIZED")
    BY <1>11 DEF directory_parse_result, Unrecognised
  <2>5. /\ config.directory \in {"OPENLDAP", "ACTIVE_DIRECTORY", "UNKNOWN"}
        /\ state \notin {"INIT", "TRANSPORT_READY", "TLS_NEGOTIATION", "BIND_IN_PROGRESS"}
    BY <2>2
  <2>6. TypeOK'
    BY <2>2, <2>3, <2>4, <2>5
  <2>7. Phases' /\ BindProgress' /\ Handlers'
    BY <2>2, <2>3, <2>4, <2>5
  <2>8. DirectoryKnown'
    BY <1>11, <2>2, <2>3, <2>4 DEF directory_parse_result, Unrecognised
  <2>9. OpenUnlessError' /\ AttemptsReset' /\ UnboundIsIdle'
    BY <2>2, <2>3
  <2>10. QED
    BY <2>6, <2>7, <2>8, <2>9
<1>12. ASSUME \/ subschema_subentry_callback
              \/ \E table \in {"attributes", "classes"} : schema_search_callback(table)
       PROVE  IInv'
  <2>1. PICK kind \in Kinds \ {"tls", "bind"} : Answer(kind)
    BY <1>12 DEF subschema_subentry_callback, schema_search_callback
  <2>2. /\ queue' \in [Kinds -> Nat] /\ stored' \in [Kinds -> Nat]
        /\ ended = "no" /\ ldap = "open" /\ read_event = "live"
        /\ queue[kind] > 0
        /\ \A k \in Kinds : /\ queue'[k] <= queue[k]
                            /\ stored'[k] <= queue'[k]
                            /\ stored'[k] <= stored[k]
        /\ \A k \in {"tls", "bind"} : queue'[k] = queue[k] /\ stored'[k] = stored[k]
        /\ bind_answer # "none"
    BY <2>1, AnswerEffect
  <2>3. /\ UNCHANGED <<config, state, ldap, link, handlers_installed, read_event,
                       directory_type, n_reconnect_attempts, timer, ended,
                       bind_answer, dropped, reconnects>>
        /\ schema' \in SUBSET {"attributes", "classes"}
        /\ schema_entry_path' \in BOOLEAN
    BY <1>12 DEF subschema_subentry_callback, schema_search_callback,
                 openldap_schema_callback, ad_schema_callback
  <2>4. TypeOK'
    BY <2>2, <2>3
  <2>5. Phases' /\ BindProgress' /\ Handlers'
    BY <2>2, <2>3
  <2>6. OpenUnlessError' /\ AttemptsReset' /\ DirectoryKnown' /\ UnboundIsIdle'
    BY <2>2, <2>3
  <2>7. QED
    BY <2>4, <2>5, <2>6
<1>13. ASSUME NEW kind \in Kinds, StoreAnswer(kind)
       PROVE  IInv'
  <2>1. /\ ended = "no" /\ ldap = "open" /\ link = "up" /\ read_event = "live"
        /\ queue[kind] > stored[kind]
        /\ kind # "bind" => queue["bind"] <= stored["bind"]
        /\ stored' = [stored EXCEPT ![kind] = @ + 1]
        /\ UNCHANGED <<config, state, ldap, link, handlers_installed, read_event,
                       queue, directory_type, schema, schema_entry_path,
                       n_reconnect_attempts, timer, ended, dropped, reconnects>>
    BY <1>13 DEF StoreAnswer, Arrives, Watching, Unanswered
  <2>2. kind # "tls" /\ (kind = "bind" => config.bind_type # "interactive")
    <3>1. PolledBehind(kind)
      BY <1>13 DEF StoreAnswer
    <3>2. kind = "tls" => state = "TLS_NEGOTIATION" /\ queue[kind] <= 1
      BY <2>1
    <3>3. (kind = "bind" /\ config.bind_type = "interactive") =>
              state = "BIND_IN_PROGRESS" /\ queue[kind] <= 1
      BY <2>1
    <3>4. \A k \in Kinds : Unanswered(k) => queue[k] > 0
      BY DEF Unanswered
    <3>5. QED
      BY <2>1, <3>1, <3>2, <3>3, <3>4 DEF PolledBehind, Turn
  <2>3. IF kind = "bind" THEN bind_answer' \in {"accepted", "refused"}
                         ELSE bind_answer' = bind_answer /\ bind_answer # "none"
    <3>1. CASE kind = "bind"
      BY <1>13, <3>1 DEF StoreAnswer, ServerDecides
    <3>2. CASE kind # "bind"
      BY <1>13, <2>1, <2>2, <3>2 DEF StoreAnswer
    <3>3. QED
      BY <3>1, <3>2
  <2>4. /\ stored' \in [Kinds -> Nat]
        /\ \A k \in Kinds : stored'[k] <= queue'[k]
        /\ \A k \in Kinds \ {kind} : stored'[k] = stored[k]
    BY <2>1
  <2>5. TypeOK'
    BY <2>1, <2>3, <2>4
  <2>6. Phases'
    BY <2>1, <2>2, <2>4
  <2>7. BindProgress'
    <3>1. bind_answer' # "none"
      BY <2>3
    <3>2. (/\ state \in {"BOUND", "DETECT_DIRECTORY", "REQUEST_SCHEMA",
                         "CHECK_SCHEMA", "RUN"}
           /\ config.bind_type = "interactive") => kind # "bind"
      BY <2>2
    <3>3. QED
      BY <2>1, <2>3, <3>1, <3>2
  <2>8. Handlers' /\ OpenUnlessError' /\ AttemptsReset' /\ DirectoryKnown'
        /\ UnboundIsIdle'
    BY <2>1
  <2>9. QED
    BY <2>5, <2>6, <2>7, <2>8
<1>14. CASE connection_on_read_error
  <2> USE <1>14 DEF connection_on_read_error, Watching
  <2>1. \A k \in Kinds : queue'[k] = stored[k] /\ queue'[k] <= queue[k]
    OBVIOUS
  <2>2. TypeOK'
    OBVIOUS
  <2>3. Phases' /\ BindProgress' /\ Handlers'
    BY <2>1
  <2>4. OpenUnlessError' /\ AttemptsReset' /\ DirectoryKnown' /\ UnboundIsIdle'
    BY <2>1
  <2>5. QED
    BY <2>2, <2>3, <2>4
<1>15. CASE connection_on_read_no_option
  <2>1. /\ ended = "no" /\ ldap = "open" /\ link = "down" /\ dropped' = TRUE
        /\ UNCHANGED <<config, state, ldap, link, handlers_installed, read_event,
                       stored, directory_type, schema, schema_entry_path,
                       n_reconnect_attempts, timer, ended, bind_answer, reconnects>>
    BY <1>15 DEF connection_on_read_no_option, Watching
  <2>2. PICK kind \in Kinds : /\ queue[kind] > stored[kind]
                              /\ queue' = [queue EXCEPT ![kind] = @ - 1]
    BY <1>15 DEF connection_on_read_no_option, Unanswered
  <2>3. /\ queue' \in [Kinds -> Nat]
        /\ \A k \in Kinds : queue'[k] <= queue[k] /\ stored[k] <= queue'[k]
    BY <2>1, <2>2
  <2>4. TypeOK'
    BY <2>1, <2>3
  <2>5. Phases' /\ BindProgress' /\ Handlers'
    BY <2>1, <2>3
  <2>6. OpenUnlessError' /\ AttemptsReset' /\ DirectoryKnown' /\ UnboundIsIdle'
    BY <2>1
  <2>7. QED
    BY <2>4, <2>5, <2>6
<1>16. CASE LinkUp
  BY <1>16 DEF LinkUp
<1>17. CASE LinkDown
  BY <1>17 DEF LinkDown
<1>18. CASE ApplicationError
  BY <1>18 DEF ApplicationError
<1>19. CASE ld_free
  BY <1>19 DEF ld_free, connection_close, CloseEnds
<1>20. CASE connection_on_read_unbound \/ TickFreed
  <2>1. /\ ended' = "corrupt"
        /\ UNCHANGED <<config, state, ldap, link, handlers_installed, read_event,
                       queue, stored, directory_type, schema, schema_entry_path,
                       n_reconnect_attempts, timer, bind_answer, dropped, reconnects>>
    BY <1>20 DEF connection_on_read_unbound, TickFreed
  <2>2. TypeOK'
    BY <2>1
  <2>3. QED
    BY <2>1, <2>2
<1>21. CASE UNCHANGED vars
  BY <1>21 DEF vars
<1>22. QED
  BY <1>1, <1>2, <1>3, <1>4, <1>5, <1>6, <1>7, <1>8, <1>9, <1>10, <1>11,
      <1>12, <1>13, <1>14, <1>15, <1>16, <1>17, <1>18, <1>19, <1>20, <1>21
  DEF Next, Tick, OnRead

\* The invariant holds in every reachable state.
THEOREM Invariance == Spec => []IInv
  BY InitInv, NextInv, PTL DEF Spec

\* Types, for every configuration and fault.
THEOREM TypeCorrect == Spec => []TypeOK
<1>1. IInv => TypeOK
  BY DEF IInv
<1>2. QED
  BY <1>1, Invariance, PTL

\* The machine asks for the schema and runs only on a connection on which the
\* server answered the bind, and accepted it if it is interactive, whichever
\* order timer and read callbacks come in.
THEOREM RunIsBoundAlways == Spec => []RunIsBound
<1>1. IInv => RunIsBound
  BY DEF IInv, BindProgress, RunIsBound
<1>2. QED
  BY <1>1, Invariance, PTL

\* No request ever waits on a connection without a live read event.
THEOREM OutstandingWatchedAlways == Spec => []OutstandingAreWatched
<1>1. IInv => OutstandingAreWatched
  <2> SUFFICES ASSUME IInv, ended = "no", queue # NoRequests
               PROVE  handlers_installed /\ read_event = "live"
    BY DEF OutstandingAreWatched
  <2>1. \E k \in Kinds : queue[k] # 0
    BY DEF IInv, TypeOK, NoRequests
  <2>2. \E k \in Kinds : queue[k] > 0
    BY <2>1 DEF IInv, TypeOK
  <2>3. QED
    BY <2>2 DEF IInv, Handlers
<1>2. QED
  BY <1>1, Invariance, PTL

\* Outside ERROR the machine works on an open LDAP handle.
THEOREM OpenUnlessErrorAlways == Spec => []OpenUnlessError
<1>1. IInv => OpenUnlessError
  BY DEF IInv
<1>2. QED
  BY <1>1, Invariance, PTL

\* The state machine implements ConnectionPhases: RUN is entered after an answer
\* about the type of the directory, answers only ever tell the type of the
\* server or none, and once it is told only a reconnect forgets it.
THEOREM PhasesRefinement == Spec => ImplementsPhases
<1> USE DEF Abstract!phases
<1>1. Init => Abstract!PhaseInit
  BY ConfigsAssumption
  DEF Init, ConfigType, ld_install_handler, Abstract!PhaseInit,
      Abstract!ServerTypes
<1>2. IInv /\ [Next]_vars => [Abstract!PhaseNext]_(Abstract!phases)
  <2> SUFFICES ASSUME IInv, [Next]_vars
               PROVE  Abstract!PhaseNext \/ UNCHANGED Abstract!phases
    OBVIOUS
  <2> USE DEF Abstract!PhaseNext, Abstract!Detect, Abstract!EnterRun,
              Abstract!LeaveRun, Abstract!Reconnect, Rest, directory, history,
              events, InState, csm_set_state, csm_is_in_state
  <2>1. CASE TickInit
    BY <2>1 DEF TickInit, connection_start_tls, Sent, FailNoDescriptor,
                FailUnbound, Unbind, Move
  <2>2. CASE TickTransportReady
    BY <2>2 DEF TickTransportReady, connection_ldap_bind, connection_sasl_bind,
                RepeatLastOperation, Sent, FailNoDescriptor, FailUnbound, Unbind
  <2>3. CASE TickBound
    BY <2>3 DEF TickBound, Move
  <2>4. CASE TickDetectDirectory
    BY <2>4 DEF TickDetectDirectory, directory_get_type, Search, Move
  <2>5. CASE TickRequestSchema
    BY <2>5 DEF TickRequestSchema, ldap_schema_load, schema_load_openldap,
                schema_load_active_directory, Search, Move
  <2>6. CASE TickCheckSchema
    BY <2>6 DEF TickCheckSchema, Move, IInv, DirectoryKnown
  <2>7. CASE TickRun
    BY <2>7 DEF TickRun
  <2>8. CASE TickError
    <3>1. CASE connection_configure
      BY <2>8, <3>1 DEF TickError, connection_configure, csm_init
    <3>2. CASE UNCHANGED directory_type
      BY <2>8, <3>2 DEF TickError, csm_init
    <3>3. QED
      BY <2>8, <3>1, <3>2 DEF TickError, connection_configure_failed
  <2>9. CASE connection_start_tls_on_read
    <3>1. Answer("tls") /\ "tls" \in Kinds
      BY <2>9 DEF connection_start_tls_on_read, Kinds
    <3>2. state = "TLS_NEGOTIATION"
      BY <3>1, AnswerEffect DEF IInv, Phases
    <3>3. QED
      BY <2>9, <3>2 DEF connection_start_tls_on_read
  <2>10. CASE connection_bind_on_read
    BY <2>10 DEF connection_bind_on_read, InteractiveBindRead, SimpleBindRead
  <2>11. CASE directory_parse_result
    <3>1. ended = "no"
      BY <2>11 DEF directory_parse_result, Answer, Arrives, Watching
    <3>2. directory_type \in {"UNINITIALIZED", "UNKNOWN", config.directory}
      BY <3>1 DEF IInv, DirectoryKnown
    <3>3. QED
      BY <2>11, <3>1, <3>2 DEF directory_parse_result, Unrecognised
  <2>12. CASE subschema_subentry_callback
    BY <2>12 DEF subschema_subentry_callback
  <2>13. ASSUME NEW table \in {"attributes", "classes"},
                schema_search_callback(table)
         PROVE  UNCHANGED Abstract!phases
    BY <2>13 DEF schema_search_callback
  <2>14. CASE \/ connection_on_read_error \/ connection_on_read_no_option
              \/ \E kind \in Kinds : StoreAnswer(kind)
    BY <2>14 DEF connection_on_read_error, connection_on_read_no_option, StoreAnswer
  <2>15. CASE LinkUp \/ LinkDown
    BY <2>15 DEF LinkUp, LinkDown
  <2>16. CASE ApplicationError
    BY <2>16 DEF ApplicationError
  <2>17. CASE ld_free
    BY <2>17 DEF ld_free, CloseEnds
  <2>18. CASE connection_on_read_unbound
    BY <2>18 DEF connection_on_read_unbound, Watching, IInv, OpenUnlessError
  <2>19. CASE TickFreed
    BY <2>19 DEF TickFreed
  <2>20. CASE UNCHANGED vars
    BY <2>20 DEF vars
  <2>21. QED
    BY <2>1, <2>2, <2>3, <2>4, <2>5, <2>6, <2>7, <2>8, <2>9, <2>10, <2>11,
       <2>12, <2>13, <2>14, <2>15, <2>16, <2>17, <2>18, <2>19, <2>20
    DEF Next, Tick, OnRead
<1>3. QED
  BY <1>1, <1>2, Invariance, PTL DEF Spec, ImplementsPhases, Abstract!PhaseSpec

-----------------------------------------------------------------------------
(* The states are passed in one order.                                     *)

\* The ranks, one by one.
LEMMA RankFacts ==
  /\ \A s \in States : Rank(s) \in 0 .. 9
  /\ Rank("INIT") = 0 /\ Rank("TLS_NEGOTIATION") = 1 /\ Rank("TRANSPORT_READY") = 2
  /\ Rank("BIND_IN_PROGRESS") = 3 /\ Rank("BOUND") = 4
  /\ Rank("DETECT_DIRECTORY") = 5 /\ Rank("REQUEST_SCHEMA") = 6
  /\ Rank("CHECK_SCHEMA") = 7 /\ Rank("RUN") = 8 /\ Rank("ERROR") = 9
  BY DEF Rank, States

\* Whatever order timer and read callbacks come in, an answer that comes late
\* takes the machine back to no state it has left: a read callback that sets a
\* state finds the machine in the state that waits for it, or sets ERROR.
THEOREM MovesForwardAlways == Spec => MovesForward
<1>1. IInv /\ [Next]_vars =>
          [Rank(state) <= Rank(state') \/ (state = "ERROR" /\ state' = "INIT")]_vars
  <2> SUFFICES ASSUME IInv, [Next]_vars
               PROVE  \/ Rank(state) <= Rank(state')
                      \/ state = "ERROR" /\ state' = "INIT"
    OBVIOUS
  <2> USE RankFacts DEF csm_set_state, csm_is_in_state, InState
  <2>1. state \in States
    BY DEF IInv, TypeOK
  <2>2. CASE state' = "ERROR"
    BY <2>1, <2>2
  <2>3. CASE UNCHANGED state
    BY <2>1, <2>3
  <2>4. CASE TickInit
    BY <2>4, <2>2 DEF TickInit, connection_start_tls, Sent, FailNoDescriptor,
                      FailUnbound, Move
  <2>5. CASE TickTransportReady
    BY <2>5, <2>2 DEF TickTransportReady, connection_ldap_bind,
                      connection_sasl_bind, RepeatLastOperation, Sent,
                      FailNoDescriptor, FailUnbound
  <2>6. CASE TickBound
    BY <2>6 DEF TickBound, Move
  <2>7. CASE TickDetectDirectory
    BY <2>7, <2>2 DEF TickDetectDirectory, directory_get_type, Search, Move
  <2>8. CASE TickRequestSchema
    BY <2>8, <2>2 DEF TickRequestSchema, ldap_schema_load, schema_load_openldap,
                      schema_load_active_directory, Search, Move
  <2>9. CASE TickCheckSchema
    BY <2>9 DEF TickCheckSchema, Move
  <2>10. CASE TickError
    BY <2>10, <2>3 DEF TickError, csm_init
  <2>11. CASE connection_start_tls_on_read
    <3>1. ended = "no" /\ queue["tls"] > 0
      BY <2>11, AnswerEffect DEF connection_start_tls_on_read, Kinds
    <3>2. state = "TLS_NEGOTIATION"
      BY <3>1 DEF IInv, Phases
    <3>3. QED
      BY <3>2, <2>2, <2>3, <2>11 DEF connection_start_tls_on_read
  <2>12. CASE connection_bind_on_read
    <3>1. ended = "no" /\ queue["bind"] > 0
      BY <2>12, AnswerEffect DEF connection_bind_on_read, Kinds
    <3>2. config.bind_type = "interactive" => state = "BIND_IN_PROGRESS"
      BY <3>1 DEF IInv, Phases
    <3>3. QED
      BY <3>2, <2>2, <2>3, <2>12
      DEF connection_bind_on_read, InteractiveBindRead, SimpleBindRead
  <2>13. CASE connection_on_read_error \/ connection_on_read_no_option
    BY <2>13, <2>2, <2>3 DEF connection_on_read_error, connection_on_read_no_option
  <2>14. CASE \/ TickRun \/ directory_parse_result \/ subschema_subentry_callback
              \/ \E table \in {"attributes", "classes"} : schema_search_callback(table)
              \/ \E kind \in Kinds : StoreAnswer(kind)
              \/ connection_on_read_unbound \/ TickFreed
              \/ LinkUp \/ LinkDown \/ ApplicationError \/ ld_free \/ UNCHANGED vars
    BY <2>14, <2>2, <2>3
    DEF TickRun, directory_parse_result, subschema_subentry_callback,
        schema_search_callback, StoreAnswer, connection_on_read_unbound, TickFreed,
        LinkUp, LinkDown, ApplicationError, ld_free, vars
  <2>15. QED
    BY <2>4, <2>5, <2>6, <2>7, <2>8, <2>9, <2>10, <2>11, <2>12, <2>13, <2>14
    DEF Next, Tick, OnRead
<1>2. QED
  BY <1>1, Invariance, PTL DEF Spec, MovesForward

-----------------------------------------------------------------------------
(* Reconnecting and releasing.                                             *)

\* The comparison with MAX_RECONNECT_ATTEMPTS never ends the reconnecting,
\* whatever the limit: connection_configure sets the counter to 0 each time.
\* It is what ReconnectsLimited runs into, for every limit.
THEOREM LimitNeverReached == Spec => [](ended = "no" => MayReconnect)
<1>1. IInv => (ended = "no" => MayReconnect)
  BY AttemptsAssumption DEF IInv, TypeOK, AttemptsReset, MayReconnect
<1>2. QED
  BY <1>1, Invariance, PTL

\* Where something released can be used again: a connection closed with the
\* events of an earlier close, a failure to install the handlers, a
\* reconfiguration that fails, ldap_result on a handle that the application
\* unbound while requests are queued, and a timer that outlives the connection.
\* In particular no handle is unbound twice by csm_next_state, by
\* connection_close or by ld_free, and the library reads none that it unbound.
UsesReleased ==
    \/ ended = "no" /\ read_event = "deleted"
    \/ "no_descriptor" \in Faults /\ ~handlers_installed
    \/ "tls_context" \in Faults /\ config.use_start_tls /\ state = "ERROR"
    \/ "application_error" \in Faults /\ ldap = "unbound" /\ state = "ERROR"
    \/ "loop_goes_on" \in Faults /\ ended = "freed" /\ timer = "armed"

CorruptsOnlyThere ==
    [][ended # "corrupt" /\ ended' = "corrupt" => UsesReleased]_vars

\* Every step that uses something again starts in one of them.
LEMMA CorruptStep ==
  ASSUME IInv, Next, ended # "corrupt", ended' = "corrupt"
  PROVE  UsesReleased
<1> USE DEF InState, csm_is_in_state, IInv, OpenUnlessError, UsesReleased
<1>1. CASE TickInit
  BY <1>1 DEF TickInit, connection_start_tls, Sent, FailNoDescriptor, FailUnbound,
              Unbind, Move
<1>2. CASE TickTransportReady
  BY <1>2 DEF TickTransportReady, connection_ldap_bind, connection_sasl_bind,
              RepeatLastOperation, Sent, FailNoDescriptor, FailUnbound, Unbind
<1>3. CASE TickBound \/ TickDetectDirectory \/ TickRequestSchema \/ TickCheckSchema
           \/ TickRun
  BY <1>3 DEF TickBound, TickDetectDirectory, directory_get_type, TickRequestSchema,
              ldap_schema_load, schema_load_openldap, schema_load_active_directory,
              Search, Move, TickCheckSchema, TickRun
<1>4. CASE TickError
  BY <1>4 DEF TickError, CloseEnds, connection_configure_failed
<1>5. CASE OnRead
  <2>1. CASE connection_on_read_unbound
    <3>1. \E k \in Kinds : queue[k] # 0
      BY <2>1 DEF connection_on_read_unbound, NoRequests, TypeOK
    <3>2. QED
      BY <2>1, <3>1 DEF connection_on_read_unbound, Watching, UnboundIsIdle
  <2>2. CASE ~connection_on_read_unbound
    BY <1>5, <2>2
    DEF OnRead, connection_start_tls_on_read, connection_bind_on_read,
        directory_parse_result, subschema_subentry_callback,
        schema_search_callback, StoreAnswer, connection_on_read_error,
        connection_on_read_no_option
  <2>3. QED
    BY <2>1, <2>2
<1>6. CASE LinkUp \/ LinkDown \/ ApplicationError
  BY <1>6 DEF LinkUp, LinkDown, ApplicationError
<1>7. CASE ld_free
  BY <1>7 DEF ld_free, CloseEnds
<1>8. CASE TickFreed
  BY <1>8 DEF TickFreed
<1>9. QED
  BY <1>1, <1>2, <1>3, <1>4, <1>5, <1>6, <1>7, <1>8 DEF Next, Tick

\* For every configuration and fault: nothing else leads to a use after
\* release.
THEOREM CorruptionSources == Spec => CorruptsOnlyThere
<1>1. IInv /\ [Next]_vars =>
          [ended # "corrupt" /\ ended' = "corrupt" => UsesReleased]_vars
  BY CorruptStep
<1>2. QED
  BY <1>1, Invariance, PTL DEF Spec, CorruptsOnlyThere

\* On a transport that does not fail an ERROR is only reached before the
\* handlers are installed (StartTLS before the transport is up), so that
\* connection_close has no event to leave behind.
NoLeftover ==
    /\ ended # "corrupt"
    /\ ended = "no" =>
           /\ link # "down"
           /\ bind_answer # "refused"
           /\ read_event # "deleted"
           /\ read_event = "live" => link = "up" /\ state # "ERROR"
           /\ state \notin {"INIT", "TRANSPORT_READY", "ERROR"} => link = "up"

\* Every step of a connection whose transport holds keeps it so.
LEMMA NextNoLeftover ==
  ASSUME Faults \subseteq {"schema_rejected", "no_entry"}
  PROVE  IInv /\ NoLeftover /\ [Next]_vars => NoLeftover'
<1> SUFFICES ASSUME IInv, NoLeftover, [Next]_vars PROVE NoLeftover'
  OBVIOUS
<1> USE DEF NoLeftover, InState, csm_set_state, csm_is_in_state, Rest, events,
            directory, history
<1>1. Next => ended' # "corrupt"
  <2> SUFFICES ASSUME Next, ended' = "corrupt" PROVE FALSE
    OBVIOUS
  <2>1. UsesReleased
    BY CorruptStep
  <2>2. QED
    BY <2>1 DEF UsesReleased
<1>2. CASE TickInit
  BY <1>1, <1>2 DEF TickInit, connection_start_tls, Sent, FailNoDescriptor,
                    FailUnbound, Unbind, Move, connection_install_handlers, IInv,
                    TypeOK, Next, Tick
<1>3. CASE TickTransportReady
  BY <1>1, <1>3 DEF TickTransportReady, connection_ldap_bind, connection_sasl_bind,
                    RepeatLastOperation, Sent, FailNoDescriptor, FailUnbound,
                    connection_install_handlers, IInv, TypeOK, Next, Tick
<1>4. CASE TickBound \/ TickDetectDirectory \/ TickRequestSchema \/ TickCheckSchema
           \/ TickRun
  BY <1>4 DEF TickBound, TickDetectDirectory, directory_get_type, TickRequestSchema,
              ldap_schema_load, schema_load_openldap, schema_load_active_directory,
              Search, Move, TickCheckSchema, TickRun
<1>5. CASE TickError
  <2>1. MayReconnect
    BY <1>5, AttemptsAssumption
    DEF TickError, IInv, TypeOK, AttemptsReset, MayReconnect
  <2>2. connection_configure /\ CloseEnds("no") /\ connection_close /\ state' = "INIT"
    BY <1>5, <2>1 DEF TickError, connection_configure_failed, csm_init
  <2>3. read_event = "null"
    BY <1>5 DEF TickError, IInv, TypeOK
  <2>4. /\ link' = "connecting" /\ read_event' = "null" /\ ended' = "no"
        /\ bind_answer' = "none"
    BY <1>5, <2>2, <2>3
    DEF connection_configure, connection_close, CloseEnds, TickError
  <2>5. QED
    BY <2>2, <2>4
<1>6. CASE OnRead
  <2>1. ~connection_on_read_unbound
    BY <1>1, <1>6 DEF connection_on_read_unbound, Next
  <2>2. /\ UNCHANGED <<ended, link, read_event, handlers_installed>>
        /\ ended = "no" /\ read_event = "live" /\ link = "up"
    BY <1>6, <2>1
    DEF OnRead, connection_start_tls_on_read, connection_bind_on_read,
        directory_parse_result, subschema_subentry_callback,
        schema_search_callback, StoreAnswer, connection_on_read_error,
        connection_on_read_no_option, Answer, Arrives, Watching
  <2>3. bind_answer' # "refused"
    BY <1>6, <2>1, <2>2
    DEF OnRead, connection_start_tls_on_read, connection_bind_on_read,
        ServerDecides, directory_parse_result, subschema_subentry_callback,
        schema_search_callback, StoreAnswer, connection_on_read_error,
        connection_on_read_no_option
  <2>4. state' # "ERROR"
    BY <1>6, <2>1, <2>2, <2>3
    DEF OnRead, connection_start_tls_on_read, connection_bind_on_read,
        InteractiveBindRead, SimpleBindRead, directory_parse_result,
        subschema_subentry_callback, schema_search_callback, StoreAnswer,
        connection_on_read_error, connection_on_read_no_option
  <2>5. QED
    BY <2>2, <2>3, <2>4
<1>7. CASE LinkUp
  BY <1>7 DEF LinkUp
<1>8. CASE ld_free
  BY <1>1, <1>8 DEF ld_free, CloseEnds, Next
<1>9. ~LinkDown /\ ~ApplicationError /\ ~TickFreed
  BY DEF LinkDown, ApplicationError, TickFreed
<1>10. CASE UNCHANGED vars
  BY <1>10 DEF vars
<1>11. QED
  BY <1>2, <1>3, <1>4, <1>5, <1>6, <1>7, <1>8, <1>9, <1>10 DEF Next, Tick

\* On a connection where nothing fails but the searches for the directory and
\* its schema, nothing released is used again, even when StartTLS is tried before the transport is up and the
\* machine reconnects over and over.
THEOREM NoUseAfterReleaseWithoutFaults ==
  ASSUME Faults \subseteq {"schema_rejected", "no_entry"}
  PROVE  Spec => []NoUseAfterRelease
<1>1. Init => NoLeftover
  BY DEF Init, NoLeftover
<1>2. NoLeftover => NoUseAfterRelease
  BY DEF NoLeftover, NoUseAfterRelease
<1>3. QED
  BY <1>1, <1>2, NextNoLeftover, Invariance, PTL DEF Spec
-----------------------------------------------------------------------------
(* Waiting.                                                                *)

\* Only an interactive bind is waited for.
WaitInv ==
    /\ WaitHasAnEnd
    /\ (ended = "no" /\ state = "BIND_IN_PROGRESS") =>
           config.bind_type = "interactive"

\* A step into a state that waits sends the request and installs the handlers;
\* a step that takes the request away takes the machine along.
LEMMA NextWait == IInv /\ WaitInv /\ [Next]_vars => WaitInv'
<1> SUFFICES ASSUME IInv, WaitInv, [Next]_vars PROVE WaitInv'
  OBVIOUS
<1> USE DEF WaitInv, WaitHasAnEnd, InState, csm_set_state, csm_is_in_state, Rest,
            events, directory, history
<1>1. queue \in [Kinds -> Nat] /\ {"tls", "bind"} \subseteq Kinds
  BY DEF IInv, TypeOK, Kinds
<1>2. CASE state' \notin {"TLS_NEGOTIATION", "BIND_IN_PROGRESS"}
  BY <1>2
<1>3. CASE UNCHANGED <<config, state, read_event, queue, ended, dropped>>
  BY <1>3
<1>4. CASE TickInit
  <2>1. CASE config.use_start_tls /\ link = "up" /\ ~FailNoDescriptor
    <3>1. connection_install_handlers /\ Push("tls") /\ state' = "TLS_NEGOTIATION"
      BY <1>4, <2>1 DEF TickInit, connection_start_tls, Sent
    <3>2. ended = "no" /\ (handlers_installed => read_event = "live")
      BY <1>4 DEF TickInit, IInv, Handlers
    <3>3. read_event' = "live" /\ queue'["tls"] > 0
      BY <1>1, <3>1, <3>2 DEF connection_install_handlers, Push
    <3>4. QED
      BY <3>1, <3>3
  <2>2. CASE ~(config.use_start_tls /\ link = "up" /\ ~FailNoDescriptor)
    BY <1>2, <1>4, <2>2 DEF TickInit, connection_start_tls, Sent, FailNoDescriptor,
                            FailUnbound, Move
  <2>3. QED
    BY <2>1, <2>2
<1>5. CASE TickTransportReady
  <2>1. CASE state' = "BIND_IN_PROGRESS"
    <3>1. /\ connection_install_handlers /\ Push("bind")
          /\ config.bind_type = "interactive"
      BY <1>5, <2>1 DEF TickTransportReady, connection_ldap_bind,
                        connection_sasl_bind, Sent, RepeatLastOperation,
                        FailUnbound, FailNoDescriptor
    <3>2. ended = "no" /\ (handlers_installed => read_event = "live")
      BY <1>5 DEF TickTransportReady, IInv, Handlers
    <3>3. read_event' = "live" /\ queue'["bind"] > 0
      BY <1>1, <3>1, <3>2 DEF connection_install_handlers, Push
    <3>4. QED
      BY <1>5, <2>1, <3>1, <3>3 DEF TickTransportReady
  <2>2. state' \in {"TRANSPORT_READY", "BIND_IN_PROGRESS", "DETECT_DIRECTORY", "ERROR"}
    BY <1>5 DEF TickTransportReady, connection_ldap_bind, connection_sasl_bind,
                Sent, RepeatLastOperation, FailUnbound, FailNoDescriptor
  <2>3. QED
    BY <1>2, <2>1, <2>2
<1>6. CASE TickBound \/ TickDetectDirectory \/ TickRequestSchema \/ TickCheckSchema
           \/ TickRun
  BY <1>2, <1>6
  DEF TickBound, TickDetectDirectory, directory_get_type, TickRequestSchema,
      ldap_schema_load, schema_load_openldap, schema_load_active_directory,
      Search, Move, TickCheckSchema, TickRun
<1>7. CASE TickError
  BY <1>2, <1>7 DEF TickError, csm_init
<1>8. CASE connection_start_tls_on_read
  <2>1. state = "TLS_NEGOTIATION"
    BY <1>1, <1>8, AnswerEffect DEF connection_start_tls_on_read, IInv, Phases
  <2>2. QED
    BY <1>2, <1>8, <2>1 DEF connection_start_tls_on_read
<1>9. CASE connection_bind_on_read
  <2>1. ended = "no" /\ queue["bind"] > 0
    BY <1>1, <1>9, AnswerEffect DEF connection_bind_on_read
  <2>2. CASE config.bind_type = "interactive"
    <3>1. state = "BIND_IN_PROGRESS"
      BY <2>1, <2>2 DEF IInv, Phases
    <3>2. QED
      BY <1>2, <1>9, <2>2, <3>1 DEF connection_bind_on_read, InteractiveBindRead
  <2>3. CASE config.bind_type # "interactive"
    <3>1. state \notin {"TLS_NEGOTIATION", "BIND_IN_PROGRESS"}
      BY <2>1, <2>3 DEF IInv, Phases, Kinds
    <3>2. QED
      BY <1>2, <1>9, <2>3, <3>1 DEF connection_bind_on_read, SimpleBindRead
  <2>4. QED
    BY <2>2, <2>3
<1>10. CASE \/ directory_parse_result \/ subschema_subentry_callback
            \/ \E table \in {"attributes", "classes"} : schema_search_callback(table)
  <2>1. UNCHANGED <<config, state, read_event, ended, dropped>>
    BY <1>10 DEF directory_parse_result, subschema_subentry_callback,
                 schema_search_callback
  <2>2. queue'["tls"] = queue["tls"] /\ queue'["bind"] = queue["bind"]
    BY <1>1, <1>10 DEF directory_parse_result, subschema_subentry_callback,
                       schema_search_callback, Answer
  <2>3. QED
    BY <2>1, <2>2
<1>11. CASE connection_on_read_error \/ connection_on_read_no_option
  BY <1>2, <1>11 DEF connection_on_read_error, connection_on_read_no_option
<1>12. CASE LinkUp \/ LinkDown \/ \E kind \in Kinds : StoreAnswer(kind)
  BY <1>3, <1>12 DEF LinkUp, LinkDown, StoreAnswer
<1>13. CASE ApplicationError
  BY <1>2, <1>13 DEF ApplicationError
<1>14. CASE ld_free \/ connection_on_read_unbound \/ TickFreed
  BY <1>14 DEF ld_free, CloseEnds, connection_on_read_unbound, TickFreed
<1>15. CASE UNCHANGED vars
  BY <1>3, <1>15 DEF vars
<1>16. QED
  BY <1>4, <1>5, <1>6, <1>7, <1>8, <1>9, <1>10, <1>11, <1>12, <1>13, <1>14,
     <1>15 DEF Next, Tick, OnRead

\* For every configuration and fault, unless a read handler took a request on
\* this handle without setting a state (by a jump out of get_ldap_option, or
\* for a failed bind with a result code of LDAP_SUCCESS), the two states in which csm_next_state does nothing
\* have an answer, or a failed ldap_result, to come that leads on.
THEOREM WaitAlwaysHasAnEnd == Spec => []WaitHasAnEnd
<1>1. Init => WaitInv
  BY DEF Init, WaitInv, WaitHasAnEnd
<1>2. WaitInv => WaitHasAnEnd
  BY DEF WaitInv
<1>3. QED
  BY <1>1, <1>2, NextWait, Invariance, PTL DEF Spec
-----------------------------------------------------------------------------
(* The schema.                                                             *)

\* A transport that does not break is up in every state behind the bind.
LinkHolds ==
    ended = "no" =>
        /\ link # "down"
        /\ state \notin {"INIT", "TRANSPORT_READY", "ERROR"} => link = "up"

\* Every step keeps the transport up.
LEMMA NextLinkHolds ==
  ASSUME "link_down" \notin Faults
  PROVE  IInv /\ LinkHolds /\ [Next]_vars => LinkHolds'
<1> SUFFICES ASSUME IInv, LinkHolds, [Next]_vars PROVE LinkHolds'
  OBVIOUS
<1> USE DEF LinkHolds, InState, csm_set_state, csm_is_in_state, Rest, events,
            directory, history
<1>1. CASE TickInit
  BY <1>1 DEF TickInit, connection_start_tls, Sent, FailNoDescriptor, FailUnbound,
              Unbind, Move
<1>2. CASE TickTransportReady
  BY <1>2 DEF TickTransportReady, connection_ldap_bind, connection_sasl_bind,
              RepeatLastOperation, Sent, FailNoDescriptor, FailUnbound, Unbind
<1>3. CASE TickBound \/ TickDetectDirectory \/ TickRequestSchema \/ TickCheckSchema
           \/ TickRun
  BY <1>3 DEF TickBound, TickDetectDirectory, directory_get_type, TickRequestSchema,
              ldap_schema_load, schema_load_openldap, schema_load_active_directory,
              Search, Move, TickCheckSchema, TickRun
<1>4. CASE TickError
  <2>1. MayReconnect
    BY <1>4, AttemptsAssumption
    DEF TickError, IInv, TypeOK, AttemptsReset, MayReconnect
  <2>2. state' = "INIT" /\ link' = "connecting"
    BY <1>4, <2>1 DEF TickError, csm_init, connection_configure,
                      connection_configure_failed
  <2>3. QED
    BY <2>2
<1>5. CASE OnRead
  <2>1. ended = "no" /\ UNCHANGED link
    BY <1>5 DEF OnRead, connection_start_tls_on_read, connection_bind_on_read,
                directory_parse_result, subschema_subentry_callback,
                schema_search_callback, StoreAnswer, connection_on_read_error,
                connection_on_read_no_option, connection_on_read_unbound,
                Answer, Arrives, Watching
  <2>2. CASE state' \in {state, "TRANSPORT_READY", "ERROR"}
    BY <2>1, <2>2
  <2>3. CASE connection_bind_on_read
    <3>1. queue["bind"] > 0
      BY <2>3, AnswerEffect DEF connection_bind_on_read, Kinds
    <3>2. config.bind_type = "interactive" => state = "BIND_IN_PROGRESS"
      BY <2>1, <3>1 DEF IInv, Phases
    <3>3. QED
      BY <2>1, <2>2, <2>3, <3>2
      DEF connection_bind_on_read, InteractiveBindRead, SimpleBindRead
  <2>4. QED
    BY <1>5, <2>2, <2>3
    DEF OnRead, connection_start_tls_on_read, directory_parse_result,
        subschema_subentry_callback, schema_search_callback, StoreAnswer,
        connection_on_read_error, connection_on_read_no_option,
        connection_on_read_unbound
<1>6. CASE LinkUp \/ ApplicationError
  BY <1>6 DEF LinkUp, ApplicationError
<1>7. CASE ld_free \/ TickFreed
  BY <1>7 DEF ld_free, CloseEnds, TickFreed
<1>8. ~LinkDown
  BY DEF LinkDown
<1>9. CASE UNCHANGED vars
  BY <1>9 DEF vars
<1>10. QED
  BY <1>1, <1>2, <1>3, <1>4, <1>5, <1>6, <1>7, <1>8, <1>9 DEF Next, Tick

\* A step into CHECK_SCHEMA sends both searches, and an answer leaves the
\* outstanding requests only for the table it fills.
LEMMA NextSchemaOnItsWay ==
  ASSUME "link_down" \notin Faults, "schema_rejected" \notin Faults,
         "no_entry" \notin Faults
  PROVE  IInv /\ LinkHolds /\ SchemaOnItsWay /\ [Next]_vars => SchemaOnItsWay'
<1> SUFFICES ASSUME IInv, LinkHolds, SchemaOnItsWay, [Next]_vars
             PROVE  SchemaOnItsWay'
  OBVIOUS
<1> USE DEF SchemaOnItsWay, InState, csm_set_state, csm_is_in_state, Rest,
            events, directory, history
<1>1. queue \in [Kinds -> Nat] /\ {"attributes", "classes"} \subseteq Kinds
  BY DEF IInv, TypeOK, Kinds
<1>2. CASE state' \notin {"CHECK_SCHEMA", "RUN"}
  BY <1>2
<1>3. CASE TickInit \/ TickTransportReady \/ TickBound \/ TickDetectDirectory
  BY <1>2, <1>3
  DEF TickInit, connection_start_tls, TickTransportReady, connection_ldap_bind,
      connection_sasl_bind, RepeatLastOperation, Sent, FailNoDescriptor,
      FailUnbound, TickBound, TickDetectDirectory, directory_get_type, Search, Move
<1>4. CASE TickRequestSchema
  <2>1. link = "up" /\ UNCHANGED directory_type
    BY <1>4 DEF TickRequestSchema, LinkHolds
  <2>2. CASE Search({"attributes", "classes"}, "CHECK_SCHEMA")
    <3>1. queue' = [k \in Kinds |-> IF k \in {"attributes", "classes"}
                                    THEN queue[k] + 1 ELSE queue[k]]
      BY <2>1, <2>2 DEF Search
    <3>2. QED
      BY <1>1, <3>1
  <2>3. CASE Search({"subschema"}, "REQUEST_SCHEMA")
    BY <1>2, <2>3 DEF Search
  <2>4. CASE directory_type \notin {"OPENLDAP", "ACTIVE_DIRECTORY"}
    BY <2>1, <2>4
  <2>5. QED
    BY <1>4, <2>2, <2>3, <2>4
    DEF TickRequestSchema, ldap_schema_load, schema_load_openldap,
        schema_load_active_directory
<1>5. CASE TickCheckSchema \/ TickRun
  BY <1>5 DEF TickCheckSchema, TickRun, Move
<1>6. CASE TickError
  <2>1. MayReconnect
    BY <1>6, AttemptsAssumption
    DEF TickError, IInv, TypeOK, AttemptsReset, MayReconnect
  <2>2. QED
    BY <1>2, <1>6, <2>1 DEF TickError, csm_init
<1>7. CASE connection_start_tls_on_read
  <2>1. state = "TLS_NEGOTIATION"
    BY <1>7, AnswerEffect DEF connection_start_tls_on_read, IInv, Phases, Kinds
  <2>2. QED
    BY <1>2, <1>7, <2>1 DEF connection_start_tls_on_read
<1>8. CASE connection_bind_on_read
  <2>1. UNCHANGED <<ended, directory_type, schema>>
    BY <1>8 DEF connection_bind_on_read
  <2>2. \A k \in {"attributes", "classes"} : queue'[k] = queue[k]
    BY <1>1, <1>8 DEF connection_bind_on_read, Answer
  <2>3. UNCHANGED state \/ state' \in {"BOUND", "ERROR"}
    BY <1>8 DEF connection_bind_on_read, InteractiveBindRead, SimpleBindRead
  <2>4. QED
    BY <1>2, <2>1, <2>2, <2>3
<1>9. CASE directory_parse_result
  <2>1. UNCHANGED <<state, ended, schema>> /\ ended = "no"
    BY <1>9 DEF directory_parse_result, Answer, Arrives, Watching
  <2>2. state \in {"CHECK_SCHEMA", "RUN"} => UNCHANGED directory_type
    BY <1>9, <2>1 DEF directory_parse_result, Unrecognised, IInv, DirectoryKnown
  <2>3. \A k \in {"attributes", "classes"} : queue'[k] = queue[k]
    BY <1>1, <1>9 DEF directory_parse_result, Answer
  <2>4. QED
    BY <2>1, <2>2, <2>3
<1>10. CASE subschema_subentry_callback
  <2>1. \A k \in {"attributes", "classes"} : queue'[k] = queue[k]
    BY <1>1, <1>10 DEF subschema_subentry_callback, Answer
  <2>2. QED
    BY <1>10, <2>1 DEF subschema_subentry_callback
<1>11. ASSUME NEW table \in {"attributes", "classes"}, schema_search_callback(table)
       PROVE  SchemaOnItsWay'
  <2>1. schema' = schema \cup {table}
    BY <1>11 DEF schema_search_callback, openldap_schema_callback,
                 ad_schema_callback
  <2>2. \A k \in {"attributes", "classes"} \ {table} : queue'[k] = queue[k]
    BY <1>1, <1>11 DEF schema_search_callback, Answer
  <2>3. QED
    BY <1>11, <2>1, <2>2 DEF schema_search_callback
<1>12. ~connection_on_read_error /\ ~connection_on_read_no_option
  BY DEF connection_on_read_error, connection_on_read_no_option, Watching, LinkHolds
<1>13. CASE LinkUp \/ LinkDown \/ \E kind \in Kinds : StoreAnswer(kind)
  BY <1>13 DEF LinkUp, LinkDown, StoreAnswer
<1>14. CASE ApplicationError
  BY <1>2, <1>14 DEF ApplicationError
<1>15. CASE ld_free \/ connection_on_read_unbound \/ TickFreed
  BY <1>15 DEF ld_free, CloseEnds, connection_on_read_unbound, TickFreed
<1>16. CASE UNCHANGED vars
  BY <1>16 DEF vars
<1>17. QED
  BY <1>3, <1>4, <1>5, <1>6, <1>7, <1>8, <1>9, <1>10, <1>11, <1>12, <1>13,
     <1>14, <1>15, <1>16 DEF Next, Tick, OnRead

\* While the transport holds, the root entry is found and definitions can be
\* read, no table of the
\* schema is ever neither filled nor about to be: the safety half of
\* SchemaFollowsRun, for every configuration and the other faults.
THEOREM SchemaAlwaysOnItsWay ==
  ASSUME Faults \cap {"link_down", "schema_rejected", "no_entry"} = {}
  PROVE  Spec => []SchemaOnItsWay
<1>1. /\ "link_down" \notin Faults /\ "schema_rejected" \notin Faults
      /\ "no_entry" \notin Faults
  OBVIOUS
<1>2. Init => LinkHolds /\ SchemaOnItsWay
  BY DEF Init, LinkHolds, SchemaOnItsWay
<1>3. IInv /\ LinkHolds /\ [Next]_vars => LinkHolds'
  BY <1>1, NextLinkHolds
<1>4. IInv /\ LinkHolds /\ SchemaOnItsWay /\ [Next]_vars => SchemaOnItsWay'
  BY <1>1, NextSchemaOnItsWay
<1>5. QED
  BY <1>2, <1>3, <1>4, Invariance, PTL DEF Spec
=============================================================================
