-------------------------- MODULE ConnectionPhases --------------------------
(***************************************************************************)
(* What code that uses a connection may rely on: whether the state machine *)
(* is in RUN, and what the library knows of the directory behind the       *)
(* connection. ConnectionStateMachine implements this specification, and   *)
(* DirectoryObjects builds on it.                                          *)
(***************************************************************************)
VARIABLES
    server,         \* the type of the directory the server really is
    running,        \* the state machine is in RUN
    directory_type  \* connection->directory_type

phases == <<server, running, directory_type>>

ServerTypes == {"UNKNOWN", "OPENLDAP", "ACTIVE_DIRECTORY"}

PhaseInit ==
    /\ server \in ServerTypes
    /\ running = FALSE
    /\ directory_type = "UNINITIALIZED"

\* directory_parse_result reads the type off the root entry, or finds no entry
\* that tells. A later answer to the same question may still tell, also when
\* the machine is in RUN by then.
Detect ==
    /\ directory_type \in {"UNINITIALIZED", "UNKNOWN"}
    /\ directory_type' \in {"UNKNOWN", server}
    /\ UNCHANGED <<server, running>>

\* DETECT_DIRECTORY is left, and so RUN reached, after an answer.
EnterRun ==
    /\ ~running
    /\ directory_type # "UNINITIALIZED"
    /\ running' = TRUE
    /\ UNCHANGED <<server, directory_type>>

\* RUN is left for ERROR, or the handle is freed.
LeaveRun ==
    /\ running
    /\ running' = FALSE
    /\ UNCHANGED <<server, directory_type>>

\* connection_configure forgets the type; RUN was left before.
Reconnect ==
    /\ ~running
    /\ directory_type' = "UNINITIALIZED"
    /\ UNCHANGED <<server, running>>

PhaseNext == Detect \/ EnterRun \/ LeaveRun \/ Reconnect

PhaseSpec == PhaseInit /\ [][PhaseNext]_phases

TypePhases ==
    /\ server \in ServerTypes
    /\ running \in BOOLEAN
    /\ directory_type \in {"UNINITIALIZED", "UNKNOWN", server}
=============================================================================
