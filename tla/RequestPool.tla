----------------------------- MODULE RequestPool -----------------------------
(***************************************************************************)
(* What request dispatch promises its callers: a request that was issued   *)
(* is outstanding until its handler is called, which happens at most once, *)
(* or until it is lost on an error path; it never becomes outstanding      *)
(* again. RequestDispatch implements this specification.                   *)
(***************************************************************************)
EXTENDS Naturals

CONSTANT Ids        \* identities of requests on one LDAP handle

VARIABLES
    outstanding,    \* issued, not yet answered
    done,           \* handler was called
    lost            \* given up without a call of the handler

poolVars == <<outstanding, done, lost>>

PoolTypeOK ==
    /\ outstanding \in SUBSET Ids
    /\ done \in SUBSET Ids
    /\ lost \in SUBSET Ids

PoolInit ==
    /\ outstanding = {}
    /\ done = {}
    /\ lost = {}

Fresh(m) == m \notin outstanding \cup done \cup lost

PoolIssue(m) ==
    /\ Fresh(m)
    /\ outstanding' = outstanding \cup {m}
    /\ UNCHANGED <<done, lost>>

\* The request is accepted by the caller's function but never queued.
PoolRefuse(m) ==
    /\ Fresh(m)
    /\ lost' = lost \cup {m}
    /\ UNCHANGED <<outstanding, done>>

PoolHandle(m) ==
    /\ m \in outstanding
    /\ outstanding' = outstanding \ {m}
    /\ done' = done \cup {m}
    /\ UNCHANGED lost

PoolLose(S) ==
    /\ S # {}
    /\ outstanding' = outstanding \ S
    /\ lost' = lost \cup S
    /\ UNCHANGED done

\* A new LDAP handle: the requests of the old one are abandoned.
PoolReset ==
    /\ outstanding' = {}
    /\ done' = {}
    /\ lost' = {}

PoolNext ==
    \/ \E m \in Ids : PoolIssue(m) \/ PoolRefuse(m) \/ PoolHandle(m)
    \/ \E S \in SUBSET outstanding : PoolLose(S)
    \/ PoolReset

PoolSpec == PoolInit /\ [][PoolNext]_poolVars
=============================================================================
