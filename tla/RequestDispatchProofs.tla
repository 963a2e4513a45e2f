------------------------ MODULE RequestDispatchProofs ------------------------
(***************************************************************************)
(* Proofs about RequestDispatch, for any array length, any number of       *)
(* requests, any kinds of request and any set of failures: the slots and   *)
(* the queue stay consistent, no request is duplicated or lost, and the    *)
(* dispatch implements RequestPool.                                        *)
(***************************************************************************)
EXTENDS RequestDispatch, SequenceTheorems, TLAPS

-----------------------------------------------------------------------------
(* The inductive invariant of the slots.                                   *)

\* Slots are handed out one by one, so there are at least as many as there
\* are requests queued or set aside.
SlotsBound == Len(callqueue) + Len(pending) <= n_read_requests

\* A queued slot holds a request, never the initial value of the array.
QueuedAreRequests ==
    \A i \in DOMAIN callqueue : read_requests[callqueue[i]] \in Requests

\* pending_requests is a local of connection_on_read.
PendingOnlyInLoop == pc = "idle" => pending = <<>>

SlotInv ==
    /\ TypeOK
    /\ QueuedSlotsDistinct
    /\ SlotsBound
    /\ QueuedAreRequests
    /\ PendingOnlyInLoop
    /\ SearchIndexValid

-----------------------------------------------------------------------------
(* Sequences.                                                              *)

\* The tail of a non-empty sequence, position by position.
LEMMA TailFacts ==
  ASSUME NEW S, NEW s \in Seq(S), s # <<>>
  PROVE  /\ Len(s) \in Nat /\ Len(s) > 0
         /\ DOMAIN s = 1 .. Len(s)
         /\ Tail(s) \in Seq(S)
         /\ Len(Tail(s)) = Len(s) - 1
         /\ DOMAIN Tail(s) = 1 .. (Len(s) - 1)
         /\ \A i \in 1 .. (Len(s) - 1) : Tail(s)[i] = s[i + 1]
         /\ 1 \in DOMAIN s /\ Head(s) = s[1] /\ s[1] \in S
  OBVIOUS

\* A sequence with one more element, position by position.
LEMMA AppendFacts ==
  ASSUME NEW S, NEW s \in Seq(S), NEW e \in S
  PROVE  /\ Len(s) \in Nat
         /\ DOMAIN s = 1 .. Len(s)
         /\ Append(s, e) \in Seq(S)
         /\ Len(Append(s, e)) = Len(s) + 1
         /\ DOMAIN Append(s, e) = 1 .. (Len(s) + 1)
         /\ \A i \in 1 .. Len(s) : Append(s, e)[i] = s[i]
         /\ Append(s, e)[Len(s) + 1] = e
  OBVIOUS

\* A part of a sequence is a sequence over the same set.
LEMMA SubSeqType ==
  ASSUME NEW S, NEW s \in Seq(S), NEW m \in Nat, NEW n \in Nat,
         m >= 1, n <= Len(s)
  PROVE  /\ SubSeq(s, m, n) \in Seq(S)
         /\ ToSet(SubSeq(s, m, n)) \subseteq S
<1>1. \A i \in m .. n : s[i] \in S
  OBVIOUS
<1>2. SubSeq(s, m, n) \in Seq(S)
  BY <1>1, SubSeqProperties
<1>3. \A t \in Seq(S) : ToSet(t) \subseteq S
  BY DEF ToSet
<1>4. QED
  BY <1>2, <1>3

-----------------------------------------------------------------------------
\* A new connection has no requests.
LEMMA InitSlots == Init => SlotInv
<1> SUFFICES ASSUME Init PROVE SlotInv
  OBVIOUS
<1> USE MaxRequestsAssumption, MaxMsgAssumption DEF Init
<1>1. TypeConn
  BY DEF TypeConn
<1>2. TypeControl
  BY DEF TypeControl
<1>3. TypeSearch
  BY DEF TypeSearch
<1>4. TypeLdap /\ TypeHistory
  BY DEF TypeLdap, TypeHistory
<1>5. /\ QueuedSlotsDistinct /\ SlotsBound /\ QueuedAreRequests
      /\ PendingOnlyInLoop /\ SearchIndexValid
  BY DEF QueuedSlotsDistinct, SlotsBound, QueuedAreRequests, PendingOnlyInLoop,
         SearchIndexValid
<1>6. QED
  BY <1>1, <1>2, <1>3, <1>4, <1>5 DEF SlotInv, TypeOK

\* Issuing a request takes a slot no queued request uses.
LEMMA EnqueueSlots ==
  ASSUME SlotInv, NEW op \in Ops, MayIssue(op), Enqueue(op)
  PROVE  /\ TypeConn' /\ TypeControl' /\ TypeLdap' /\ TypeHistory'
         /\ QueuedSlotsDistinct' /\ SlotsBound' /\ QueuedAreRequests'
         /\ PendingOnlyInLoop'
<1> DEFINE n == n_read_requests
           r == [msgid |-> next_msgid, op |-> op]
<1> USE MaxRequestsAssumption, MaxMsgAssumption
<1>1. /\ n \in Slots /\ n \in Nat /\ n < 2 * MAX_REQUESTS
      /\ next_msgid \in Msgids /\ r \in Requests
  BY DEF SlotInv, TypeOK, TypeConn, Enqueue, MayIssue, Slots, Msgids, Requests
<1>2. /\ read_requests' = [read_requests EXCEPT ![n] = r]
      /\ n_read_requests' = n + 1
      /\ next_msgid' = next_msgid + 1
      /\ pending' = pending
  BY DEF Enqueue
<1>3. \/ callqueue' = callqueue
      \/ Len(callqueue) < MAX_REQUESTS /\ callqueue' = Append(callqueue, n)
  BY DEF Enqueue, request_queue_push, Full, SlotInv, TypeOK, TypeConn
<1>4. /\ callqueue \in Seq(Slots) /\ pending \in Seq(Requests)
      /\ Len(callqueue) \in Nat /\ Len(pending) \in Nat
      /\ DOMAIN callqueue = 1 .. Len(callqueue)
      /\ \A i \in 1 .. Len(callqueue) : callqueue[i] \in Slots
  BY DEF SlotInv, TypeOK, TypeConn
<1>5. /\ callqueue' \in Seq(Slots) /\ Len(callqueue') \in Nat
      /\ DOMAIN callqueue' = 1 .. Len(callqueue')
      /\ Len(callqueue') \in {Len(callqueue), Len(callqueue) + 1}
      /\ \A i \in 1 .. Len(callqueue) : callqueue'[i] = callqueue[i]
      /\ Len(callqueue') # Len(callqueue) => callqueue'[Len(callqueue) + 1] = n
  <2>1. CASE callqueue' = callqueue
    BY <2>1, <1>4
  <2>2. CASE callqueue' = Append(callqueue, n)
    <3> DEFINE a == Append(callqueue, n)
    <3>1. /\ a \in Seq(Slots) /\ Len(a) = Len(callqueue) + 1
          /\ DOMAIN a = 1 .. (Len(callqueue) + 1)
          /\ \A i \in 1 .. Len(callqueue) : a[i] = callqueue[i]
          /\ a[Len(callqueue) + 1] = n
      BY <1>1, <1>4, AppendFacts
    <3>2. callqueue' = a
      BY <2>2
    <3> HIDE DEF a
    <3>3. QED
      BY <3>1, <3>2
  <2>3. QED
    BY <1>3, <2>1, <2>2
<1> HIDE DEF r
<1>6. TypeConn'
  <2>1. read_requests' \in [Slots -> Requests \cup {Unused}]
    BY <1>1, <1>2 DEF SlotInv, TypeOK, TypeConn
  <2>2. n_read_requests' \in 0 .. (2 * MAX_REQUESTS)
    BY <1>1, <1>2
  <2>3. next_msgid' \in 1 .. (MaxMsg + 1)
    BY <1>1, <1>2 DEF Msgids
  <2>4. QED
    BY <2>1, <2>2, <2>3, <1>2, <1>4, <1>5 DEF TypeConn
<1> HIDE DEF n
<1>7. TypeControl' /\ TypeLdap' /\ TypeHistory'
  <2>1. TypeControl'
    BY DEF Enqueue, SlotInv, TypeOK, TypeControl
  <2>2. TypeLdap' /\ TypeHistory'
    BY <1>1 DEF Enqueue, SlotInv, TypeOK, TypeLdap, TypeHistory, history
  <2>3. QED
    BY <2>1, <2>2
<1>8. \A i \in DOMAIN callqueue' : \/ /\ i \in DOMAIN callqueue
                                      /\ callqueue'[i] = callqueue[i]
                                   \/ /\ i = Len(callqueue) + 1
                                      /\ callqueue'[i] = n
  <2> TAKE i \in DOMAIN callqueue'
  <2> DEFINE l == Len(callqueue)
             k == Len(callqueue')
  <2>1. l \in Nat /\ (k = l \/ k = l + 1) /\ i \in 1 .. k
    BY <1>4, <1>5
  <2>2. i \in 1 .. l \/ (i = l + 1 /\ k # l)
    <3> HIDE DEF k, l
    <3>1. QED
      BY <2>1
  <2>3. QED
    BY <2>2, <1>4, <1>5
<1>9. \A i \in DOMAIN callqueue : callqueue[i] < n
  BY DEF SlotInv, QueuedSlotsDistinct, n
<1>10. QueuedSlotsDistinct'
  <2>1. \A i \in DOMAIN callqueue' : callqueue'[i] < n_read_requests'
    <3> TAKE i \in DOMAIN callqueue'
    <3>1. CASE callqueue'[i] = n
      BY <3>1, <1>1, <1>2
    <3>2. CASE callqueue'[i] # n
      <4>1. i \in DOMAIN callqueue /\ callqueue'[i] = callqueue[i]
        BY <3>2, <1>8
      <4>2. callqueue[i] \in Int /\ callqueue[i] < n
        BY <4>1, <1>4, <1>9 DEF Slots
      <4>3. QED
        BY <4>1, <4>2, <1>1, <1>2
    <3>3. QED
      BY <3>1, <3>2
  <2>2. ASSUME NEW i \in DOMAIN callqueue', NEW j \in DOMAIN callqueue',
               callqueue'[i] = callqueue'[j]
        PROVE  i = j
    <3>1. \A k \in DOMAIN callqueue : callqueue[k] # n
      BY <1>1, <1>9
    <3>2. QED
      BY <2>2, <3>1, <1>8 DEF SlotInv, QueuedSlotsDistinct
  <2>3. QED
    BY <2>1, <2>2 DEF QueuedSlotsDistinct
<1>11. SlotsBound'
  <2>1. Len(callqueue) + Len(pending) <= n
    BY DEF SlotInv, SlotsBound, n
  <2>2. \A a, b, c \in Nat : a + b <= n =>
            (c = a \/ c = a + 1 => c + b <= n + 1)
    BY <1>1
  <2>3. Len(callqueue') \in Nat
    BY <1>5, Zenon
  <2>4. Len(callqueue') + Len(pending) <= n + 1
    BY <2>1, <2>2, <2>3, <1>4, <1>5
  <2>5. QED
    BY <2>4, <1>2 DEF SlotsBound
<1>12. QueuedAreRequests'
  <2>1. \A k \in Slots : read_requests'[k] = IF k = n THEN r ELSE read_requests[k]
    BY <1>2 DEF SlotInv, TypeOK, TypeConn
  <2>2. QED
    BY <2>1, <1>1, <1>4, <1>8 DEF SlotInv, QueuedAreRequests
<1>13. PendingOnlyInLoop'
  BY DEF Enqueue, SlotInv, PendingOnlyInLoop
<1>14. QED
  BY <1>6, <1>7, <1>10, <1>11, <1>12, <1>13

\* Popping a request frees its place in the count.
LEMMA PopSlots ==
  ASSUME SlotInv, request_queue_pop, UNCHANGED <<read_requests, n_read_requests>>
  PROVE  /\ callqueue' \in Seq(Slots)
         /\ Len(callqueue') = Len(callqueue) - 1
         /\ QueuedSlotsDistinct' /\ QueuedAreRequests'
         /\ Top \in Requests /\ Top.msgid \in Msgids
         /\ pc = "loop"
<1>1. /\ callqueue \in Seq(Slots) /\ callqueue # <<>> /\ callqueue' = Tail(callqueue)
      /\ pc = "loop"
  BY DEF SlotInv, TypeOK, TypeConn, request_queue_pop
<1> DEFINE q == callqueue
           t == Tail(callqueue)
<1>2. /\ Len(q) \in Nat /\ Len(q) > 0
      /\ DOMAIN q = 1 .. Len(q)
      /\ t \in Seq(Slots)
      /\ Len(t) = Len(q) - 1
      /\ DOMAIN t = 1 .. (Len(q) - 1)
      /\ \A i \in 1 .. (Len(q) - 1) : t[i] = q[i + 1]
      /\ 1 \in DOMAIN q /\ Head(q) = q[1]
  BY <1>1, TailFacts
<1>3. callqueue' = t
  BY <1>1
<1> HIDE DEF t
<1>4. \A i \in DOMAIN t : i \in Int /\ i + 1 \in DOMAIN q /\ t[i] = q[i + 1]
  BY <1>2
<1>5. QueuedSlotsDistinct'
  <2>1. \A i \in DOMAIN t : t[i] < n_read_requests
    BY <1>4 DEF SlotInv, QueuedSlotsDistinct
  <2>2. ASSUME NEW i \in DOMAIN t, NEW j \in DOMAIN t, t[i] = t[j]
        PROVE  i = j
    <3>1. i + 1 = j + 1
      BY <2>2, <1>4 DEF SlotInv, QueuedSlotsDistinct
    <3>2. QED
      BY <3>1, <1>4
  <2>3. QED
    BY <2>1, <2>2, <1>3 DEF QueuedSlotsDistinct
<1>6. QueuedAreRequests'
  BY <1>3, <1>4 DEF SlotInv, QueuedAreRequests
<1>7. Top \in Requests
  BY <1>2 DEF SlotInv, QueuedAreRequests, Top
<1>8. QED
  BY <1>1, <1>2, <1>3, <1>5, <1>6, <1>7 DEF Requests

\* libldap only moves messages between the wire and its store.
LEMMA ResultTypes ==
  ASSUME TypeLdap, NEW m \in Msgids, unanswered' = unanswered,
         ldap_result(m) \/ ldap_result_timeout(m)
  PROVE  TypeLdap'
<1>1. CASE m \in buffered /\ buffered' = buffered \ {m} /\ UNCHANGED wire
  BY <1>1 DEF TypeLdap
<1>2. ASSUME NEW k \in 0 .. Len(wire), NEW l \in {k, k - 1}, l \in Nat,
             wire' = SubSeq(wire, k + 1, Len(wire)),
             buffered' = buffered \cup ToSet(SubSeq(wire, 1, l))
      PROVE  TypeLdap'
  <2>1. wire \in Seq(Msgids) /\ Len(wire) \in Nat /\ k \in Nat /\ k <= Len(wire)
    BY DEF TypeLdap
  <2>2. SubSeq(wire, k + 1, Len(wire)) \in Seq(Msgids)
    BY <2>1, SubSeqType
  <2>3. l <= Len(wire)
    BY <2>1
  <2>4. ToSet(SubSeq(wire, 1, l)) \subseteq Msgids
    BY <1>2, <2>1, <2>3, SubSeqType
  <2>5. QED
    BY <1>2, <2>2, <2>4 DEF TypeLdap
<1>3. CASE ldap_result(m)
  <2>1. CASE m \notin buffered
    <3>1. PICK k \in 1 .. Len(wire) :
              /\ wire' = SubSeq(wire, k + 1, Len(wire))
              /\ buffered' = buffered \cup ToSet(SubSeq(wire, 1, k - 1))
      BY <1>3, <2>1 DEF ldap_result
    <3>2. k \in 0 .. Len(wire) /\ k - 1 \in Nat
      BY DEF TypeLdap
    <3>3. QED
      BY <1>2, <3>1, <3>2
  <2>2. QED
    BY <1>1, <1>3, <2>1 DEF ldap_result
<1>4. CASE ldap_result_timeout(m)
  <2>1. PICK k \in 0 .. Len(wire) :
            /\ wire' = SubSeq(wire, k + 1, Len(wire))
            /\ buffered' = buffered \cup ToSet(SubSeq(wire, 1, k))
    BY <1>4 DEF ldap_result_timeout, ReadWire
  <2>2. QED
    BY <1>2, <2>1
<1>5. QED
  BY <1>3, <1>4

\* What connection_remove_search_request leaves in the table was there before
\* or is 0, whichever branch it takes.
LEMMA RemoveSearchType ==
  ASSUME NEW S, 0 \in S, search_requests \in Seq(S),
         NEW index \in DOMAIN search_requests,
         connection_remove_search_request(index)
  PROVE  search_requests' \in Seq(S)
<1> DEFINE s == search_requests
<1>1. s \in Seq(S) /\ Len(s) \in Nat /\ index \in 1 .. Len(s)
  OBVIOUS
<1>2. RemoveAt(s, index) \in Seq(S)
  <2>1. index - 1 \in Nat /\ index - 1 <= Len(s) /\ index + 1 \in Nat /\ index + 1 >= 1
    BY <1>1
  <2>2. SubSeq(s, 1, index - 1) \in Seq(S) /\ SubSeq(s, index + 1, Len(s)) \in Seq(S)
    BY <2>1, <1>1, SubSeqType
  <2>3. QED
    BY <2>2 DEF RemoveAt
<1>3. Front(ReplaceAt(s, index, 0)) \in Seq(S)
  <2> DEFINE t == ReplaceAt(s, index, 0)
  <2>1. t \in Seq(S) /\ Len(t) = Len(s)
    BY <1>1 DEF ReplaceAt
  <2> HIDE DEF t
  <2>2. Len(t) - 1 \in Nat /\ Len(t) - 1 <= Len(t)
    BY <1>1, <2>1
  <2>3. SubSeq(t, 1, Len(t) - 1) \in Seq(S)
    BY <2>1, <2>2, SubSeqType
  <2>4. QED
    BY <2>3 DEF Front, t
<1>4. QED
  BY <1>2, <1>3 DEF connection_remove_search_request

\* A handler leaves with a control state it may be in, and with the index of
\* the entry of the search when it calls the search callback.
LEMMA HandlerControl ==
  ASSUME SlotInv, NEW request \in Requests, on_read_operation(request),
         UNCHANGED <<search_requests, on_error_operation>>
  PROVE  /\ pc' \in {"loop", "search_callback", "error_callback"}
         /\ current' \in Requests \cup {Unused}
         /\ search_index' \in Nat
         /\ SearchIndexValid'
<1>1. search_index \in Nat
  BY DEF SlotInv, TypeOK, TypeSearch
<1>2. ASSUME Return
      PROVE  /\ pc' = "loop" /\ current' = Unused /\ search_index' = search_index
  BY <1>2 DEF Return
<1>3. ASSUME ReportError(request)
      PROVE  \/ Return
             \/ pc' = "error_callback" /\ current' = request /\ search_index' = search_index
  BY <1>3 DEF ReportError
<1>4. \/ Return
      \/ ReportError(request)
      \/ \E i \in Matches(request.msgid) :
            pc' = "search_callback" /\ current' = request /\ search_index' = i
  BY DEF on_read_operation, add_on_read, modify_on_read, delete_on_read,
         rename_on_read, whoami_on_read, search_on_read
<1>5. CASE \E i \in Matches(request.msgid) :
              pc' = "search_callback" /\ current' = request /\ search_index' = i
  <2>1. PICK i \in Matches(request.msgid) :
              pc' = "search_callback" /\ current' = request /\ search_index' = i
    BY <1>5
  <2>2. /\ i \in 1 .. Len(search_requests) /\ search_requests[i] = request.msgid
        /\ DOMAIN search_requests = 1 .. Len(search_requests)
    BY DEF Matches, SlotInv, TypeOK, TypeSearch
  <2>3. i \in Nat
    BY <2>2
  <2>4. SearchIndexValid'
    BY <2>1, <2>2 DEF SearchIndexValid
  <2>5. QED
    BY <2>1, <2>3, <2>4
<1>6. CASE Return
  BY <1>1, <1>2, <1>6 DEF SearchIndexValid
<1>7. CASE pc' = "error_callback" /\ current' = request /\ search_index' = search_index
  BY <1>1, <1>7 DEF SearchIndexValid
<1>8. QED
  BY <1>3, <1>4, <1>5, <1>6, <1>7

\* The requests set aside go back to slots 0, 1, ...
LEMMA OnReadEndSlots ==
  ASSUME SlotInv, OnReadEnd
  PROVE  SlotInv'
<1> DEFINE l == Len(pending)
<1> USE MaxRequestsAssumption
<1>1. /\ pending \in Seq(Requests) /\ l \in Nat
      /\ \A i \in 1 .. l : pending[i] \in Requests
      /\ n_read_requests \in 0 .. (2 * MAX_REQUESTS)
      /\ callqueue = <<>>
  BY DEF SlotInv, TypeOK, TypeConn, OnReadEnd
<1>2. l <= n_read_requests
  BY <1>1 DEF SlotInv, SlotsBound
<1>3. /\ read_requests' = [s \in Slots |-> IF s < l THEN pending[s + 1]
                                                  ELSE read_requests[s]]
      /\ callqueue' = [i \in 1 .. l |-> i - 1]
      /\ n_read_requests' = l
      /\ pending' = <<>> /\ pc' = "idle"
      /\ next_msgid' = next_msgid
  BY DEF OnReadEnd
<1> HIDE DEF l
<1>4. \A i \in 1 .. l : i - 1 \in Slots /\ i - 1 < l /\ (i - 1) + 1 = i
  BY <1>1, <1>2 DEF Slots
<1>5. /\ callqueue' \in Seq(Slots) /\ Len(callqueue') = l
      /\ DOMAIN callqueue' = 1 .. l
      /\ \A i \in 1 .. l : callqueue'[i] = i - 1
  BY <1>1, <1>3, <1>4
<1>6. TypeConn'
  <2>1. read_requests' \in [Slots -> Requests \cup {Unused}]
    <3>1. \A s \in Slots : s < l => s + 1 \in 1 .. l
      BY <1>1 DEF Slots
    <3>2. QED
      BY <3>1, <1>1, <1>3 DEF SlotInv, TypeOK, TypeConn
  <2>2. n_read_requests' \in 0 .. (2 * MAX_REQUESTS)
    BY <1>1, <1>2, <1>3
  <2>3. pending' \in Seq(Requests)
    BY <1>3
  <2>4. QED
    BY <2>1, <2>2, <2>3, <1>3, <1>5 DEF SlotInv, TypeOK, TypeConn
<1>7. TypeControl' /\ TypeSearch' /\ TypeLdap' /\ TypeHistory'
  <2>1. TypeControl'
    BY DEF SlotInv, TypeOK, TypeControl, OnReadEnd
  <2>2. TypeSearch' /\ TypeLdap' /\ TypeHistory'
    BY DEF SlotInv, TypeOK, TypeSearch, TypeLdap, TypeHistory, OnReadEnd,
           libldap, history
  <2>3. QED
    BY <2>1, <2>2
<1>8. QueuedSlotsDistinct'
  <2>1. \A i, j \in 1 .. l : i - 1 = j - 1 => i = j
    BY <1>1
  <2>2. QED
    BY <2>1, <1>3, <1>4, <1>5 DEF QueuedSlotsDistinct
<1>9. SlotsBound'
  <2>1. Len(pending') = 0
    BY <1>3
  <2>2. QED
    BY <2>1, <1>1, <1>3, <1>5 DEF SlotsBound
<1>10. QueuedAreRequests'
  <2> SUFFICES ASSUME NEW i \in 1 .. l
               PROVE  read_requests'[callqueue'[i]] \in Requests
    BY <1>5 DEF QueuedAreRequests
  <2>1. read_requests'[i - 1] = pending[(i - 1) + 1]
    BY <1>3, <1>4
  <2>2. QED
    BY <2>1, <1>1, <1>4, <1>5
<1>11. PendingOnlyInLoop' /\ SearchIndexValid'
  BY <1>3 DEF PendingOnlyInLoop, SearchIndexValid
<1>12. QED
  BY <1>6, <1>7, <1>8, <1>9, <1>10, <1>11 DEF SlotInv, TypeOK

\* A step that leaves requests and table alone, and stays outside "idle" while
\* requests are set aside.
LEMMA QuietSlots ==
  ASSUME SlotInv, UNCHANGED <<conn, pending, next_msgid, libldap, refused, history>>,
         UNCHANGED <<search_requests, registered>>,
         TypeControl', search_index' \in Nat,
         pc' = "idle" => pc = "idle",
         pc' = "search_callback" => UNCHANGED <<pc, search_index, current>>
  PROVE  SlotInv'
<1>1. TypeConn' /\ TypeLdap' /\ TypeHistory' /\ TypeSearch'
  BY DEF SlotInv, TypeOK, TypeConn, TypeLdap, TypeHistory, TypeSearch, conn,
         libldap, history
<1>2. QueuedSlotsDistinct' /\ SlotsBound' /\ QueuedAreRequests'
  BY DEF SlotInv, QueuedSlotsDistinct, SlotsBound, QueuedAreRequests, conn
<1>3. PendingOnlyInLoop'
  BY DEF SlotInv, PendingOnlyInLoop
<1>4. SearchIndexValid'
  BY DEF SlotInv, SearchIndexValid
<1>5. QED
  BY <1>1, <1>2, <1>3, <1>4 DEF SlotInv, TypeOK

\* Issuing a request other than a search.
LEMMA IssueSlots ==
  ASSUME SlotInv, NEW op \in Ops, MayIssue(op), Enqueue(op),
         UNCHANGED <<search_requests, registered>>
  PROVE  SlotInv'
<1>1. TypeSearch' /\ SearchIndexValid'
  BY DEF SlotInv, TypeOK, TypeSearch, SearchIndexValid, Enqueue, history
<1>2. QED
  BY <1>1, EnqueueSlots DEF SlotInv, TypeOK

\* Issuing a search: the entry goes behind those a running search_on_read
\* may still need.
LEMMA SearchSlots ==
  ASSUME SlotInv, search
  PROVE  SlotInv'
<1>1. "search" \in Ops /\ MayIssue("search") /\ Enqueue("search")
  BY DEF search, MayIssue
<1>2. CASE UNCHANGED <<search_requests, registered>>
  BY <1>1, <1>2, IssueSlots
<1>3. CASE /\ search_requests' = Append(search_requests, next_msgid)
           /\ registered' = registered \cup {next_msgid}
  <2>1. next_msgid \in Msgids
    BY <1>1, MaxMsgAssumption DEF MayIssue, Msgids, SlotInv, TypeOK, TypeConn
  <2>2. search_requests \in Seq(Msgids \cup {0})
    BY DEF SlotInv, TypeOK, TypeSearch
  <2>3. /\ search_requests' \in Seq(Msgids \cup {0})
        /\ \A i \in DOMAIN search_requests :
               i \in DOMAIN search_requests' /\ search_requests'[i] = search_requests[i]
    BY <1>3, <2>1, <2>2, AppendFacts
  <2>4. TypeSearch'
    BY <1>1, <1>3, <2>1, <2>3 DEF SlotInv, TypeOK, TypeSearch, Enqueue, history
  <2>5. SearchIndexValid'
    BY <1>1, <2>3 DEF SlotInv, SearchIndexValid, Enqueue
  <2>6. QED
    BY <1>1, <2>4, <2>5, EnqueueSlots DEF SlotInv, TypeOK
<1>4. QED
  BY <1>2, <1>3 DEF search

\* Every step keeps the slots consistent.
LEMMA NextSlots == SlotInv /\ Next => SlotInv'
<1> SUFFICES ASSUME SlotInv, Next PROVE SlotInv'
  OBVIOUS
<1> USE MaxRequestsAssumption, MaxMsgAssumption
<1>1. CASE Issue
  <2>1. CASE add \/ modify \/ ld_delete \/ ld_rename \/ whoami
    <3>1. \E op \in Ops : /\ MayIssue(op) /\ Enqueue(op)
                          /\ UNCHANGED <<search_requests, registered>>
      BY <2>1 DEF add, modify, ld_delete, ld_rename, whoami, MayIssue
    <3>2. QED
      BY <3>1, IssueSlots
  <2>2. QED
    BY <1>1, <2>1, SearchSlots DEF Issue
<1>2. CASE Overrun
  <2>1. TypeControl'
    BY <1>2 DEF Overrun, SlotInv, TypeOK, TypeControl
  <2>2. search_index' \in Nat
    BY <1>2 DEF Overrun, SlotInv, TypeOK, TypeSearch
  <2>3. QED
    BY <1>2, <2>1, <2>2, QuietSlots DEF Overrun
<1>3. CASE ld_install_error_handler
  <2>1. TypeControl'
    BY <1>3 DEF ld_install_error_handler, SlotInv, TypeOK, TypeControl
  <2>2. search_index' \in Nat
    BY <1>3 DEF ld_install_error_handler, SlotInv, TypeOK, TypeSearch
  <2>3. QED
    BY <1>3, <2>1, <2>2, QuietSlots DEF ld_install_error_handler
<1>4. CASE connection_configure
  <2>1. pending = <<>> /\ pending' = <<>>
    BY <1>4 DEF connection_configure, SlotInv, PendingOnlyInLoop
  <2>2. TypeConn'
    BY <1>4, <2>1 DEF connection_configure, TypeConn
  <2>3. TypeControl'
    BY <1>4 DEF connection_configure, SlotInv, TypeOK, TypeControl
  <2>4. TypeSearch' /\ TypeLdap' /\ TypeHistory'
    BY <1>4 DEF connection_configure, SlotInv, TypeOK, TypeSearch, TypeLdap,
                TypeHistory
  <2>5. /\ QueuedSlotsDistinct' /\ SlotsBound' /\ QueuedAreRequests'
        /\ PendingOnlyInLoop' /\ SearchIndexValid'
    BY <1>4, <2>1 DEF connection_configure, QueuedSlotsDistinct, SlotsBound,
                      QueuedAreRequests, PendingOnlyInLoop, SearchIndexValid
  <2>6. QED
    BY <2>2, <2>3, <2>4, <2>5 DEF SlotInv, TypeOK
<1>5. CASE OnReadBegin
  <2>1. TypeControl'
    BY <1>5 DEF OnReadBegin, SlotInv, TypeOK, TypeControl
  <2>2. search_index' \in Nat
    BY <1>5 DEF OnReadBegin, SlotInv, TypeOK, TypeSearch
  <2>3. QED
    BY <1>5, <2>1, <2>2, QuietSlots DEF OnReadBegin
<1>6. CASE PollAnswered
  <2>1. request_queue_pop /\ UNCHANGED <<read_requests, n_read_requests, pending,
                                         next_msgid>>
    BY <1>6 DEF PollAnswered
  <2>2. /\ callqueue' \in Seq(Slots) /\ Len(callqueue') = Len(callqueue) - 1
        /\ QueuedSlotsDistinct' /\ QueuedAreRequests'
        /\ Top \in Requests /\ Top.msgid \in Msgids
    BY <2>1, PopSlots
  <2>3. TypeConn'
    BY <2>1, <2>2 DEF SlotInv, TypeOK, TypeConn
  <2>4. SlotsBound'
    BY <2>1, <2>2 DEF SlotInv, SlotsBound, TypeOK, TypeConn
  <2>5. /\ pc' \in {"loop", "search_callback", "error_callback"}
        /\ current' \in Requests \cup {Unused}
        /\ search_index' \in Nat
        /\ SearchIndexValid'
    BY <1>6, <2>2, HandlerControl DEF PollAnswered
  <2>6. TypeControl'
    BY <1>6, <2>5 DEF PollAnswered, SlotInv, TypeOK, TypeControl
  <2>7. TypeSearch'
    BY <1>6, <2>5 DEF PollAnswered, SlotInv, TypeOK, TypeSearch
  <2>8. TypeLdap'
    BY <1>6, <2>2, ResultTypes DEF PollAnswered, SlotInv, TypeOK
  <2>9. TypeHistory' /\ PendingOnlyInLoop'
    BY <1>6, <2>2, <2>5 DEF PollAnswered, SlotInv, TypeOK, TypeHistory,
                            PendingOnlyInLoop
  <2>10. QED
    BY <2>2, <2>3, <2>4, <2>5, <2>6, <2>7, <2>8, <2>9 DEF SlotInv, TypeOK
<1>7. CASE PollPending
  <2>1. request_queue_pop /\ UNCHANGED <<read_requests, n_read_requests, next_msgid>>
    BY <1>7 DEF PollPending
  <2>2. /\ callqueue' \in Seq(Slots) /\ Len(callqueue') = Len(callqueue) - 1
        /\ QueuedSlotsDistinct' /\ QueuedAreRequests'
        /\ Top \in Requests /\ Top.msgid \in Msgids /\ pc = "loop"
    BY <2>1, PopSlots
  <2>3. /\ pending' \in Seq(Requests) /\ pc' \in {"loop", "corrupted"}
        /\ Len(pending) \in Nat
        /\ Len(pending') = Len(pending) \/ Len(pending') = Len(pending) + 1
    <3>1. pending \in Seq(Requests)
      BY DEF SlotInv, TypeOK, TypeConn
    <3>2. CASE pending' = Append(pending, Top) /\ UNCHANGED pc
      BY <3>1, <3>2, <2>2, AppendFacts
    <3>3. CASE pc' = "corrupted" /\ UNCHANGED pending
      BY <3>1, <3>3
    <3>4. QED
      BY <1>7, <3>2, <3>3 DEF PollPending
  <2>4. TypeConn'
    BY <2>1, <2>2, <2>3 DEF SlotInv, TypeOK, TypeConn
  <2>5. SlotsBound'
    <3>1. /\ Len(callqueue) + Len(pending) <= n_read_requests
          /\ Len(callqueue) \in Nat /\ n_read_requests \in Nat
      BY DEF SlotInv, SlotsBound, TypeOK, TypeConn
    <3>2. \A a, b, c, n \in Nat : a + b <= n /\ (c = b \/ c = b + 1) => (a - 1) + c <= n
      OBVIOUS
    <3>3. Len(pending') \in Nat
      BY <2>3
    <3>4. (Len(callqueue) - 1) + Len(pending') <= n_read_requests
      BY <3>1, <3>2, <3>3, <2>3
    <3>5. QED
      BY <3>4, <2>1, <2>2 DEF SlotsBound
  <2>6. TypeControl'
    BY <1>7, <2>3 DEF PollPending, SlotInv, TypeOK, TypeControl
  <2>7. TypeSearch' /\ TypeHistory'
    BY <1>7 DEF PollPending, SlotInv, TypeOK, TypeSearch, TypeHistory, history
  <2>8. TypeLdap'
    BY <1>7, <2>2, ResultTypes DEF PollPending, SlotInv, TypeOK
  <2>9. PendingOnlyInLoop' /\ SearchIndexValid'
    BY <2>3 DEF PendingOnlyInLoop, SearchIndexValid
  <2>10. QED
    BY <2>2, <2>4, <2>5, <2>6, <2>7, <2>8, <2>9 DEF SlotInv, TypeOK
<1>8. CASE PollFailed \/ PollFailedNoOption
  <2>1. /\ request_queue_pop
        /\ UNCHANGED <<read_requests, n_read_requests, next_msgid, search_requests,
                       on_error_operation, current, search_index, libldap, refused,
                       registered, handled, called>>
        /\ failed' = failed \cup {Top.msgid}
        /\ \/ UNCHANGED <<pc, pending, forgotten>>
           \/ /\ pc' = "idle" /\ pending' = <<>>
              /\ forgotten' = forgotten \cup {pending[i].msgid : i \in DOMAIN pending}
    BY <1>8 DEF PollFailed, PollFailedNoOption
  <2>2. /\ callqueue' \in Seq(Slots) /\ Len(callqueue') = Len(callqueue) - 1
        /\ QueuedSlotsDistinct' /\ QueuedAreRequests'
        /\ Top \in Requests /\ Top.msgid \in Msgids /\ pc = "loop"
    BY <2>1, PopSlots
  <2>3. /\ pending' \in Seq(Requests) /\ Len(pending') \in Nat
        /\ Len(pending') <= Len(pending)
        /\ pending' = pending \/ pending' = <<>>
    <3>1. pending \in Seq(Requests) /\ Len(pending) \in Nat
      BY DEF SlotInv, TypeOK, TypeConn
    <3>2. CASE pending' = pending
      BY <3>1, <3>2
    <3>3. CASE pending' = <<>>
      <4>1. pending' \in Seq(Requests) /\ Len(pending') = 0
        BY <3>3
      <4>2. QED
        BY <4>1, <3>1, <3>3
    <3>4. QED
      BY <2>1, <3>2, <3>3
  <2>4. TypeConn'
    BY <2>1, <2>2, <2>3 DEF SlotInv, TypeOK, TypeConn
  <2>5. SlotsBound'
    <3>1. /\ Len(callqueue) + Len(pending) <= n_read_requests
          /\ Len(callqueue) \in Nat /\ n_read_requests \in Nat /\ Len(pending) \in Nat
      BY DEF SlotInv, SlotsBound, TypeOK, TypeConn
    <3>2. \A a, b, c, n \in Nat : a + b <= n /\ c <= b => (a - 1) + c <= n
      OBVIOUS
    <3>3. (Len(callqueue) - 1) + Len(pending') <= n_read_requests
      BY <3>1, <3>2, <2>3
    <3>4. QED
      BY <3>3, <2>1, <2>2 DEF SlotsBound
  <2>6. TypeControl'
    BY <2>1 DEF SlotInv, TypeOK, TypeControl
  <2>7. TypeSearch' /\ TypeLdap'
    BY <2>1 DEF SlotInv, TypeOK, TypeSearch, TypeLdap, libldap
  <2>8. TypeHistory'
    <3>1. {pending[i].msgid : i \in DOMAIN pending} \subseteq Msgids
      <4>1. \A i \in DOMAIN pending : pending[i] \in Requests
        BY DEF SlotInv, TypeOK, TypeConn
      <4>2. \A r \in Requests : r.msgid \in Msgids
        BY DEF Requests
      <4>3. QED
        BY <4>1, <4>2
    <3>2. QED
      BY <3>1, <2>1, <2>2 DEF SlotInv, TypeOK, TypeHistory
  <2>9. PendingOnlyInLoop' /\ SearchIndexValid'
    BY <2>1, <2>2 DEF PendingOnlyInLoop, SearchIndexValid
  <2>10. QED
    BY <2>2, <2>4, <2>5, <2>6, <2>7, <2>8, <2>9 DEF SlotInv, TypeOK
<1>9. CASE SearchCallbackReturns
  <2>1. search_index \in DOMAIN search_requests
    BY <1>9 DEF SearchCallbackReturns, SlotInv, SearchIndexValid
  <2>2. TypeSearch'
    <3>1. search_requests' \in Seq(Msgids \cup {0})
      BY <1>9, <2>1, RemoveSearchType
      DEF SearchCallbackReturns, SlotInv, TypeOK, TypeSearch
    <3>2. search_requests[search_index] \in Msgids \cup {0}
      BY <2>1 DEF SlotInv, TypeOK, TypeSearch
    <3>3. QED
      BY <1>9, <3>1, <3>2 DEF SearchCallbackReturns, SlotInv, TypeOK, TypeSearch
  <2>3. TypeConn' /\ TypeLdap' /\ TypeHistory'
    BY <1>9 DEF SearchCallbackReturns, SlotInv, TypeOK, TypeConn, TypeLdap,
                TypeHistory, conn, libldap
  <2>4. TypeControl'
    BY <1>9 DEF SearchCallbackReturns, SlotInv, TypeOK, TypeControl
  <2>5. /\ QueuedSlotsDistinct' /\ SlotsBound' /\ QueuedAreRequests'
        /\ PendingOnlyInLoop' /\ SearchIndexValid'
    BY <1>9 DEF SearchCallbackReturns, SlotInv, QueuedSlotsDistinct, SlotsBound,
                QueuedAreRequests, PendingOnlyInLoop, SearchIndexValid, conn
  <2>6. QED
    BY <2>2, <2>3, <2>4, <2>5 DEF SlotInv, TypeOK
<1>10. CASE ErrorCallbackReturns
  <2>1. TypeControl'
    BY <1>10 DEF ErrorCallbackReturns, Return, SlotInv, TypeOK, TypeControl
  <2>2. search_index' \in Nat
    BY <1>10 DEF ErrorCallbackReturns, Return, SlotInv, TypeOK, TypeSearch
  <2>3. pc' = "loop"
    BY <1>10 DEF ErrorCallbackReturns, Return
  <2>4. QED
    BY <1>10, <2>1, <2>2, <2>3, QuietSlots DEF ErrorCallbackReturns
<1>11. CASE OnReadEnd
  BY <1>11, OnReadEndSlots
<1>12. CASE ServerAnswers
  <2>1. PICK m \in unanswered :
            /\ unanswered' = unanswered \ {m}
            /\ wire' = Append(wire, m)
            /\ UNCHANGED <<conn, search_requests, on_error_operation, pc, pending,
                           current, search_index, next_msgid, buffered, refused,
                           registered, history>>
    BY <1>12 DEF ServerAnswers
  <2>2. TypeLdap'
    BY <2>1, AppendFacts DEF SlotInv, TypeOK, TypeLdap
  <2>3. TypeConn' /\ TypeSearch' /\ TypeHistory'
    BY <2>1 DEF SlotInv, TypeOK, TypeConn, TypeSearch, TypeHistory, conn, history
  <2>4. TypeControl'
    BY <2>1 DEF SlotInv, TypeOK, TypeControl
  <2>5. /\ QueuedSlotsDistinct' /\ SlotsBound' /\ QueuedAreRequests'
        /\ PendingOnlyInLoop' /\ SearchIndexValid'
    BY <2>1 DEF SlotInv, QueuedSlotsDistinct, SlotsBound, QueuedAreRequests,
                PendingOnlyInLoop, SearchIndexValid, conn
  <2>6. QED
    BY <2>2, <2>3, <2>4, <2>5 DEF SlotInv, TypeOK
<1>13. QED
  BY <1>1, <1>2, <1>3, <1>4, <1>5, <1>6, <1>7, <1>8, <1>9, <1>10, <1>11, <1>12
  DEF Next, OnRead

\* The invariant of the slots, for every length of the arrays.
THEOREM SlotInvariance == Spec => []SlotInv
<1>1. SlotInv /\ UNCHANGED vars => SlotInv'
  <2> SUFFICES ASSUME SlotInv, UNCHANGED vars PROVE SlotInv'
    OBVIOUS
  <2>1. TypeControl'
    BY DEF SlotInv, TypeOK, TypeControl, vars
  <2>2. search_index' \in Nat
    BY DEF SlotInv, TypeOK, TypeSearch, vars
  <2>3. QED
    BY <2>1, <2>2, QuietSlots DEF vars
<1>2. QED
  BY <1>1, InitSlots, NextSlots, PTL DEF Spec

\* Type correctness of the dispatch.
THEOREM TypeCorrect == Spec => []TypeOK
  BY SlotInvariance, PTL DEF SlotInv

\* No queue node is ever pushed while it is queued: what the intrusive queue
\* of request_queue.c asks of connection_on_read and of the request functions.
THEOREM QueuedSlotsDistinctAlways == Spec => []QueuedSlotsDistinct
  BY SlotInvariance, PTL DEF SlotInv

\* connection_remove_search_request is always called with the entry of the
\* search that was answered.
THEOREM SearchIndexAlwaysValid == Spec => []SearchIndexValid
  BY SlotInvariance, PTL DEF SlotInv

\* The queue refuses a request only when the slot array is already exhausted.
THEOREM IgnoredPushIsSafeAlways == Spec => IgnoredPushIsSafe
<1>1. SlotInv /\ [Next]_vars =>
          [refused' \subseteq refused \/ n_read_requests >= MAX_REQUESTS]_vars
  <2> SUFFICES ASSUME SlotInv, Next
               PROVE  refused' \subseteq refused \/ n_read_requests >= MAX_REQUESTS
    OBVIOUS
  <2>1. ASSUME NEW op \in Ops, Enqueue(op)
        PROVE  refused' \subseteq refused \/ n_read_requests >= MAX_REQUESTS
    <3>1. CASE Full(callqueue)
      <4>1. /\ Len(callqueue) >= MAX_REQUESTS /\ Len(callqueue) \in Nat
            /\ Len(pending) \in Nat /\ n_read_requests \in Nat
            /\ Len(callqueue) + Len(pending) <= n_read_requests
        BY <3>1 DEF Full, SlotInv, SlotsBound, TypeOK, TypeConn
      <4>2. QED
        BY <4>1, MaxRequestsAssumption
    <3>2. CASE ~Full(callqueue)
      BY <2>1, <3>2 DEF Enqueue
    <3>3. QED
      BY <3>1, <3>2
  <2>2. CASE Issue
    BY <2>1, <2>2 DEF Issue, add, modify, ld_delete, ld_rename, whoami, search,
                      MayIssue
  <2>3. CASE ~Issue
    BY <2>3 DEF Next, Overrun, ld_install_error_handler, connection_configure,
                OnRead, OnReadBegin, PollAnswered, PollPending, PollFailed,
                PollFailedNoOption, SearchCallbackReturns, ErrorCallbackReturns,
                OnReadEnd, ServerAnswers
  <2>4. QED
    BY <2>2, <2>3
<1>2. QED
  BY <1>1, SlotInvariance, PTL DEF Spec, IgnoredPushIsSafe

-----------------------------------------------------------------------------
(* No slot is leaked, and callbacks only run for answered searches.        *)

\* Between two calls of connection_on_read every slot handed out is queued.
IdleExact ==
    (pc = "idle" /\ "option_fails" \notin Faults /\ refused = {}) =>
        n_read_requests = Len(callqueue)

\* The table holds registered searches and zeroed entries.
TableRegistered == search_requests \in Seq(registered \cup {0})

\* The search whose callback runs had its answer taken.
CallbackAnswered == pc = "search_callback" => current.msgid \in handled

CallInv == TableRegistered /\ CallbackAnswered /\ CalledWereAnswered

\* Issuing a request outside connection_on_read queues the slot it takes.
LEMMA EnqueueExact ==
  ASSUME SlotInv, IdleExact, NEW op \in Ops, Enqueue(op)
  PROVE  IdleExact'
<1> SUFFICES ASSUME pc' = "idle", "option_fails" \notin Faults, refused' = {}
             PROVE  n_read_requests' = Len(callqueue')
  BY DEF IdleExact
<1>1. pc = "idle" /\ refused = {} /\ ~Full(callqueue)
  BY DEF Enqueue
<1>2. n_read_requests = Len(callqueue)
  BY <1>1 DEF IdleExact
<1>3. /\ callqueue' = Append(callqueue, n_read_requests)
      /\ n_read_requests' = n_read_requests + 1
  BY <1>1 DEF Enqueue, request_queue_push
<1>4. callqueue \in Seq(Slots) /\ n_read_requests \in Slots
  BY DEF SlotInv, TypeOK, TypeConn, Enqueue
<1>5. Len(callqueue') = Len(callqueue) + 1
  BY <1>3, <1>4, AppendFacts
<1>6. QED
  BY <1>2, <1>3, <1>5

\* Every step keeps the count exact.
LEMMA NextExact == SlotInv /\ IdleExact /\ [Next]_vars => IdleExact'
<1> SUFFICES ASSUME SlotInv, IdleExact, [Next]_vars PROVE IdleExact'
  OBVIOUS
<1>1. CASE Issue
  BY <1>1, EnqueueExact DEF Issue, add, modify, ld_delete, ld_rename, whoami,
                            search, MayIssue
<1>2. CASE OnReadEnd
  <2>1. /\ callqueue' = [i \in 1 .. Len(pending) |-> i - 1]
        /\ n_read_requests' = Len(pending)
    BY <1>2 DEF OnReadEnd
  <2>2. Len(pending) \in Nat
    BY DEF SlotInv, TypeOK, TypeConn
  <2>3. Len(callqueue') = Len(pending)
    BY <2>1, <2>2
  <2>4. QED
    BY <2>1, <2>3 DEF IdleExact
<1>3. CASE connection_configure
  BY <1>3 DEF connection_configure, IdleExact
<1>4. CASE PollAnswered
  <2>1. pc' \in {"loop", "search_callback", "error_callback"}
    BY <1>4, PopSlots, HandlerControl DEF PollAnswered
  <2>2. QED
    BY <2>1 DEF IdleExact
<1>5. CASE PollPending \/ PollFailed \/ PollFailedNoOption
  BY <1>5 DEF PollPending, PollFailed, PollFailedNoOption, request_queue_pop,
              IdleExact
<1>6. CASE \/ Overrun \/ ld_install_error_handler \/ OnReadBegin
           \/ SearchCallbackReturns \/ ErrorCallbackReturns \/ ServerAnswers
           \/ UNCHANGED vars
  BY <1>6 DEF Overrun, ld_install_error_handler, OnReadBegin,
              SearchCallbackReturns, ErrorCallbackReturns, Return, ServerAnswers,
              vars, conn, IdleExact
<1>7. QED
  BY <1>1, <1>2, <1>3, <1>4, <1>5, <1>6 DEF Next, OnRead

\* No slot is leaked between two calls of connection_on_read, and
\* n_read_requests never falls behind the requests it stands for.
THEOREM SlotsAlwaysAccounted == Spec => []SlotsAccounted
<1>1. Init => IdleExact
  BY DEF Init, IdleExact
<1>2. SlotInv /\ IdleExact => SlotsAccounted
  BY DEF SlotInv, SlotsBound, IdleExact, SlotsAccounted
<1>3. QED
  BY <1>1, <1>2, NextExact, SlotInvariance, PTL DEF Spec

\* A handler that calls the search callback was given the request whose
\* answer was just taken.
LEMMA HandlerCurrent ==
  ASSUME NEW request, on_read_operation(request)
  PROVE  pc' = "search_callback" => current' = request
<1>1. \/ Return
      \/ ReportError(request)
      \/ \E i \in Matches(request.msgid) :
            pc' = "search_callback" /\ current' = request /\ search_index' = i
  BY DEF on_read_operation, add_on_read, modify_on_read, delete_on_read,
         rename_on_read, whoami_on_read, search_on_read
<1>2. QED
  BY <1>1 DEF Return, ReportError

\* Every step keeps the table, the running callback and the history of
\* callbacks in step.
LEMMA NextCalls == SlotInv /\ CallInv /\ [Next]_vars => CallInv'
<1> SUFFICES ASSUME SlotInv, CallInv, [Next]_vars PROVE CallInv'
  OBVIOUS
<1> USE DEF CallInv
<1>1. CASE add \/ modify \/ ld_delete \/ ld_rename \/ whoami
  <2>1. \E op \in Ops : Enqueue(op) /\ UNCHANGED <<search_requests, registered>>
    BY <1>1 DEF add, modify, ld_delete, ld_rename, whoami, MayIssue
  <2>2. QED
    BY <2>1 DEF Enqueue, history, TableRegistered, CallbackAnswered,
                CalledWereAnswered
<1>2. CASE search
  <2>1. UNCHANGED <<pc, current, handled, called>>
    BY <1>2 DEF search, Enqueue, history
  <2>2. registered \subseteq registered'
    BY <1>2 DEF search
  <2>3. TableRegistered'
    <3>1. CASE UNCHANGED <<search_requests, registered>>
      BY <3>1 DEF TableRegistered
    <3>2. CASE /\ search_requests' = Append(search_requests, next_msgid)
               /\ registered' = registered \cup {next_msgid}
      <4> DEFINE S == registered \cup {next_msgid} \cup {0}
      <4>1. search_requests \in Seq(S)
        BY DEF TableRegistered
      <4>2. Append(search_requests, next_msgid) \in Seq(S)
        BY <4>1, AppendFacts
      <4>3. QED
        BY <4>2, <3>2 DEF TableRegistered
    <3>3. QED
      BY <1>2, <3>1, <3>2 DEF search
  <2>4. QED
    BY <2>1, <2>2, <2>3 DEF CallbackAnswered, CalledWereAnswered
<1>3. CASE connection_configure
  <2>1. search_requests' = <<>> /\ called' = {} /\ pc' = "idle"
    BY <1>3 DEF connection_configure
  <2>2. QED
    BY <2>1 DEF TableRegistered, CallbackAnswered, CalledWereAnswered
<1>4. CASE PollAnswered
  <2>1. /\ UNCHANGED <<search_requests, registered, called>>
        /\ handled' = handled \cup {Top.msgid}
        /\ pc' = "search_callback" => current' = Top
    BY <1>4, HandlerCurrent DEF PollAnswered
  <2>2. QED
    BY <2>1 DEF TableRegistered, CallbackAnswered, CalledWereAnswered
<1>5. CASE SearchCallbackReturns
  <2> DEFINE S == registered \cup {0}
             e == search_requests[search_index]
  <2>1. /\ search_index \in DOMAIN search_requests /\ e = current.msgid
        /\ current.msgid \in handled /\ search_requests \in Seq(S)
    BY <1>5 DEF SearchCallbackReturns, SlotInv, SearchIndexValid,
                TableRegistered, CallbackAnswered
  <2>2. e \in S
    BY <2>1
  <2>3. e # 0
    BY <2>1 DEF SlotInv, TypeOK, TypeHistory, Msgids
  <2>4. search_requests' \in Seq(S)
    <3>1. connection_remove_search_request(search_index)
      BY <1>5 DEF SearchCallbackReturns
    <3>2. QED
      BY <3>1, <2>1, RemoveSearchType
  <2>5. /\ called' = called \cup {e} /\ pc' = "loop"
        /\ registered' = registered /\ handled' = handled
    BY <1>5 DEF SearchCallbackReturns
  <2>6. QED
    BY <2>1, <2>2, <2>3, <2>4, <2>5
    DEF TableRegistered, CallbackAnswered, CalledWereAnswered
<1>6. CASE \/ Overrun \/ ld_install_error_handler \/ OnReadBegin \/ PollPending
           \/ PollFailed \/ PollFailedNoOption \/ ErrorCallbackReturns
           \/ OnReadEnd \/ ServerAnswers \/ UNCHANGED vars
  <2>1. /\ UNCHANGED <<search_requests, registered, called, handled>>
        /\ pc' = "search_callback" => pc = "search_callback" /\ current' = current
    BY <1>6 DEF Overrun, ld_install_error_handler, OnReadBegin, PollPending,
                PollFailed, PollFailedNoOption, ErrorCallbackReturns, Return,
                OnReadEnd, ServerAnswers, vars, history, request_queue_pop
  <2>2. QED
    BY <2>1 DEF TableRegistered, CallbackAnswered, CalledWereAnswered
<1>7. QED
  BY <1>1, <1>2, <1>3, <1>4, <1>5, <1>6 DEF Next, OnRead, Issue

\* A search callback only runs for a registered search whose answer was taken
\* from libldap, whatever searches the callbacks before it issued.
THEOREM CalledWereAlwaysAnswered == Spec => []CalledWereAnswered
<1>1. Init => CallInv
  BY DEF Init, CallInv, TableRegistered, CallbackAnswered, CalledWereAnswered
<1>2. CallInv => CalledWereAnswered
  BY DEF CallInv
<1>3. QED
  BY <1>1, <1>2, NextCalls, SlotInvariance, PTL DEF Spec

-----------------------------------------------------------------------------
(* Where the requests are. Each lemma says what a part of an action does   *)
(* to the sets of msgids; the invariant and the refinement both use them.  *)

\* The sets do not change when the variables they are built from do not.
LEMMA SamePlaces ==
  ASSUME UNCHANGED <<read_requests, callqueue, pending, next_msgid, handled,
                     failed, forgotten, refused>>
  PROVE  /\ QueuedMsgids' = QueuedMsgids /\ PendingMsgids' = PendingMsgids
         /\ Issued' = Issued /\ Outstanding' = Outstanding /\ GivenUp' = GivenUp
         /\ Gone' = Gone /\ QueuedOnce' = QueuedOnce /\ PendingOnce' = PendingOnce
  BY DEF QueuedMsgids, PendingMsgids, Issued, Outstanding, GivenUp, Gone,
         QueuedOnce, PendingOnce, SlotMsgid

\* A request that is issued is queued or refused; it was not issued before.
LEMMA IssuePlaces ==
  ASSUME SlotInv, NEW op \in Ops, MayIssue(op), Enqueue(op)
  PROVE  /\ next_msgid \in Msgids /\ next_msgid \notin Issued
         /\ Issued' = Issued \cup {next_msgid}
         /\ PendingMsgids' = PendingMsgids /\ PendingOnce' = PendingOnce
         /\ UNCHANGED <<handled, failed, forgotten, pc>>
         /\ \/ /\ QueuedMsgids' = QueuedMsgids \cup {next_msgid}
               /\ refused' = refused
               /\ QueuedOnce /\ next_msgid \notin QueuedMsgids => QueuedOnce'
            \/ /\ QueuedMsgids' = QueuedMsgids
               /\ refused' = refused \cup {next_msgid}
               /\ QueuedOnce => QueuedOnce'
<1> DEFINE n == n_read_requests
           m == next_msgid
           q == callqueue
<1> USE MaxRequestsAssumption, MaxMsgAssumption
<1>1. m \in Nat /\ m >= 1 /\ m <= MaxMsg /\ m' = m + 1
  BY DEF SlotInv, TypeOK, TypeConn, MayIssue, Enqueue
<1>2. m \in Msgids /\ m \notin Issued /\ Issued' = Issued \cup {m}
  BY <1>1 DEF Msgids, Issued
<1>3. /\ PendingMsgids' = PendingMsgids /\ PendingOnce' = PendingOnce
      /\ UNCHANGED <<handled, failed, forgotten, pc>>
  BY DEF Enqueue, PendingMsgids, PendingOnce, history
<1>4. /\ q \in Seq(Slots) /\ n \in Slots
      /\ DOMAIN q = 1 .. Len(q) /\ Len(q) \in Nat
      /\ \A i \in DOMAIN q : q[i] \in Slots /\ q[i] < n
  BY DEF SlotInv, TypeOK, TypeConn, QueuedSlotsDistinct, Enqueue
<1>5. /\ read_requests' = [read_requests EXCEPT ![n] = [msgid |-> m, op |-> op]]
      /\ read_requests \in [Slots -> Requests \cup {Unused}]
  BY DEF Enqueue, SlotInv, TypeOK, TypeConn
<1>6. /\ read_requests'[n].msgid = m
      /\ \A i \in DOMAIN q : read_requests'[q[i]] = read_requests[q[i]]
  <2>1. \A i \in DOMAIN q : q[i] # n
    BY <1>4 DEF Slots
  <2>2. QED
    BY <2>1, <1>4, <1>5
<1>7. CASE Full(q)
  <2>1. callqueue' = q /\ refused' = refused \cup {m}
    BY <1>7 DEF Enqueue, request_queue_push
  <2>2. QueuedMsgids' = QueuedMsgids
    BY <2>1, <1>6 DEF QueuedMsgids, SlotMsgid
  <2>3. QueuedOnce => QueuedOnce'
    BY <2>1, <1>6 DEF QueuedOnce, SlotMsgid
  <2>4. QED
    BY <2>1, <2>2, <2>3, <1>2, <1>3
<1>8. CASE ~Full(q)
  <2> DEFINE a == Append(q, n)
             l == Len(q)
  <2>1. callqueue' = a /\ refused' = refused
    BY <1>8 DEF Enqueue, request_queue_push
  <2>2. /\ DOMAIN a = 1 .. (l + 1) /\ a[l + 1] = n
        /\ \A i \in 1 .. l : a[i] = q[i]
    BY <1>4, AppendFacts
  <2> HIDE DEF a
  <2>3. /\ \A i \in DOMAIN a : \/ i \in DOMAIN q /\ read_requests'[a[i]].msgid
                                                   = read_requests[q[i]].msgid
                               \/ i = l + 1 /\ read_requests'[a[i]].msgid = m
        /\ DOMAIN q \subseteq DOMAIN a /\ l + 1 \in DOMAIN a
        /\ \A i \in DOMAIN q : a[i] = q[i]
    <3>1. \A i \in DOMAIN a : i \in DOMAIN q \/ i = l + 1
      BY <2>2, <1>4
    <3>2. DOMAIN q \subseteq DOMAIN a /\ l + 1 \in DOMAIN a
      BY <2>2, <1>4
    <3>3. \A i \in DOMAIN q : a[i] = q[i]
      BY <2>2, <1>4
    <3>4. QED
      BY <3>1, <3>2, <3>3, <2>2, <1>6
  <2> HIDE DEF l, m, n, q
  <2>4. QueuedMsgids' = QueuedMsgids \cup {m}
    <3>1. /\ QueuedMsgids' = {read_requests'[a[i]].msgid : i \in DOMAIN a}
          /\ QueuedMsgids = {read_requests[q[i]].msgid : i \in DOMAIN q}
      BY <2>1 DEF QueuedMsgids, SlotMsgid, q
    <3>2. read_requests'[a[l + 1]].msgid = m
      BY <2>2, <1>6
    <3>3. \A i \in DOMAIN q : read_requests'[a[i]].msgid = read_requests[q[i]].msgid
      BY <2>3, <1>6
    <3>4. QED
      BY <3>1, <3>2, <3>3, <2>3
  <2>5. ASSUME QueuedOnce, m \notin QueuedMsgids
        PROVE  QueuedOnce'
    <3>1. \A i \in DOMAIN q : read_requests[q[i]].msgid # m
      BY <2>5 DEF QueuedMsgids, SlotMsgid, q
    <3>2. \A i, j \in DOMAIN q :
              read_requests[q[i]].msgid = read_requests[q[j]].msgid => i = j
      BY <2>5 DEF QueuedOnce, SlotMsgid, q
    <3>3. \A i, j \in DOMAIN a :
              read_requests'[a[i]].msgid = read_requests'[a[j]].msgid => i = j
      BY <3>1, <3>2, <2>3
    <3>4. QED
      BY <3>3, <2>1 DEF QueuedOnce, SlotMsgid
  <2>6. QED
    BY <2>1, <2>4, <2>5, <1>2, <1>3 DEF m
<1>9. QED
  BY <1>7, <1>8

\* Popping takes one request out of the queue, and no other.
LEMMA PopPlaces ==
  ASSUME SlotInv, QueuedOnce, request_queue_pop, UNCHANGED read_requests
  PROVE  /\ Top.msgid \in QueuedMsgids
         /\ QueuedMsgids' = QueuedMsgids \ {Top.msgid}
         /\ QueuedOnce'
<1> DEFINE q == callqueue
           t == Tail(callqueue)
           id(i) == read_requests[q[i]].msgid
<1>1. q \in Seq(Slots) /\ q # <<>> /\ callqueue' = t
  BY DEF SlotInv, TypeOK, TypeConn, request_queue_pop
<1>2. /\ Len(q) \in Nat /\ Len(q) > 0 /\ DOMAIN q = 1 .. Len(q)
      /\ DOMAIN t = 1 .. (Len(q) - 1)
      /\ \A i \in 1 .. (Len(q) - 1) : t[i] = q[i + 1]
      /\ Head(q) = q[1] /\ 1 \in DOMAIN q
  BY <1>1, TailFacts
<1>3. Top.msgid = id(1)
  BY <1>2 DEF Top
<1> HIDE DEF t
<1>4. /\ \A i \in DOMAIN t : i \in Int /\ i + 1 \in DOMAIN q /\ i + 1 # 1 /\ t[i] = q[i + 1]
      /\ \A j \in DOMAIN q : j # 1 => j - 1 \in DOMAIN t /\ t[j - 1] = q[j]
  BY <1>2
<1>5. /\ QueuedMsgids = {id(i) : i \in DOMAIN q}
      /\ QueuedMsgids' = {read_requests[t[i]].msgid : i \in DOMAIN t}
      /\ \A i, j \in DOMAIN q : id(i) = id(j) => i = j
  BY <1>1 DEF QueuedMsgids, QueuedOnce, SlotMsgid
<1>6. QueuedMsgids' \subseteq QueuedMsgids \ {id(1)}
  <2> SUFFICES ASSUME NEW i \in DOMAIN t
               PROVE  read_requests[t[i]].msgid \in QueuedMsgids \ {id(1)}
    BY <1>5
  <2>1. read_requests[t[i]].msgid = id(i + 1) /\ i + 1 \in DOMAIN q /\ i + 1 # 1
    BY <1>4
  <2>2. QED
    BY <2>1, <1>2, <1>5
<1>7. QueuedMsgids \ {id(1)} \subseteq QueuedMsgids'
  <2> SUFFICES ASSUME NEW j \in DOMAIN q, id(j) # id(1)
               PROVE  id(j) \in QueuedMsgids'
    BY <1>5
  <2>1. j - 1 \in DOMAIN t /\ read_requests[t[j - 1]].msgid = id(j)
    BY <1>4
  <2>2. QED
    BY <2>1, <1>5
<1>8. QueuedOnce'
  <2> SUFFICES ASSUME NEW i \in DOMAIN t, NEW j \in DOMAIN t,
                      read_requests[t[i]].msgid = read_requests[t[j]].msgid
               PROVE  i = j
    BY <1>1 DEF QueuedOnce, SlotMsgid
  <2>1. id(i + 1) = id(j + 1) /\ i + 1 \in DOMAIN q /\ j + 1 \in DOMAIN q
    BY <1>4
  <2>2. i + 1 = j + 1
    BY <2>1, <1>5
  <2>3. QED
    BY <2>2, <1>4
<1>9. id(1) \in QueuedMsgids
  BY <1>2, <1>5
<1>10. QED
  BY <1>3, <1>6, <1>7, <1>8, <1>9

\* Setting a request aside adds it to the pending ones.
LEMMA PendPlaces ==
  ASSUME pending \in Seq(Requests), NEW r \in Requests,
         pending' = Append(pending, r)
  PROVE  /\ PendingMsgids' = PendingMsgids \cup {r.msgid}
         /\ PendingOnce /\ r.msgid \notin PendingMsgids => PendingOnce'
<1> DEFINE a == Append(pending, r)
           l == Len(pending)
<1>1. /\ l \in Nat /\ DOMAIN pending = 1 .. l /\ DOMAIN a = 1 .. (l + 1)
      /\ \A i \in 1 .. l : a[i] = pending[i]
      /\ a[l + 1] = r
  BY AppendFacts
<1>2. pending' = a
  OBVIOUS
<1> HIDE DEF a, l
<1>3. /\ \A i \in DOMAIN a : \/ i \in DOMAIN pending /\ a[i] = pending[i]
                             \/ i = l + 1 /\ a[i] = r
      /\ DOMAIN pending \subseteq DOMAIN a /\ l + 1 \in DOMAIN a
  BY <1>1
<1>4. PendingMsgids' = PendingMsgids \cup {r.msgid}
  <2>1. PendingMsgids' = {a[i].msgid : i \in DOMAIN a}
    BY <1>2 DEF PendingMsgids
  <2>2. \A i \in DOMAIN pending : a[i] = pending[i]
    BY <1>1
  <2>3. QED
    BY <2>1, <2>2, <1>1, <1>3 DEF PendingMsgids
<1>5. ASSUME PendingOnce, r.msgid \notin PendingMsgids
      PROVE  PendingOnce'
  <2>1. \A i \in DOMAIN pending : pending[i].msgid # r.msgid
    BY <1>5 DEF PendingMsgids
  <2>2. \A i, j \in DOMAIN a : a[i].msgid = a[j].msgid => i = j
    BY <1>3, <1>5, <2>1 DEF PendingOnce
  <2>3. QED
    BY <2>2, <1>2 DEF PendingOnce
<1>6. QED
  BY <1>4, <1>5

\* When connection_on_read ends, the queue holds what was pending.
LEMMA EndPlaces ==
  ASSUME SlotInv, OnReadEnd
  PROVE  /\ QueuedMsgids = {} /\ QueuedMsgids' = PendingMsgids
         /\ PendingMsgids' = {} /\ PendingOnce'
         /\ PendingOnce => QueuedOnce'
<1> DEFINE l == Len(pending)
<1> USE MaxRequestsAssumption
<1>1. /\ l \in Nat /\ DOMAIN pending = 1 .. l
      /\ n_read_requests \in 0 .. (2 * MAX_REQUESTS) /\ callqueue = <<>>
  BY DEF SlotInv, TypeOK, TypeConn, OnReadEnd
<1>2. l <= n_read_requests
  BY <1>1 DEF SlotInv, SlotsBound
<1>3. /\ read_requests' = [s \in Slots |-> IF s < l THEN pending[s + 1]
                                                  ELSE read_requests[s]]
      /\ callqueue' = [i \in 1 .. l |-> i - 1]
      /\ pending' = <<>>
  BY DEF OnReadEnd
<1> HIDE DEF l
<1>4. \A i \in 1 .. l : i - 1 \in Slots /\ i - 1 < l /\ (i - 1) + 1 = i
  BY <1>1, <1>2 DEF Slots
<1>5. DOMAIN callqueue' = 1 .. l
  BY <1>3
<1>6. \A i \in 1 .. l : read_requests'[callqueue'[i]] = pending[i]
  <2> TAKE i \in 1 .. l
  <2>1. callqueue'[i] = i - 1
    BY <1>3
  <2>2. read_requests'[i - 1] = pending[(i - 1) + 1]
    BY <1>3, <1>4
  <2>3. QED
    BY <2>1, <2>2, <1>4
<1>7. QueuedMsgids' = PendingMsgids
  BY <1>1, <1>5, <1>6 DEF QueuedMsgids, PendingMsgids, SlotMsgid
<1>8. PendingOnce => QueuedOnce'
  BY <1>1, <1>5, <1>6 DEF QueuedOnce, PendingOnce, SlotMsgid
<1>9. QueuedMsgids = {} /\ PendingMsgids' = {} /\ PendingOnce'
  BY <1>1, <1>3 DEF QueuedMsgids, PendingMsgids, PendingOnce
<1>10. QED
  BY <1>7, <1>8, <1>9

-----------------------------------------------------------------------------
(* No request is duplicated or lost.                                       *)

PlaceInv == SlotInv /\ EveryRequestInOnePlace

\* Nothing was issued on a new connection.
LEMMA InitPlaces == Init => EveryRequestInOnePlace
  BY DEF Init, EveryRequestInOnePlace, Issued, Outstanding, QueuedMsgids,
         PendingMsgids, GivenUp, QueuedOnce, PendingOnce

\* Every step moves a request from one place to one other place. A thread
\* that ran past the end of its arrays does nothing more.
LEMMA NextPlaces == PlaceInv /\ Next => EveryRequestInOnePlace'
<1> SUFFICES ASSUME SlotInv, EveryRequestInOnePlace, Next, pc' # "corrupted"
             PROVE  EveryRequestInOnePlace'
  BY DEF PlaceInv, EveryRequestInOnePlace
<1>1. pc # "corrupted"
  <2>1. CASE Issue
    BY <2>1 DEF Issue, add, modify, ld_delete, ld_rename, whoami, search,
                MayIssue, InApplication
  <2>2. CASE ServerAnswers
    BY <2>2 DEF ServerAnswers
  <2>3. CASE OnRead
    BY <2>3 DEF OnRead, OnReadBegin, PollAnswered, PollPending, PollFailed,
                PollFailedNoOption, SearchCallbackReturns, ErrorCallbackReturns,
                OnReadEnd, request_queue_pop
  <2>4. CASE Overrun \/ ld_install_error_handler \/ connection_configure
    BY <2>4 DEF Overrun, ld_install_error_handler, connection_configure, MayIssue,
                InApplication
  <2>5. QED
    BY <2>1, <2>2, <2>3, <2>4 DEF Next
<1>2. /\ Issued = Outstanding \cup handled \cup GivenUp
      /\ QueuedOnce /\ PendingOnce
      /\ QueuedMsgids \cap PendingMsgids = {}
      /\ Outstanding \cap (handled \cup GivenUp) = {}
      /\ handled \cap GivenUp = {}
  BY <1>1 DEF EveryRequestInOnePlace
<1>3. CASE Issue
  <2>1. PICK op \in Ops : MayIssue(op) /\ Enqueue(op)
    BY <1>3 DEF Issue, add, modify, ld_delete, ld_rename, whoami, search, MayIssue
  <2>2. /\ next_msgid \notin Issued /\ Issued' = Issued \cup {next_msgid}
        /\ PendingMsgids' = PendingMsgids /\ PendingOnce'
        /\ UNCHANGED <<handled, failed, forgotten>>
    BY <2>1, <1>2, IssuePlaces
  <2>3. next_msgid \notin QueuedMsgids /\ next_msgid \notin PendingMsgids
        /\ next_msgid \notin handled \cup GivenUp
    BY <2>2, <1>2 DEF Outstanding
  <2>4. /\ QueuedOnce'
        /\ \/ QueuedMsgids' = QueuedMsgids \cup {next_msgid} /\ refused' = refused
           \/ QueuedMsgids' = QueuedMsgids /\ refused' = refused \cup {next_msgid}
    BY <2>1, <2>3, <1>2, IssuePlaces
  <2>5. QED
    BY <2>2, <2>3, <2>4, <1>2 DEF EveryRequestInOnePlace, Outstanding, GivenUp
<1>4. CASE \/ Overrun \/ ld_install_error_handler \/ OnReadBegin
           \/ SearchCallbackReturns \/ ErrorCallbackReturns \/ ServerAnswers
  <2>1. UNCHANGED <<read_requests, callqueue, pending, next_msgid, handled,
                    failed, forgotten, refused>>
    BY <1>4 DEF Overrun, ld_install_error_handler, OnReadBegin,
                SearchCallbackReturns, ErrorCallbackReturns, ServerAnswers, conn,
                history
  <2>2. QED
    BY <2>1, <1>2, SamePlaces DEF EveryRequestInOnePlace
<1>5. CASE connection_configure
  <2>1. pending' = <<>>
    BY <1>5 DEF connection_configure, SlotInv, PendingOnlyInLoop
  <2>2. QED
    BY <1>5, <2>1 DEF connection_configure, EveryRequestInOnePlace, Issued,
       Outstanding, QueuedMsgids, PendingMsgids, GivenUp, QueuedOnce, PendingOnce
<1>6. ASSUME request_queue_pop, UNCHANGED <<read_requests, next_msgid>>
      PROVE  /\ Top.msgid \in QueuedMsgids
             /\ QueuedMsgids' = QueuedMsgids \ {Top.msgid}
             /\ QueuedOnce' /\ Issued' = Issued
  BY <1>2, <1>6, PopPlaces DEF Issued
<1>7. CASE PollAnswered
  <2>1. /\ Top.msgid \in QueuedMsgids /\ QueuedOnce' /\ Issued' = Issued
        /\ QueuedMsgids' = QueuedMsgids \ {Top.msgid}
    BY <1>6, <1>7 DEF PollAnswered
  <2>2. /\ handled' = handled \cup {Top.msgid} /\ GivenUp' = GivenUp
        /\ PendingMsgids' = PendingMsgids /\ PendingOnce'
    BY <1>2, <1>7 DEF PollAnswered, GivenUp, PendingMsgids, PendingOnce
  <2>3. QED
    BY <2>1, <2>2, <1>2 DEF EveryRequestInOnePlace, Outstanding
<1>8. CASE PollPending
  <2>1. /\ Top.msgid \in QueuedMsgids /\ QueuedOnce' /\ Issued' = Issued
        /\ QueuedMsgids' = QueuedMsgids \ {Top.msgid}
    BY <1>6, <1>8 DEF PollPending
  <2>2. handled' = handled /\ GivenUp' = GivenUp
    BY <1>8 DEF PollPending, GivenUp, history
  <2>3. pending' = Append(pending, Top)
    BY <1>8 DEF PollPending
  <2>4. Top \in Requests /\ pending \in Seq(Requests)
    BY <1>8, PopSlots DEF PollPending, SlotInv, TypeOK, TypeConn
  <2>5. Top.msgid \notin PendingMsgids
    BY <2>1, <1>2
  <2>6. PendingMsgids' = PendingMsgids \cup {Top.msgid} /\ PendingOnce'
    BY <2>3, <2>4, <2>5, <1>2, PendPlaces
  <2>7. QED
    BY <2>1, <2>2, <2>5, <2>6, <1>2 DEF EveryRequestInOnePlace, Outstanding
<1>9. CASE PollFailed
  <2>1. /\ Top.msgid \in QueuedMsgids /\ QueuedOnce' /\ Issued' = Issued
        /\ QueuedMsgids' = QueuedMsgids \ {Top.msgid}
    BY <1>6, <1>9 DEF PollFailed
  <2>2. /\ handled' = handled /\ GivenUp' = GivenUp \cup {Top.msgid}
        /\ PendingMsgids' = PendingMsgids /\ PendingOnce'
    BY <1>2, <1>9 DEF PollFailed, GivenUp, PendingMsgids, PendingOnce
  <2>3. QED
    BY <2>1, <2>2, <1>2 DEF EveryRequestInOnePlace, Outstanding
<1>10. CASE PollFailedNoOption
  <2>1. /\ Top.msgid \in QueuedMsgids /\ QueuedOnce' /\ Issued' = Issued
        /\ QueuedMsgids' = QueuedMsgids \ {Top.msgid}
    BY <1>6, <1>10 DEF PollFailedNoOption
  <2>2. handled' = handled /\ GivenUp' = GivenUp \cup {Top.msgid} \cup PendingMsgids
    BY <1>10 DEF PollFailedNoOption, GivenUp, PendingMsgids
  <2>3. PendingMsgids' = {} /\ PendingOnce'
    BY <1>10 DEF PollFailedNoOption, PendingMsgids, PendingOnce
  <2>4. QED
    BY <2>1, <2>2, <2>3, <1>2 DEF EveryRequestInOnePlace, Outstanding
<1>11. CASE OnReadEnd
  <2>1. /\ QueuedMsgids = {} /\ QueuedMsgids' = PendingMsgids
        /\ PendingMsgids' = {} /\ PendingOnce' /\ QueuedOnce'
    BY <1>2, <1>11, EndPlaces
  <2>2. Issued' = Issued /\ handled' = handled /\ GivenUp' = GivenUp
    BY <1>11 DEF OnReadEnd, Issued, GivenUp, history
  <2>3. QED
    BY <2>1, <2>2, <1>2 DEF EveryRequestInOnePlace, Outstanding
<1>12. QED
  BY <1>3, <1>4, <1>5, <1>7, <1>8, <1>9, <1>10, <1>11 DEF Next, OnRead

\* Both invariants together.
THEOREM PlaceInvariance == Spec => []PlaceInv
<1>1. PlaceInv /\ UNCHANGED vars => EveryRequestInOnePlace'
  BY SamePlaces DEF PlaceInv, EveryRequestInOnePlace, vars, conn, history
<1>2. SlotInv /\ EveryRequestInOnePlace /\ [Next]_vars => EveryRequestInOnePlace'
  BY <1>1, NextPlaces DEF PlaceInv
<1>3. QED
  BY <1>2, InitPlaces, SlotInvariance, PTL DEF Spec, PlaceInv

\* Whatever the callbacks issue in the middle of connection_on_read, in
\* whatever order the server answers and whichever calls fail: each request
\* is in exactly one place.
THEOREM EveryRequestAlwaysInOnePlace == Spec => []EveryRequestInOnePlace
  BY PlaceInvariance, PTL DEF PlaceInv

-----------------------------------------------------------------------------
(* Without faults the table of searches keeps no entry of a search that is *)
(* over.                                                                   *)

Waiting ==
    {read_requests[callqueue[i]] : i \in DOMAIN callqueue} \cup
    {pending[i] : i \in DOMAIN pending}

\* A search has one entry, so that removing it leaves none behind.
EntriesDistinct ==
    \A i, j \in DOMAIN search_requests :
        (search_requests[i] = search_requests[j] /\ search_requests[i] # 0) => i = j

\* Handlers other than search_on_read need not look at the table.
OnlySearchesHaveEntries ==
    pc # "corrupted" =>
        \A r \in Waiting : r.op # "search" => r.msgid \notin ToSet(search_requests)

\* The search whose callback runs is the only one that is over and still has
\* its entry.
EntriesLive ==
    pc # "corrupted" =>
        \A i \in DOMAIN search_requests :
            \/ search_requests[i] \in Outstanding \cup refused \cup {0}
            \/ pc = "search_callback" /\ search_requests[i] = current.msgid

TableInv == EntriesDistinct /\ OnlySearchesHaveEntries /\ EntriesLive

\* What connection_remove_search_request leaves, entry by entry.
LEMMA RemoveEntries ==
  ASSUME NEW S, search_requests \in Seq(S), NEW index \in DOMAIN search_requests,
         connection_remove_search_request(index)
  PROVE  /\ DOMAIN search_requests' = 1 .. (Len(search_requests) - 1)
         /\ \/ \A k \in 1 .. (Len(search_requests) - 1) :
                  search_requests'[k] = IF k < index THEN search_requests[k]
                                                     ELSE search_requests[k + 1]
            \/ /\ index = n_read_requests
               /\ \A k \in 1 .. (Len(search_requests) - 1) :
                     search_requests'[k] = IF k = index THEN 0 ELSE search_requests[k]
<1> DEFINE s == search_requests
           l == Len(search_requests)
<1>1. s \in Seq(S) /\ l \in Nat /\ index \in 1 .. l /\ DOMAIN s = 1 .. l
  OBVIOUS
<1>2. CASE search_requests' = RemoveAt(s, index)
  <2> DEFINE a == SubSeq(s, 1, index - 1)
             b == SubSeq(s, index + 1, l)
  <2>1. /\ a \in Seq(S) /\ Len(a) = index - 1
        /\ \A k \in 1 .. (index - 1) : a[k] = s[k]
    BY <1>1
  <2>2. /\ b \in Seq(S) /\ Len(b) = l - index
        /\ \A k \in 1 .. (l - index) : b[k] = s[index + k]
    BY <1>1
  <2>3. search_requests' = a \o b
    BY <1>2 DEF RemoveAt
  <2> HIDE DEF a, b
  <2>4. /\ DOMAIN (a \o b) = 1 .. (l - 1)
        /\ \A k \in 1 .. (l - 1) :
              (a \o b)[k] = IF k <= index - 1 THEN a[k] ELSE b[k - (index - 1)]
    <3>1. /\ a \o b \in Seq(S) /\ Len(a \o b) = Len(a) + Len(b)
          /\ \A k \in 1 .. (Len(a) + Len(b)) :
                (a \o b)[k] = IF k <= Len(a) THEN a[k] ELSE b[k - Len(a)]
      BY <2>1, <2>2, ConcatProperties
    <3>2. Len(a) + Len(b) = l - 1
      BY <2>1, <2>2, <1>1
    <3>3. DOMAIN (a \o b) = 1 .. Len(a \o b)
      BY <3>1
    <3>4. QED
      BY <3>1, <3>2, <3>3, <2>1
  <2>5. ASSUME NEW k \in 1 .. (l - 1)
        PROVE  (a \o b)[k] = IF k < index THEN s[k] ELSE s[k + 1]
    <3>1. CASE k < index
      <4>1. k \in 1 .. (index - 1)
        BY <3>1, <1>1
      <4>2. QED
        BY <4>1, <3>1, <2>1, <2>4
    <3>2. CASE ~(k < index)
      <4> DEFINE j == k - (index - 1)
      <4>1. j \in 1 .. (l - index) /\ index + j = k + 1 /\ ~(k <= index - 1)
        BY <3>2, <1>1
      <4>2. (a \o b)[k] = b[j]
        BY <4>1, <2>4
      <4>3. b[j] = s[index + j]
        BY <4>1, <2>2
      <4>4. QED
        BY <4>1, <4>2, <4>3, <3>2
    <3>3. QED
      BY <3>1, <3>2
  <2>6. QED
    BY <2>3, <2>4, <2>5
<1>3. CASE index = n_read_requests /\ search_requests' = Front(ReplaceAt(s, index, 0))
  <2> DEFINE t == ReplaceAt(s, index, 0)
  <2>1. /\ Len(t) = l /\ t \in Seq(S \cup {0})
        /\ \A k \in 1 .. l : t[k] = IF k = index THEN 0 ELSE s[k]
    BY <1>1 DEF ReplaceAt
  <2>2. search_requests' = SubSeq(t, 1, Len(t) - 1)
    BY <1>3 DEF Front
  <2> HIDE DEF t
  <2>3. /\ DOMAIN SubSeq(t, 1, Len(t) - 1) = 1 .. (l - 1)
        /\ \A k \in 1 .. (l - 1) : SubSeq(t, 1, Len(t) - 1)[k] = t[k]
    BY <2>1, <1>1
  <2>4. \A k \in 1 .. (l - 1) : k \in 1 .. l
    BY <1>1
  <2>5. QED
    BY <1>3, <2>1, <2>2, <2>3, <2>4
<1>4. QED
  BY <1>2, <1>3 DEF connection_remove_search_request

\* Removing the one entry of a search leaves the other entries distinct and
\* the search without one.
LEMMA RemoveOne ==
  ASSUME NEW S, search_requests \in Seq(S), NEW index \in DOMAIN search_requests,
         connection_remove_search_request(index),
         EntriesDistinct, search_requests[index] # 0
  PROVE  /\ EntriesDistinct'
         /\ \A k \in DOMAIN search_requests' :
               \/ search_requests'[k] = 0
               \/ /\ search_requests'[k] # search_requests[index]
                  /\ \E j \in DOMAIN search_requests :
                        search_requests'[k] = search_requests[j]
<1> DEFINE s == search_requests
           t == search_requests'
           l == Len(search_requests)
           from(k) == IF k < index THEN k ELSE k + 1
<1>1. l \in Nat /\ DOMAIN s = 1 .. l /\ index \in 1 .. l /\ DOMAIN t = 1 .. (l - 1)
  BY RemoveEntries
<1>2. CASE \A k \in 1 .. (l - 1) : t[k] = IF k < index THEN s[k] ELSE s[k + 1]
  <2>1. \A k \in 1 .. (l - 1) : from(k) \in 1 .. l /\ from(k) # index /\ t[k] = s[from(k)]
    BY <1>1, <1>2
  <2>2. \A j, k \in 1 .. (l - 1) : from(j) = from(k) => j = k
    BY <1>1
  <2> HIDE DEF from, l, s, t
  <2>3. \A j, k \in 1 .. l : s[j] = s[k] /\ s[j] # 0 => j = k
    BY <1>1 DEF EntriesDistinct, s
  <2>4. \A j, k \in DOMAIN t : t[j] = t[k] /\ t[j] # 0 => j = k
    BY <2>1, <2>2, <2>3, <1>1
  <2>5. \A k \in DOMAIN t : t[k] # 0 => t[k] # s[index] /\ \E j \in DOMAIN s : t[k] = s[j]
    BY <2>1, <2>3, <1>1
  <2>6. QED
    BY <2>4, <2>5 DEF EntriesDistinct, s, t
<1>3. CASE \A k \in 1 .. (l - 1) : t[k] = IF k = index THEN 0 ELSE s[k]
  <2>1. \A k \in 1 .. (l - 1) : k \in 1 .. l
    BY <1>1
  <2> HIDE DEF l, s, t
  <2>2. \A j, k \in 1 .. l : s[j] = s[k] /\ s[j] # 0 => j = k
    BY <1>1 DEF EntriesDistinct, s
  <2>3. \A j, k \in DOMAIN t : t[j] = t[k] /\ t[j] # 0 => j = k
    BY <2>1, <2>2, <1>1, <1>3
  <2>4. \A k \in DOMAIN t : t[k] # 0 => t[k] # s[index] /\ \E j \in DOMAIN s : t[k] = s[j]
    BY <2>1, <2>2, <1>1, <1>3
  <2>5. QED
    BY <2>3, <2>4 DEF EntriesDistinct, s, t
<1>4. QED
  BY <1>2, <1>3, RemoveEntries

\* No step but issuing a request makes another request wait.
LEMMA WaitingShrinks ==
  ASSUME SlotInv, OnRead
  PROVE  Waiting' \subseteq Waiting
<1>1. CASE OnReadBegin \/ SearchCallbackReturns \/ ErrorCallbackReturns
  BY <1>1 DEF OnReadBegin, SearchCallbackReturns, ErrorCallbackReturns, conn, Waiting
<1>2. ASSUME request_queue_pop, UNCHANGED read_requests
      PROVE  /\ {read_requests'[callqueue'[i]] : i \in DOMAIN callqueue'} \subseteq Waiting
             /\ Top \in Waiting
  <2>1. callqueue \in Seq(Slots) /\ callqueue # <<>> /\ callqueue' = Tail(callqueue)
    BY <1>2 DEF SlotInv, TypeOK, TypeConn, request_queue_pop
  <2>2. /\ \A i \in DOMAIN callqueue' :
               i + 1 \in DOMAIN callqueue /\ callqueue'[i] = callqueue[i + 1]
        /\ 1 \in DOMAIN callqueue /\ Head(callqueue) = callqueue[1]
    <3>1. /\ Len(callqueue) \in Nat /\ DOMAIN callqueue = 1 .. Len(callqueue)
          /\ DOMAIN Tail(callqueue) = 1 .. (Len(callqueue) - 1)
          /\ \A i \in 1 .. (Len(callqueue) - 1) : Tail(callqueue)[i] = callqueue[i + 1]
          /\ 1 \in DOMAIN callqueue /\ Head(callqueue) = callqueue[1]
      BY <2>1, TailFacts
    <3>2. QED
      BY <3>1, <2>1
  <2>3. QED
    BY <2>2, <1>2 DEF Waiting, Top
<1>3. CASE PollAnswered \/ PollFailed
  <2>1. request_queue_pop /\ UNCHANGED <<read_requests, pending>>
    BY <1>3 DEF PollAnswered, PollFailed
  <2>2. QED
    BY <2>1, <1>2 DEF Waiting
<1>4. CASE PollPending
  <2>1. request_queue_pop /\ UNCHANGED read_requests
    BY <1>4 DEF PollPending
  <2>2. pending' = pending \/ pending' = Append(pending, Top)
    BY <1>4 DEF PollPending
  <2>3. CASE pending' = pending
    BY <2>1, <2>3, <1>2 DEF Waiting
  <2>4. CASE pending' = Append(pending, Top)
    <3>1. Top \in Requests /\ pending \in Seq(Requests)
      BY <1>4, PopSlots DEF PollPending, SlotInv, TypeOK, TypeConn
    <3>2. \A i \in DOMAIN pending' : \/ i \in DOMAIN pending /\ pending'[i] = pending[i]
                                     \/ pending'[i] = Top
      <4> DEFINE a == Append(pending, Top)
                 l == Len(pending)
      <4>1. /\ l \in Nat /\ DOMAIN pending = 1 .. l /\ DOMAIN a = 1 .. (l + 1)
            /\ \A i \in 1 .. l : a[i] = pending[i]
            /\ a[l + 1] = Top
        BY <3>1, AppendFacts
      <4>2. pending' = a
        BY <2>4
      <4> HIDE DEF a, l
      <4>3. \A i \in DOMAIN a : i \in 1 .. l \/ i = l + 1
        BY <4>1
      <4>4. QED
        BY <4>1, <4>2, <4>3
    <3>3. QED
      BY <3>2, <2>1, <1>2 DEF Waiting
  <2>5. QED
    BY <2>2, <2>3, <2>4
<1>5. CASE PollFailedNoOption
  <2>1. request_queue_pop /\ UNCHANGED read_requests /\ pending' = <<>>
    BY <1>5 DEF PollFailedNoOption
  <2>2. DOMAIN pending' = {}
    BY <2>1
  <2>3. QED
    BY <2>1, <2>2, <1>2 DEF Waiting
<1>6. CASE OnReadEnd
  <2> DEFINE l == Len(pending)
  <2> USE MaxRequestsAssumption
  <2>1. /\ l \in Nat /\ DOMAIN pending = 1 .. l
        /\ n_read_requests \in 0 .. (2 * MAX_REQUESTS) /\ callqueue = <<>>
    BY <1>6 DEF SlotInv, TypeOK, TypeConn, OnReadEnd
  <2>2. l <= n_read_requests
    BY <2>1 DEF SlotInv, SlotsBound
  <2>3. /\ read_requests' = [s \in Slots |-> IF s < l THEN pending[s + 1]
                                                    ELSE read_requests[s]]
        /\ callqueue' = [i \in 1 .. l |-> i - 1]
        /\ pending' = <<>>
    BY <1>6 DEF OnReadEnd
  <2> HIDE DEF l
  <2>4. \A i \in 1 .. l : i - 1 \in Slots /\ i - 1 < l /\ (i - 1) + 1 = i
    BY <2>1, <2>2 DEF Slots
  <2>5. \A i \in DOMAIN callqueue' :
            i \in DOMAIN pending /\ read_requests'[callqueue'[i]] = pending[i]
    <3> TAKE i \in DOMAIN callqueue'
    <3>1. i \in 1 .. l /\ callqueue'[i] = i - 1
      BY <2>3
    <3>2. read_requests'[i - 1] = pending[(i - 1) + 1]
      BY <3>1, <2>3, <2>4
    <3>3. QED
      BY <3>1, <3>2, <2>1, <2>4
  <2>6. DOMAIN pending' = {}
    BY <2>3
  <2>7. QED
    BY <2>5, <2>6 DEF Waiting
<1>7. QED
  BY <1>1, <1>3, <1>4, <1>5, <1>6 DEF OnRead

\* A new request joins those that wait, and has no entry yet.
LEMMA IssueWaiting ==
  ASSUME SlotInv, NEW op \in Ops, MayIssue(op), Enqueue(op)
  PROVE  Waiting' \subseteq Waiting \cup {[msgid |-> next_msgid, op |-> op]}
<1> DEFINE n == n_read_requests
           q == callqueue
           r == [msgid |-> next_msgid, op |-> op]
<1>1. /\ q \in Seq(Slots) /\ n \in Slots
      /\ DOMAIN q = 1 .. Len(q) /\ Len(q) \in Nat
      /\ \A i \in DOMAIN q : q[i] \in Slots /\ q[i] < n
      /\ read_requests \in [Slots -> Requests \cup {Unused}]
  BY DEF SlotInv, TypeOK, TypeConn, QueuedSlotsDistinct, Enqueue
<1>2. /\ read_requests' = [read_requests EXCEPT ![n] = r]
      /\ callqueue' = q \/ callqueue' = Append(q, n)
      /\ pending' = pending
  BY DEF Enqueue, request_queue_push
<1> HIDE DEF r
<1>3. /\ read_requests'[n] = r
      /\ \A i \in DOMAIN q : read_requests'[q[i]] = read_requests[q[i]]
  <2>1. \A i \in DOMAIN q : q[i] # n
    BY <1>1 DEF Slots
  <2>2. QED
    BY <2>1, <1>1, <1>2
<1>4. \A i \in DOMAIN callqueue' : \/ i \in DOMAIN q /\ callqueue'[i] = q[i]
                                   \/ callqueue'[i] = n
  <2>1. CASE callqueue' = Append(q, n)
    <3> DEFINE a == Append(q, n)
               l == Len(q)
    <3>1. /\ DOMAIN a = 1 .. (l + 1) /\ a[l + 1] = n
          /\ \A i \in 1 .. l : a[i] = q[i]
      BY <1>1, AppendFacts
    <3>2. callqueue' = a /\ l \in Nat /\ DOMAIN q = 1 .. l
      BY <2>1, <1>1
    <3> HIDE DEF a, l
    <3>3. \A i \in DOMAIN a : i \in 1 .. l \/ i = l + 1
      BY <3>1, <3>2
    <3>4. QED
      BY <3>1, <3>2, <3>3
  <2>2. QED
    BY <2>1, <1>2
<1>5. QED
  BY <1>2, <1>3, <1>4 DEF Waiting, r

\* Unless a call fails, a handler that does not call the search callback was
\* given a request without an entry.
LEMMA HandlerEntry ==
  ASSUME Faults \subseteq {"reconnect"}, SlotInv, NEW request, on_read_operation(request),
         request.op # "search" => request.msgid \notin ToSet(search_requests)
  PROVE  \/ pc' = "search_callback" /\ current' = request
         \/ request.msgid \notin ToSet(search_requests)
<1>1. CASE request.op = "search"
  <2>1. search_on_read(request)
    BY <1>1 DEF on_read_operation
  <2>2. CASE Matches(request.msgid) = {}
    <3>1. \A i \in 1 .. Len(search_requests) : search_requests[i] # request.msgid
      BY <2>2 DEF Matches
    <3>2. DOMAIN search_requests = 1 .. Len(search_requests)
      BY DEF SlotInv, TypeOK, TypeSearch
    <3>3. QED
      BY <3>1, <3>2 DEF ToSet
  <2>3. CASE Matches(request.msgid) # {}
    BY <2>1, <2>3 DEF search_on_read
  <2>4. QED
    BY <2>2, <2>3
<1>2. QED
  BY <1>1

\* Every step of a connection without faults keeps the table clean; a reconnect
\* empties it.
LEMMA NextTable ==
  ASSUME Faults \subseteq {"reconnect"}
  PROVE  PlaceInv /\ CallInv /\ TableInv /\ [Next]_vars => TableInv'
<1> SUFFICES ASSUME SlotInv, EveryRequestInOnePlace, CallInv, TableInv, [Next]_vars
             PROVE  TableInv'
  BY DEF PlaceInv
<1> USE DEF TableInv
<1>0. /\ \A x : x \in ToSet(search_requests)
                    <=> \E i \in DOMAIN search_requests : search_requests[i] = x
      /\ \A x : x \in ToSet(search_requests')
                    <=> \E i \in DOMAIN search_requests' : search_requests'[i] = x
  BY DEF ToSet
<1>1. CASE pc = "corrupted"
  <2>1. pc' = "corrupted" /\ search_requests' = search_requests
    BY <1>1 DEF Next, Issue, add, modify, ld_delete, ld_rename, whoami, search,
       MayIssue, InApplication, Overrun, ld_install_error_handler,
       connection_configure, OnRead, OnReadBegin, PollAnswered, PollPending,
       PollFailed, PollFailedNoOption, SearchCallbackReturns,
       ErrorCallbackReturns, OnReadEnd, request_queue_pop, ServerAnswers, vars
  <2>2. QED
    BY <2>1 DEF EntriesDistinct, OnlySearchesHaveEntries, EntriesLive
<1> SUFFICES ASSUME pc # "corrupted" PROVE TableInv'
  BY <1>1
<1>2. /\ Issued = Outstanding \cup handled \cup GivenUp
      /\ QueuedOnce /\ Outstanding \cap (handled \cup GivenUp) = {}
      /\ QueuedMsgids \cap PendingMsgids = {}
  BY DEF EveryRequestInOnePlace
<1>3. CASE Issue
  <2>1. PICK op \in Ops :
            /\ MayIssue(op) /\ Enqueue(op)
            /\ \/ UNCHANGED search_requests
               \/ /\ op = "search"
                  /\ search_requests' = Append(search_requests, next_msgid)
    BY <1>3 DEF Issue, add, modify, ld_delete, ld_rename, whoami, search, MayIssue
  <2> DEFINE m == next_msgid
             s == search_requests
             r == [msgid |-> m, op |-> op]
  <2>2. /\ m \in Msgids /\ m # 0 /\ m \notin Issued
        /\ Outstanding' \cup refused' = Outstanding \cup refused \cup {m}
    <3>1. m \in Msgids /\ m \notin Issued
      BY <2>1, IssuePlaces
    <3>2. Outstanding' \cup refused' = Outstanding \cup refused \cup {m}
      BY <2>1, IssuePlaces DEF Outstanding
    <3>3. QED
      BY <3>1, <3>2, MaxMsgAssumption DEF Msgids
  <2>3. pc' = pc /\ current' = current
    BY <2>1 DEF Enqueue
  <2>4. \A i \in DOMAIN s : s[i] # m
    <3>1. \A i \in DOMAIN s : s[i] \in Issued \cup {0}
      BY <1>2 DEF EntriesLive, CallInv, CallbackAnswered, GivenUp
    <3>2. QED
      BY <3>1, <2>2
  <2>5. /\ \A i \in DOMAIN s' : \/ i \in DOMAIN s /\ s'[i] = s[i]
                                \/ op = "search" /\ i = Len(s) + 1 /\ s'[i] = m
    <3>1. s \in Seq(Msgids \cup {0})
      BY DEF SlotInv, TypeOK, TypeSearch
    <3>2. CASE op = "search" /\ s' = Append(s, m)
      <4> DEFINE a == Append(s, m)
                 l == Len(s)
      <4>1. /\ l \in Nat /\ DOMAIN s = 1 .. l /\ DOMAIN a = 1 .. (l + 1)
            /\ \A i \in 1 .. l : a[i] = s[i]
            /\ a[l + 1] = m
        BY <3>1, <2>2, AppendFacts
      <4>2. s' = a
        BY <3>2
      <4> HIDE DEF a, l
      <4>3. \A i \in DOMAIN a : i \in 1 .. l \/ i = l + 1
        BY <4>1
      <4>4. QED
        BY <4>1, <4>2, <4>3, <3>2 DEF l
    <3>3. QED
      BY <2>1, <3>2
  <2> HIDE DEF m
  <2>6. EntriesDistinct'
    BY <2>4, <2>5 DEF EntriesDistinct
  <2>7. EntriesLive'
    BY <2>2, <2>3, <2>5 DEF EntriesLive
  <2>8. OnlySearchesHaveEntries'
    <3>1. Waiting' \subseteq Waiting \cup {r}
      BY <2>1, IssueWaiting DEF m
    <3>2. \A w \in Waiting : w.msgid \in Outstanding
      BY DEF Waiting, Outstanding, QueuedMsgids, PendingMsgids, SlotMsgid
    <3>3. \A w \in Waiting : w.msgid # m
      BY <3>2, <2>2, <1>2
    <3>4. ASSUME NEW w \in Waiting', w.op # "search"
          PROVE  w.msgid \notin ToSet(s')
      <4>1. CASE w \in Waiting
        BY <4>1, <3>3, <3>4, <2>5, <1>0 DEF OnlySearchesHaveEntries
      <4>2. CASE w = r
        BY <4>2, <3>4, <2>4, <2>5, <1>0
      <4>3. QED
        BY <4>1, <4>2, <3>1
    <3>5. QED
      BY <3>4 DEF OnlySearchesHaveEntries
  <2>9. QED
    BY <2>6, <2>7, <2>8
<1>4. CASE \/ Overrun \/ ld_install_error_handler \/ ServerAnswers
           \/ UNCHANGED vars
  <2>1. /\ UNCHANGED <<read_requests, callqueue, pending, next_msgid, handled,
                       failed, forgotten, refused, search_requests>>
        /\ pc' = "corrupted" \/ UNCHANGED <<pc, current>>
    BY <1>4 DEF Overrun, ld_install_error_handler, ServerAnswers, vars, conn, history
  <2>2. Outstanding' = Outstanding /\ Waiting' = Waiting
    BY <2>1, SamePlaces DEF Waiting
  <2>3. QED
    BY <2>1, <2>2 DEF EntriesDistinct, OnlySearchesHaveEntries, EntriesLive
<1>5. CASE connection_configure
  <2>1. /\ callqueue' = <<>> /\ search_requests' = <<>>
        /\ pc' = "idle" /\ pending' = <<>>
    BY <1>5 DEF connection_configure, SlotInv, PendingOnlyInLoop
  <2>2. DOMAIN callqueue' = {} /\ DOMAIN search_requests' = {} /\ DOMAIN pending' = {}
    BY <2>1
  <2>3. Waiting' = {}
    BY <2>2 DEF Waiting
  <2>4. QED
    BY <2>2, <2>3 DEF EntriesDistinct, OnlySearchesHaveEntries, EntriesLive
<1>6. CASE SearchCallbackReturns
  <2>1. /\ search_index \in DOMAIN search_requests
        /\ search_requests[search_index] = current.msgid
        /\ current.msgid \in handled
        /\ search_requests \in Seq(Msgids \cup {0})
    BY <1>6 DEF SearchCallbackReturns, SlotInv, SearchIndexValid, CallInv,
                CallbackAnswered, TypeOK, TypeSearch
  <2>2. current.msgid # 0
    BY <2>1 DEF SlotInv, TypeOK, TypeHistory, Msgids
  <2>3. /\ EntriesDistinct'
        /\ \A k \in DOMAIN search_requests' :
               \/ search_requests'[k] = 0
               \/ /\ search_requests'[k] # current.msgid
                  /\ \E j \in DOMAIN search_requests :
                        search_requests'[k] = search_requests[j]
    <3>1. connection_remove_search_request(search_index)
      BY <1>6 DEF SearchCallbackReturns
    <3>2. QED
      BY <3>1, <2>1, <2>2, RemoveOne
  <2>4. /\ UNCHANGED <<read_requests, callqueue, pending, refused>> /\ pc' = "loop"
        /\ Outstanding' = Outstanding /\ Waiting' = Waiting
    BY <1>6 DEF SearchCallbackReturns, conn, Outstanding, QueuedMsgids,
                PendingMsgids, SlotMsgid, Waiting
  <2>5. EntriesLive'
    BY <2>3, <2>4 DEF EntriesLive
  <2>6. OnlySearchesHaveEntries'
    <3>1. \A w \in Waiting : w.msgid # 0
      <4>1. \A w \in Waiting : w \in Requests
        BY DEF Waiting, SlotInv, QueuedAreRequests, TypeOK, TypeConn
      <4>2. QED
        BY <4>1 DEF Requests, Msgids
    <3>2. QED
      BY <3>1, <2>3, <2>4, <1>0 DEF OnlySearchesHaveEntries
  <2>7. QED
    BY <2>3, <2>5, <2>6
<1>7. CASE PollAnswered
  <2>1. /\ UNCHANGED <<search_requests, refused>>
        /\ Waiting' \subseteq Waiting
    BY <1>7, WaitingShrinks DEF PollAnswered, OnRead
  <2>2. Outstanding' = Outstanding \ {Top.msgid}
    <3>1. /\ Top.msgid \in QueuedMsgids /\ QueuedMsgids' = QueuedMsgids \ {Top.msgid}
          /\ PendingMsgids' = PendingMsgids
      BY <1>2, <1>7, PopPlaces DEF PollAnswered, PendingMsgids
    <3>2. QED
      BY <3>1, <1>2 DEF Outstanding
  <2>3. Top \in Waiting
    <3>1. callqueue \in Seq(Slots) /\ callqueue # <<>>
      BY <1>7 DEF PollAnswered, request_queue_pop, SlotInv, TypeOK, TypeConn
    <3>2. 1 \in DOMAIN callqueue /\ Head(callqueue) = callqueue[1]
      BY <3>1, TailFacts
    <3>3. QED
      BY <3>2 DEF Waiting, Top
  <2>4. \/ pc' = "search_callback" /\ current' = Top
        \/ Top.msgid \notin ToSet(search_requests)
    BY <1>7, <2>3, HandlerEntry DEF PollAnswered, OnlySearchesHaveEntries
  <2>5. pc = "loop"
    BY <1>7 DEF PollAnswered, request_queue_pop
  <2>6. EntriesLive'
    BY <2>1, <2>2, <2>4, <2>5, <1>0 DEF EntriesLive
  <2>7. QED
    BY <2>1, <2>6 DEF EntriesDistinct, OnlySearchesHaveEntries
<1>8. CASE OnReadBegin \/ PollPending \/ ErrorCallbackReturns \/ OnReadEnd
  <2>1. /\ UNCHANGED <<search_requests, refused>>
        /\ Waiting' \subseteq Waiting
        /\ pc # "search_callback"
    BY <1>8, WaitingShrinks
    DEF OnReadBegin, PollPending, ErrorCallbackReturns, OnReadEnd, OnRead,
        request_queue_pop
  <2>2. pc' = "corrupted" \/ Outstanding' = Outstanding
    <3>1. CASE OnReadBegin \/ ErrorCallbackReturns
      BY <3>1 DEF OnReadBegin, ErrorCallbackReturns, conn, Outstanding,
                  QueuedMsgids, PendingMsgids, SlotMsgid
    <3>2. CASE OnReadEnd
      BY <3>2, EndPlaces DEF Outstanding
    <3>3. CASE PollPending
      <4> SUFFICES ASSUME pc' # "corrupted" PROVE Outstanding' = Outstanding
        OBVIOUS
      <4>1. pending' = Append(pending, Top)
        BY <3>3 DEF PollPending
      <4>2. Top \in Requests /\ pending \in Seq(Requests)
        BY <3>3, PopSlots DEF PollPending, SlotInv, TypeOK, TypeConn
      <4>3. PendingMsgids' = PendingMsgids \cup {Top.msgid}
        BY <4>1, <4>2, PendPlaces
      <4>4. /\ Top.msgid \in QueuedMsgids
            /\ QueuedMsgids' = QueuedMsgids \ {Top.msgid}
        BY <3>3, <1>2, PopPlaces DEF PollPending
      <4>5. QED
        BY <4>3, <4>4 DEF Outstanding
    <3>4. QED
      BY <1>8, <3>1, <3>2, <3>3
  <2>3. QED
    BY <2>1, <2>2 DEF EntriesDistinct, OnlySearchesHaveEntries, EntriesLive
<1>9. ~PollFailed /\ ~PollFailedNoOption
  BY DEF PollFailed, PollFailedNoOption
<1>10. QED
  BY <1>3, <1>4, <1>5, <1>6, <1>7, <1>8, <1>9 DEF Next, OnRead

\* On a connection whose answers all arrive the table never keeps the entry of
\* a search that is over, for any length of the arrays, whatever callbacks
\* issue and however often the connection is set up again.
THEOREM NoStaleSearchEntryAlways ==
  ASSUME Faults \subseteq {"reconnect"}
  PROVE  Spec => []NoStaleSearchEntry
<1>1. Init => CallInv
  BY DEF Init, CallInv, TableRegistered, CallbackAnswered, CalledWereAnswered
<1>2. Init => TableInv
  BY DEF Init, TableInv, EntriesDistinct, OnlySearchesHaveEntries, EntriesLive,
         Waiting, ToSet
<1>3. TableInv => NoStaleSearchEntry
  BY DEF TableInv, EntriesLive, NoStaleSearchEntry, ToSet
<1>4. PlaceInv => SlotInv
  BY DEF PlaceInv
<1>5. QED
  BY <1>1, <1>2, <1>3, <1>4, NextCalls, NextTable, PlaceInvariance, PTL DEF Spec

-----------------------------------------------------------------------------
(* The dispatch implements RequestPool.                                    *)

\* Every step is a step of the pool, or none.
LEMMA PoolStep ==
  PlaceInv /\ [Next]_vars => [Pool!PoolNext]_<<Outstanding, handled, Gone>>
<1> SUFFICES ASSUME SlotInv, EveryRequestInOnePlace, Next,
                    ~UNCHANGED <<Outstanding, handled, Gone>>
             PROVE  Pool!PoolNext
  <2>1. UNCHANGED vars => UNCHANGED <<Outstanding, handled, Gone>>
    BY SamePlaces DEF vars, conn, history
  <2>2. QED
    BY <2>1 DEF PlaceInv
<1>1. ~UNCHANGED <<read_requests, callqueue, pending, next_msgid, handled,
                   failed, forgotten, refused>>
  BY SamePlaces
<1>2. \/ Issue \/ connection_configure \/ PollAnswered \/ PollPending
      \/ PollFailed \/ PollFailedNoOption \/ OnReadEnd
  BY <1>1 DEF Next, OnRead, Overrun, ld_install_error_handler, OnReadBegin,
              SearchCallbackReturns, ErrorCallbackReturns, ServerAnswers, conn,
              history
<1>3. pc # "corrupted"
  BY <1>2 DEF Issue, add, modify, ld_delete, ld_rename, whoami, search, MayIssue,
              InApplication, connection_configure, PollAnswered, PollPending,
              PollFailed, PollFailedNoOption, OnReadEnd, request_queue_pop
<1>4. /\ Issued = Outstanding \cup handled \cup GivenUp
      /\ QueuedOnce /\ PendingOnce
      /\ QueuedMsgids \cap PendingMsgids = {}
      /\ Outstanding \cap (handled \cup GivenUp) = {}
      /\ handled \cap GivenUp = {}
  BY <1>3 DEF EveryRequestInOnePlace
<1>5. Gone = GivenUp
  BY <1>4 DEF Gone
<1>6. CASE Issue
  <2>1. PICK op \in Ops : MayIssue(op) /\ Enqueue(op)
    BY <1>6 DEF Issue, add, modify, ld_delete, ld_rename, whoami, search, MayIssue
  <2> DEFINE m == next_msgid
  <2>2. /\ m \in Msgids /\ m \notin Issued /\ Issued' = Issued \cup {m}
        /\ PendingMsgids' = PendingMsgids /\ handled' = handled
        /\ QueuedMsgids' = QueuedMsgids \cup {m} \/ QueuedMsgids' = QueuedMsgids
    BY <2>1, IssuePlaces
  <2>3. Pool!Fresh(m)
    BY <2>2, <1>4, <1>5 DEF Pool!Fresh
  <2>4. CASE QueuedMsgids' = QueuedMsgids \cup {m}
    <3>1. Outstanding' = Outstanding \cup {m} /\ Gone' = Gone
      BY <2>2, <2>4 DEF Outstanding, Gone
    <3>2. Pool!PoolIssue(m)
      BY <3>1, <2>2, <2>3 DEF Pool!PoolIssue
    <3>3. QED
      BY <3>2, <2>2 DEF Pool!PoolNext
  <2>5. CASE QueuedMsgids' = QueuedMsgids
    <3>1. Outstanding' = Outstanding /\ Gone' = Gone \cup {m}
      BY <2>2, <2>5, <1>4 DEF Outstanding, Gone
    <3>2. Pool!PoolRefuse(m)
      BY <3>1, <2>2, <2>3 DEF Pool!PoolRefuse
    <3>3. QED
      BY <3>2, <2>2 DEF Pool!PoolNext
  <2>6. QED
    BY <2>2, <2>4, <2>5
<1>7. CASE connection_configure
  <2>1. pending' = <<>>
    BY <1>7 DEF connection_configure, SlotInv, PendingOnlyInLoop
  <2>2. Outstanding' = {} /\ handled' = {} /\ Gone' = {}
    BY <1>7, <2>1 DEF connection_configure, Issued, Outstanding, QueuedMsgids,
                      PendingMsgids, Gone
  <2>3. QED
    BY <2>2 DEF Pool!PoolNext, Pool!PoolReset
<1>8. ASSUME request_queue_pop, UNCHANGED <<read_requests, next_msgid>>
      PROVE  /\ Top.msgid \in QueuedMsgids
             /\ QueuedMsgids' = QueuedMsgids \ {Top.msgid}
             /\ Issued' = Issued
             /\ Top.msgid \in Outstanding /\ Top.msgid \in Issued
             /\ Top.msgid \notin PendingMsgids
  BY <1>4, <1>8, PopPlaces DEF Issued, Outstanding
<1>9. CASE PollAnswered
  <2>1. /\ Top.msgid \in Outstanding /\ Top.msgid \notin PendingMsgids
        /\ Issued' = Issued
        /\ QueuedMsgids' = QueuedMsgids \ {Top.msgid} /\ Top \in Requests
    BY <1>8, <1>9, PopSlots DEF PollAnswered
  <2>2. handled' = handled \cup {Top.msgid} /\ PendingMsgids' = PendingMsgids
    BY <1>9 DEF PollAnswered, PendingMsgids
  <2>3. Outstanding' = Outstanding \ {Top.msgid} /\ Gone' = Gone
    BY <2>1, <2>2 DEF Outstanding, Gone
  <2>4. Pool!PoolHandle(Top.msgid)
    BY <2>1, <2>2, <2>3 DEF Pool!PoolHandle
  <2>5. Top.msgid \in Msgids
    BY <2>1 DEF Requests
  <2>6. QED
    BY <2>4, <2>5 DEF Pool!PoolNext
<1>10. ASSUME NEW S \in SUBSET Outstanding, S # {}, Issued' = Issued,
              Outstanding' = Outstanding \ S, handled' = handled
       PROVE  Pool!PoolNext
  <2>1. Gone' = Gone \cup S
    BY <1>4, <1>10 DEF Gone
  <2>2. Pool!PoolLose(S)
    BY <1>10, <2>1 DEF Pool!PoolLose
  <2>3. QED
    BY <2>2 DEF Pool!PoolNext
<1>11. CASE PollPending
  <2>1. /\ Top.msgid \in Outstanding /\ Top.msgid \notin PendingMsgids
        /\ Issued' = Issued /\ handled' = handled
        /\ QueuedMsgids' = QueuedMsgids \ {Top.msgid} /\ Top \in Requests
    BY <1>8, <1>11, PopSlots DEF PollPending, history
  <2>2. CASE pending' = Append(pending, Top)
    <3>1. PendingMsgids' = PendingMsgids \cup {Top.msgid}
      BY <2>1, <2>2, PendPlaces DEF SlotInv, TypeOK, TypeConn
    <3>2. Outstanding' = Outstanding /\ Gone' = Gone
      BY <3>1, <2>1 DEF Outstanding, Gone
    <3>3. QED
      BY <3>2, <2>1
  <2>3. CASE pending' = pending
    <3>1. PendingMsgids' = PendingMsgids
      BY <2>3 DEF PendingMsgids
    <3>2. Outstanding' = Outstanding \ {Top.msgid}
      BY <3>1, <2>1 DEF Outstanding
    <3>3. QED
      BY <3>2, <2>1, <1>10
  <2>4. QED
    BY <1>11, <2>2, <2>3 DEF PollPending
<1>12. CASE PollFailed
  <2>1. /\ Top.msgid \in Outstanding /\ Top.msgid \notin PendingMsgids
        /\ Issued' = Issued /\ QueuedMsgids' = QueuedMsgids \ {Top.msgid}
    BY <1>8, <1>12 DEF PollFailed
  <2>2. handled' = handled /\ PendingMsgids' = PendingMsgids
    BY <1>12 DEF PollFailed, PendingMsgids
  <2>3. Outstanding' = Outstanding \ {Top.msgid}
    BY <2>1, <2>2 DEF Outstanding
  <2>4. QED
    BY <2>1, <2>2, <2>3, <1>10
<1>13. CASE PollFailedNoOption
  <2>1. /\ Top.msgid \in Outstanding
        /\ Issued' = Issued /\ QueuedMsgids' = QueuedMsgids \ {Top.msgid}
    BY <1>8, <1>13 DEF PollFailedNoOption
  <2>2. handled' = handled /\ PendingMsgids' = {}
    BY <1>13 DEF PollFailedNoOption, PendingMsgids
  <2> DEFINE S == {Top.msgid} \cup PendingMsgids
  <2>3. S \in SUBSET Outstanding /\ S # {}
    BY <2>1 DEF Outstanding
  <2>4. Outstanding' = Outstanding \ S
    BY <2>1, <2>2, <1>4 DEF Outstanding
  <2>5. QED
    BY <2>1, <2>2, <2>3, <2>4, <1>10
<1>14. CASE OnReadEnd
  <2>1. /\ QueuedMsgids = {} /\ QueuedMsgids' = PendingMsgids /\ PendingMsgids' = {}
        /\ Issued' = Issued /\ handled' = handled
    BY <1>14, EndPlaces DEF OnReadEnd, Issued, history
  <2>2. Outstanding' = Outstanding /\ Gone' = Gone
    BY <2>1 DEF Outstanding, Gone
  <2>3. QED
    BY <2>1, <2>2
<1>15. QED
  BY <1>2, <1>6, <1>7, <1>9, <1>11, <1>12, <1>13, <1>14

\* A handler is called at most once per request, only for one that is
\* outstanding, and a request that left connection_on_read never comes back.
THEOREM PoolRefinement == Spec => ImplementsPool
<1>1. Init => Pool!PoolInit
  BY DEF Init, Pool!PoolInit, Issued, Outstanding, QueuedMsgids, PendingMsgids,
         Gone
<1>2. PlaceInv /\ [Next]_vars => [Pool!PoolNext]_(Pool!poolVars)
  BY PoolStep DEF Pool!poolVars
<1>3. QED
  BY <1>1, <1>2, PlaceInvariance, PTL DEF Spec, ImplementsPool, Pool!PoolSpec
=============================================================================
