------------------------ MODULE RequestDeliveryProofs ------------------------
(***************************************************************************)
(* Proofs about how RequestDispatch delivers answers: the entry of a       *)
(* search waits for its answer, no answer is dropped, and                  *)
(* connection_on_read comes to its end.                                    *)
(***************************************************************************)
EXTENDS RequestDispatchProofs, FiniteSetTheorems

-----------------------------------------------------------------------------
(* A search that waits has its entry in search_requests.                   *)

\* While a search callback runs the slot of its request is not handed out
\* again: n_read_requests still counts it.
CallbackSlot ==
    pc = "search_callback" => Len(callqueue) + Len(pending) < n_read_requests

\* As long as the queue refused no request, no entry is zeroed and the entry
\* of a waiting search is there.
EntriesKept ==
    refused = {} => /\ 0 \notin ToSet(search_requests)
                    /\ RegisteredSearchHasEntry

RegisteredIssued == registered \subseteq Issued

KeepInv == CallbackSlot /\ EntriesKept /\ RegisteredIssued

\* Each entry belongs to a request that is queued, set aside or being
\* answered, and each of these has a slot of its own below n_read_requests:
\* the table is never longer than n_read_requests.
LEMMA TableFits ==
  ASSUME SlotInv, TableInv, CallbackSlot, pc = "search_callback", refused = {},
         0 \notin ToSet(search_requests)
  PROVE  Len(search_requests) <= n_read_requests
<1> DEFINE s == search_requests
           a == Len(callqueue)
           b == Len(pending)
           At(p) == IF p <= a THEN SlotMsgid(callqueue[p])
                    ELSE IF p <= a + b THEN pending[p - a].msgid
                    ELSE current.msgid
           T == 1 .. (a + b + 1)
           f == [i \in 1 .. Len(s) |-> CHOOSE p \in T : At(p) = s[i]]
<1>1. /\ Len(s) \in Nat /\ DOMAIN s = 1 .. Len(s)
      /\ a \in Nat /\ DOMAIN callqueue = 1 .. a
      /\ b \in Nat /\ DOMAIN pending = 1 .. b
      /\ n_read_requests \in Nat
  BY DEF SlotInv, TypeOK, TypeConn, TypeSearch
<1>2. \A i \in 1 .. Len(s) : s[i] # 0
  BY <1>1 DEF ToSet
<1>3. \A i \in 1 .. Len(s) : \E p \in T : At(p) = s[i]
  <2> TAKE i \in 1 .. Len(s)
  <2>1. s[i] \in Outstanding \/ s[i] = current.msgid
    BY <1>1, <1>2 DEF TableInv, EntriesLive
  <2>2. CASE s[i] \in QueuedMsgids
    <3>1. PICK p \in 1 .. a : SlotMsgid(callqueue[p]) = s[i]
      BY <2>2, <1>1 DEF QueuedMsgids
    <3>2. p \in T /\ p <= a
      BY <1>1
    <3>3. QED
      BY <3>1, <3>2
  <2>3. CASE s[i] \in PendingMsgids
    <3>1. PICK j \in 1 .. b : pending[j].msgid = s[i]
      BY <2>3, <1>1 DEF PendingMsgids
    <3>2. /\ a + j \in T /\ ~(a + j <= a) /\ a + j <= a + b /\ (a + j) - a = j
      BY <1>1
    <3> HIDE DEF a, b, T
    <3>3. QED
      BY <3>1, <3>2
  <2>4. CASE s[i] = current.msgid
    <3>1. a + b + 1 \in T /\ ~(a + b + 1 <= a) /\ ~(a + b + 1 <= a + b)
      BY <1>1
    <3> HIDE DEF a, b, T
    <3>2. QED
      BY <2>4, <3>1
  <2>5. QED
    BY <2>1, <2>2, <2>3, <2>4 DEF Outstanding
<1> HIDE DEF At, T
<1>4. \A i \in 1 .. Len(s) : f[i] \in T /\ At(f[i]) = s[i]
  BY <1>3
<1>5. f \in [1 .. Len(s) -> T]
  BY <1>4
<1> HIDE DEF f
<1>6. \A i, j \in 1 .. Len(s) : f[i] = f[j] => i = j
  BY <1>1, <1>2, <1>4 DEF TableInv, EntriesDistinct
<1>7. /\ IsFiniteSet(1 .. Len(s)) /\ Cardinality(1 .. Len(s)) = Len(s)
      /\ IsFiniteSet(T) /\ Cardinality(T) = a + b + 1
  <2>1. \A n \in Nat : IsFiniteSet(1 .. n) /\ Cardinality(1 .. n) = n
    BY FS_Interval
  <2>2. QED
    BY <2>1, <1>1 DEF T
<1>8. ~(a + b + 1 < Len(s))
  BY <1>5, <1>6, <1>7, FS_PigeonHole
<1>9. a + b < n_read_requests
  BY DEF CallbackSlot
<1>10. QED
  BY <1>1, <1>8, <1>9

\* ... so connection_remove_search_request removes the entry it is given and
\* no other: its test against n_read_requests, the count of another array,
\* is only true for the last entry.
LEMMA RemoveExact ==
  ASSUME search_requests \in Seq(Msgids \cup {0}),
         NEW index \in DOMAIN search_requests,
         connection_remove_search_request(index), n_read_requests \in Nat,
         Len(search_requests) <= n_read_requests
  PROVE  /\ \A k \in DOMAIN search_requests' :
               \E j \in DOMAIN search_requests : search_requests'[k] = search_requests[j]
         /\ \A j \in DOMAIN search_requests \ {index} :
               \E k \in DOMAIN search_requests' : search_requests'[k] = search_requests[j]
<1> DEFINE s == search_requests
           t == search_requests'
           l == Len(search_requests)
<1>1. l \in Nat /\ DOMAIN s = 1 .. l /\ index \in 1 .. l /\ DOMAIN t = 1 .. (l - 1)
  BY RemoveEntries
<1>2. \A k \in 1 .. (l - 1) : t[k] = IF k < index THEN s[k] ELSE s[k + 1]
  <2>1. CASE /\ index = n_read_requests
             /\ \A k \in 1 .. (l - 1) : t[k] = IF k = index THEN 0 ELSE s[k]
    <3>1. \A k \in 1 .. (l - 1) : k # index /\ k < index
      BY <2>1, <1>1
    <3>2. QED
      BY <2>1, <3>1
  <2>2. QED
    BY <2>1, RemoveEntries
<1> HIDE DEF s, t, l
<1>3. \A k \in 1 .. (l - 1) : k \in 1 .. l /\ k + 1 \in 1 .. l
  BY <1>1
<1>4. \A k \in DOMAIN t : \E j \in DOMAIN s : t[k] = s[j]
  BY <1>1, <1>2, <1>3
<1>5. ASSUME NEW j \in DOMAIN s \ {index}
      PROVE  \E k \in DOMAIN t : t[k] = s[j]
  <2>1. CASE j < index
    <3>1. j \in 1 .. (l - 1)
      BY <2>1, <1>1
    <3>2. QED
      BY <3>1, <2>1, <1>1, <1>2
  <2>2. CASE ~(j < index)
    <3>1. j - 1 \in 1 .. (l - 1) /\ ~(j - 1 < index) /\ (j - 1) + 1 = j
      BY <2>2, <1>1
    <3>2. t[j - 1] = s[j]
      BY <3>1, <1>2
    <3>3. QED
      BY <3>1, <3>2, <1>1
  <2>3. QED
    BY <2>1, <2>2
<1>6. QED
  BY <1>4, <1>5 DEF s, t

\* Without faults every step keeps the entries of the searches that wait.
LEMMA NextKeep ==
  ASSUME Faults \subseteq {"reconnect"}
  PROVE  PlaceInv /\ CallInv /\ TableInv /\ KeepInv /\ [Next]_vars => KeepInv'
<1> SUFFICES ASSUME SlotInv, EveryRequestInOnePlace, CallInv, TableInv, KeepInv,
                    [Next]_vars
             PROVE  KeepInv'
  BY DEF PlaceInv
<1> USE DEF KeepInv
<1>0. /\ \A x : x \in ToSet(search_requests)
                    <=> \E i \in DOMAIN search_requests : search_requests[i] = x
      /\ \A x : x \in ToSet(search_requests')
                    <=> \E i \in DOMAIN search_requests' : search_requests'[i] = x
  BY DEF ToSet
<1>1. /\ Len(callqueue) \in Nat /\ Len(pending) \in Nat /\ n_read_requests \in Nat
      /\ search_requests \in Seq(Msgids \cup {0})
      /\ Len(callqueue) + Len(pending) <= n_read_requests
  BY DEF SlotInv, TypeOK, TypeConn, TypeSearch, SlotsBound
<1>2. CASE Issue
  <2>1. PICK op \in Ops :
            /\ MayIssue(op) /\ Enqueue(op)
            /\ \/ UNCHANGED <<search_requests, registered>>
               \/ /\ search_requests' = Append(search_requests, next_msgid)
                  /\ registered' = registered \cup {next_msgid}
    BY <1>2 DEF Issue, add, modify, ld_delete, ld_rename, whoami, search, MayIssue
  <2> DEFINE m == next_msgid
             s == search_requests
  <2>2. /\ m \in Msgids /\ m # 0 /\ m \notin Issued /\ Issued' = Issued \cup {m}
        /\ Outstanding' \subseteq Outstanding \cup {m}
        /\ refused' = {} => refused = {}
    <3>1. /\ m \in Msgids /\ m \notin Issued /\ Issued' = Issued \cup {m}
          /\ Outstanding' \subseteq Outstanding \cup {m}
          /\ refused' = {} => refused = {}
      BY <2>1, IssuePlaces DEF Outstanding
    <3>2. QED
      BY <3>1, MaxMsgAssumption DEF Msgids
  <2>3. RegisteredIssued'
    BY <2>1, <2>2 DEF RegisteredIssued
  <2>4. CallbackSlot'
    <3>1. /\ pc' = pc /\ pending' = pending /\ n_read_requests' = n_read_requests + 1
          /\ callqueue' = callqueue \/ callqueue' = Append(callqueue, n_read_requests)
          /\ n_read_requests \in Slots
      BY <2>1 DEF Enqueue, request_queue_push
    <3>2. Len(callqueue') = Len(callqueue) \/ Len(callqueue') = Len(callqueue) + 1
      BY <3>1, AppendFacts DEF SlotInv, TypeOK, TypeConn
    <3>3. QED
      BY <3>1, <3>2, <1>1 DEF CallbackSlot
  <2>5. \A x : x \in ToSet(s') <=> \/ x \in ToSet(s)
                                   \/ x = m /\ registered' # registered
    <3>1. CASE UNCHANGED <<search_requests, registered>>
      BY <3>1
    <3>2. CASE /\ s' = Append(s, m) /\ registered' = registered \cup {m}
      <4> DEFINE a == Append(s, m)
                 l == Len(s)
      <4>1. /\ l \in Nat /\ DOMAIN s = 1 .. l /\ DOMAIN a = 1 .. (l + 1)
            /\ \A i \in 1 .. l : a[i] = s[i]
            /\ a[l + 1] = m
        BY <1>1, <2>2, AppendFacts
      <4>2. s' = a
        BY <3>2
      <4>3. registered' # registered
        BY <3>2, <2>2 DEF RegisteredIssued
      <4> HIDE DEF a, l, s, m
      <4>4. /\ \A i \in DOMAIN a : i \in 1 .. l \/ i = l + 1
            /\ l + 1 \in DOMAIN a /\ \A i \in DOMAIN s : i \in DOMAIN a
        BY <4>1
      <4>5. QED
        BY <4>1, <4>2, <4>3, <4>4, <1>0 DEF s
    <3>3. QED
      BY <2>1, <3>1, <3>2
  <2>6. EntriesKept'
    <3> SUFFICES ASSUME refused' = {}
                 PROVE  /\ 0 \notin ToSet(s')
                        /\ registered' \cap Outstanding' \subseteq ToSet(s')
      BY DEF EntriesKept, RegisteredSearchHasEntry
    <3>1. 0 \notin ToSet(s) /\ registered \cap Outstanding \subseteq ToSet(s)
      BY <2>2 DEF EntriesKept, RegisteredSearchHasEntry
    <3>2. 0 \notin ToSet(s')
      BY <3>1, <2>2, <2>5
    <3>3. m \notin registered
      BY <2>2 DEF RegisteredIssued
    <3>4. registered' = registered \/ registered' = registered \cup {m}
      BY <2>1
    <3> HIDE DEF m, s
    <3>5. QED
      BY <3>1, <3>2, <3>3, <3>4, <2>2, <2>5
  <2>7. QED
    BY <2>3, <2>4, <2>6
<1>3. CASE connection_configure
  <2>1. /\ callqueue' = <<>> /\ search_requests' = <<>> /\ registered' = {}
        /\ pc' = "idle" /\ pending' = <<>>
    BY <1>3 DEF connection_configure, SlotInv, PendingOnlyInLoop
  <2>2. DOMAIN search_requests' = {}
    BY <2>1
  <2>3. QED
    BY <2>1, <2>2, <1>0 DEF CallbackSlot, EntriesKept, RegisteredIssued,
                            RegisteredSearchHasEntry
<1>4. CASE SearchCallbackReturns
  <2>1. /\ search_index \in DOMAIN search_requests
        /\ search_requests[search_index] = current.msgid
        /\ current.msgid \in handled
        /\ pc = "search_callback"
        /\ connection_remove_search_request(search_index)
    BY <1>4 DEF SearchCallbackReturns, SlotInv, SearchIndexValid, CallInv,
                CallbackAnswered
  <2>2. /\ UNCHANGED <<read_requests, callqueue, pending, next_msgid, handled,
                       failed, forgotten, refused, registered>>
        /\ pc' = "loop"
    BY <1>4 DEF SearchCallbackReturns, conn
  <2>3. Outstanding' = Outstanding /\ Issued' = Issued
    BY <2>2, SamePlaces
  <2>4. current.msgid \notin Outstanding
    BY <2>1 DEF EveryRequestInOnePlace
  <2>5. EntriesKept'
    <3> SUFFICES ASSUME refused' = {} PROVE EntriesKept'
      BY DEF EntriesKept
    <3>1. refused = {} /\ 0 \notin ToSet(search_requests) /\ RegisteredSearchHasEntry
      BY <2>2 DEF EntriesKept
    <3>2. Len(search_requests) <= n_read_requests
      BY <2>1, <3>1, TableFits
    <3>3. /\ \A k \in DOMAIN search_requests' :
                \E j \in DOMAIN search_requests :
                   search_requests'[k] = search_requests[j]
          /\ \A j \in DOMAIN search_requests \ {search_index} :
                \E k \in DOMAIN search_requests' :
                   search_requests'[k] = search_requests[j]
      BY <2>1, <3>2, <1>1, RemoveExact
    <3>4. 0 \notin ToSet(search_requests')
      BY <3>1, <3>3, <1>0
    <3>5. ToSet(search_requests) \ {current.msgid} \subseteq ToSet(search_requests')
      BY <3>3, <2>1, <1>0
    <3>6. RegisteredSearchHasEntry'
      BY <3>1, <3>5, <2>2, <2>3, <2>4 DEF RegisteredSearchHasEntry
    <3>7. QED
      BY <3>4, <3>6 DEF EntriesKept
  <2>6. QED
    BY <2>2, <2>3, <2>5 DEF CallbackSlot, RegisteredIssued
<1>5. ASSUME UNCHANGED <<search_requests, registered, refused, next_msgid>>,
             Outstanding' \subseteq Outstanding
      PROVE  EntriesKept' /\ RegisteredIssued'
  BY <1>5 DEF EntriesKept, RegisteredIssued, RegisteredSearchHasEntry, Issued
<1>6. CASE \/ Overrun \/ ld_install_error_handler \/ ServerAnswers
           \/ OnReadBegin \/ ErrorCallbackReturns \/ UNCHANGED vars
  <2>1. /\ UNCHANGED <<read_requests, n_read_requests, callqueue, pending, next_msgid,
                       handled, failed, forgotten, refused, search_requests, registered>>
        /\ pc' = pc \/ pc' # "search_callback"
    BY <1>6 DEF Overrun, ld_install_error_handler, ServerAnswers, OnReadBegin,
                ErrorCallbackReturns, Return, vars, conn, history
  <2>2. Outstanding' = Outstanding
    BY <2>1, SamePlaces
  <2>3. CallbackSlot'
    BY <2>1 DEF CallbackSlot
  <2>4. QED
    BY <2>1, <2>2, <2>3, <1>5
<1>7. CASE PollAnswered
  <2>1. /\ UNCHANGED <<search_requests, registered, refused, next_msgid,
                       n_read_requests, pending, read_requests>>
        /\ request_queue_pop
    BY <1>7 DEF PollAnswered
  <2>2. Outstanding' \subseteq Outstanding
    <3>1. QueuedMsgids' \subseteq QueuedMsgids /\ PendingMsgids' = PendingMsgids
      BY <2>1, PopPlaces DEF PendingMsgids, EveryRequestInOnePlace, request_queue_pop
    <3>2. QED
      BY <3>1 DEF Outstanding
  <2>3. CallbackSlot'
    <3>1. Len(callqueue') = Len(callqueue) - 1
      BY <2>1, PopSlots
    <3>2. QED
      BY <3>1, <2>1, <1>1 DEF CallbackSlot
  <2>4. QED
    BY <2>1, <2>2, <2>3, <1>5
<1>8. CASE PollPending
  <2>1. /\ UNCHANGED <<search_requests, registered, refused, next_msgid, read_requests>>
        /\ request_queue_pop
        /\ pending' = pending \/ pending' = Append(pending, Top)
        /\ pc' # "search_callback"
    BY <1>8 DEF PollPending, request_queue_pop
  <2>2. Outstanding' \subseteq Outstanding
    <3>1. /\ QueuedMsgids' \subseteq QueuedMsgids /\ Top.msgid \in QueuedMsgids
      BY <2>1, PopPlaces DEF EveryRequestInOnePlace, request_queue_pop
    <3>2. Top \in Requests /\ pending \in Seq(Requests)
      BY <1>8, PopSlots DEF PollPending, SlotInv, TypeOK, TypeConn
    <3>3. PendingMsgids' \subseteq PendingMsgids \cup {Top.msgid}
      <4>1. CASE pending' = pending
        BY <4>1 DEF PendingMsgids
      <4>2. CASE pending' = Append(pending, Top)
        BY <4>2, <3>2, PendPlaces
      <4>3. QED
        BY <4>1, <4>2, <2>1
    <3>4. QED
      BY <3>1, <3>3 DEF Outstanding
  <2>3. QED
    BY <2>1, <2>2, <1>5 DEF CallbackSlot
<1>9. CASE OnReadEnd
  <2>1. /\ UNCHANGED <<search_requests, registered, refused, next_msgid>>
        /\ pc' = "idle"
    BY <1>9 DEF OnReadEnd
  <2>2. Outstanding' \subseteq Outstanding
    BY <1>9, EndPlaces DEF Outstanding
  <2>3. QED
    BY <2>1, <2>2, <1>5 DEF CallbackSlot
<1>10. ~PollFailed /\ ~PollFailedNoOption
  BY DEF PollFailed, PollFailedNoOption
<1>11. QED
  BY <1>2, <1>3, <1>4, <1>6, <1>7, <1>8, <1>9, <1>10 DEF Next, OnRead

\* For any length of the arrays, whatever the callbacks issue and however
\* often the connection is set up again: as long as the queue refused no
\* request, a search that search() accepted and that still waits has its
\* callback in the table, although connection_remove_search_request compares
\* its index with the count of another array.
THEOREM RegisteredSearchAlwaysHasEntry ==
  ASSUME Faults \subseteq {"reconnect"}
  PROVE  Spec => [](refused = {} => RegisteredSearchHasEntry)
<1>1. Init => CallInv /\ TableInv /\ KeepInv
  BY DEF Init, CallInv, TableRegistered, CallbackAnswered, CalledWereAnswered,
         TableInv, EntriesDistinct, OnlySearchesHaveEntries, EntriesLive, Waiting,
         ToSet, KeepInv, CallbackSlot, EntriesKept, RegisteredIssued,
         RegisteredSearchHasEntry
<1>2. KeepInv => (refused = {} => RegisteredSearchHasEntry)
  BY DEF KeepInv, EntriesKept
<1>3. PlaceInv => SlotInv
  BY DEF PlaceInv
<1>4. QED
  BY <1>1, <1>2, <1>3, NextCalls, NextTable, NextKeep, PlaceInvariance, PTL DEF Spec

-----------------------------------------------------------------------------
(* No answer is dropped or taken twice.                                    *)

Arrived == ToSet(wire) \cup buffered

\* Answers belong to requests that were issued over this LDAP handle.
AnswersIssued == unanswered \cup Arrived \subseteq Issued

AnswerInv == AnswersAccounted /\ AnswersIssued

\* Reading k messages off the socket splits the wire in two.
LEMMA WireSplit ==
  ASSUME NEW S, NEW w \in Seq(S), IsInjective(w), NEW k \in Nat, k <= Len(w)
  PROVE  /\ ToSet(SubSeq(w, 1, k)) \cup ToSet(SubSeq(w, k + 1, Len(w))) = ToSet(w)
         /\ ToSet(SubSeq(w, 1, k)) \cap ToSet(SubSeq(w, k + 1, Len(w))) = {}
         /\ IsInjective(SubSeq(w, k + 1, Len(w)))
         /\ k > 0 => /\ ToSet(SubSeq(w, 1, k - 1)) = ToSet(SubSeq(w, 1, k)) \ {w[k]}
                     /\ w[k] \in ToSet(SubSeq(w, 1, k))
<1> DEFINE l == Len(w)
           a == SubSeq(w, 1, k)
           b == SubSeq(w, k + 1, l)
           c == SubSeq(w, 1, k - 1)
<1>1. /\ l \in Nat /\ DOMAIN w = 1 .. l
      /\ \A i, j \in 1 .. l : w[i] = w[j] => i = j
  BY DEF IsInjective
<1>2. /\ DOMAIN a = 1 .. k /\ \A i \in 1 .. k : a[i] = w[i]
      /\ DOMAIN b = 1 .. (l - k) /\ \A i \in 1 .. (l - k) : b[i] = w[k + i]
      /\ k > 0 => DOMAIN c = 1 .. (k - 1) /\ \A i \in 1 .. (k - 1) : c[i] = w[i]
  BY <1>1
<1> HIDE DEF a, b, c, l
<1>3. /\ \A x : x \in ToSet(a) <=> \E i \in 1 .. k : w[i] = x
      /\ \A x : x \in ToSet(b) <=> \E i \in 1 .. (l - k) : w[k + i] = x
      /\ \A x : x \in ToSet(w) <=> \E i \in 1 .. l : w[i] = x
      /\ k > 0 => \A x : x \in ToSet(c) <=> \E i \in 1 .. (k - 1) : w[i] = x
  <2>1. \A f, x : x \in ToSet(f) <=> \E i \in DOMAIN f : f[i] = x
    BY DEF ToSet
  <2>2. \A x : x \in ToSet(a) <=> \E i \in 1 .. k : w[i] = x
    BY <2>1, <1>2
  <2>3. \A x : x \in ToSet(b) <=> \E i \in 1 .. (l - k) : w[k + i] = x
    <3>1. DOMAIN b = 1 .. (l - k) /\ \A i \in DOMAIN b : b[i] = w[k + i]
      BY <1>2
    <3>2. \A x : x \in ToSet(b) <=> \E i \in DOMAIN b : w[k + i] = x
      <4> TAKE x
      <4>1. x \in ToSet(b) <=> \E i \in DOMAIN b : b[i] = x
        BY <2>1
      <4>2. QED
        BY <3>1, <4>1
    <3>3. QED
      BY <3>1, <3>2
  <2>4. k > 0 => \A x : x \in ToSet(c) <=> \E i \in 1 .. (k - 1) : w[i] = x
    BY <2>1, <1>2
  <2>5. QED
    BY <2>1, <2>2, <2>3, <2>4, <1>1
<1>4. \A i \in 1 .. (l - k) : k + i \in 1 .. l /\ k + i \notin 1 .. k
  BY <1>1
<1>5. \A i \in 1 .. l : i \in 1 .. k \/ (i - k \in 1 .. (l - k) /\ k + (i - k) = i)
  BY <1>1
<1>6. k <= l
  BY DEF l
<1>7. \A i \in 1 .. k : i \in 1 .. l
  BY <1>1, <1>6
<1>8. ToSet(a) \cup ToSet(b) = ToSet(w)
  BY <1>3, <1>4, <1>5, <1>7
<1>9. ToSet(a) \cap ToSet(b) = {}
  BY <1>1, <1>3, <1>4, <1>7
<1>10. IsInjective(b)
  <2>1. \A i, j \in 1 .. (l - k) : b[i] = b[j] => k + i = k + j
    BY <1>1, <1>2, <1>4
  <2>2. \A i, j \in 1 .. (l - k) : k + i = k + j => i = j
    BY <1>1
  <2>3. QED
    BY <2>1, <2>2, <1>2 DEF IsInjective
<1>11. ASSUME k > 0
       PROVE  ToSet(c) = ToSet(a) \ {w[k]} /\ w[k] \in ToSet(a)
  <2>1. /\ k \in 1 .. k /\ \A i \in 1 .. k : i \in 1 .. (k - 1) \/ i = k
        /\ \A i \in 1 .. (k - 1) : i \in 1 .. k /\ i # k
    BY <1>11
  <2>2. QED
    BY <2>1, <1>1, <1>3, <1>7, <1>11
<1>12. QED
  BY <1>8, <1>9, <1>10, <1>11 DEF a, b, c, l

\* ldap_result takes out the answer it is asked for; every other one stays on
\* the wire or is stored.
LEMMA ResultPlaces ==
  ASSUME wire \in Seq(Msgids), IsInjective(wire), ToSet(wire) \cap buffered = {},
         NEW m, ldap_result(m)
  PROVE  /\ IsInjective(wire') /\ ToSet(wire') \cap buffered' = {}
         /\ m \in Arrived /\ Arrived' = Arrived \ {m}
<1>1. CASE m \in buffered
  <2>1. buffered' = buffered \ {m} /\ wire' = wire
    BY <1>1 DEF ldap_result
  <2>2. QED
    BY <1>1, <2>1 DEF Arrived
<1>2. CASE m \notin buffered
  <2>1. PICK k \in 1 .. Len(wire) :
            /\ wire[k] = m
            /\ wire' = SubSeq(wire, k + 1, Len(wire))
            /\ buffered' = buffered \cup ToSet(SubSeq(wire, 1, k - 1))
    BY <1>2 DEF ldap_result
  <2> DEFINE A == ToSet(SubSeq(wire, 1, k))
             B == ToSet(SubSeq(wire, k + 1, Len(wire)))
             C == ToSet(SubSeq(wire, 1, k - 1))
  <2>2. k \in Nat /\ k <= Len(wire) /\ k > 0
    OBVIOUS
  <2>3. /\ A \cup B = ToSet(wire) /\ A \cap B = {}
        /\ IsInjective(wire') /\ C = A \ {m} /\ m \in A
    BY <2>1, <2>2, WireSplit
  <2>4. ToSet(wire') = B /\ buffered' = buffered \cup C
    BY <2>1
  <2> HIDE DEF A, B, C
  <2>5. QED
    BY <2>3, <2>4, <1>2 DEF Arrived
<1>3. QED
  BY <1>1, <1>2

\* A call that times out stores what it read and loses none of it.
LEMMA TimeoutPlaces ==
  ASSUME wire \in Seq(Msgids), IsInjective(wire), ToSet(wire) \cap buffered = {},
         NEW m, ldap_result_timeout(m)
  PROVE  /\ IsInjective(wire') /\ ToSet(wire') \cap buffered' = {}
         /\ Arrived' = Arrived
<1>1. PICK k \in 0 .. Len(wire) :
          /\ wire' = SubSeq(wire, k + 1, Len(wire))
          /\ buffered' = buffered \cup ToSet(SubSeq(wire, 1, k))
  BY DEF ldap_result_timeout, ReadWire
<1> DEFINE A == ToSet(SubSeq(wire, 1, k))
           B == ToSet(SubSeq(wire, k + 1, Len(wire)))
<1>2. k \in Nat /\ k <= Len(wire)
  OBVIOUS
<1>3. A \cup B = ToSet(wire) /\ A \cap B = {} /\ IsInjective(wire')
  BY <1>1, <1>2, WireSplit
<1>4. ToSet(wire') = B /\ buffered' = buffered \cup A
  BY <1>1
<1> HIDE DEF A, B
<1>5. QED
  BY <1>3, <1>4 DEF Arrived

\* Every step keeps each answer in one place.
LEMMA NextAnswers == PlaceInv /\ AnswerInv /\ [Next]_vars => AnswerInv'
<1> SUFFICES ASSUME SlotInv, EveryRequestInOnePlace, AnswerInv, [Next]_vars
             PROVE  AnswerInv'
  BY DEF PlaceInv
<1>1. /\ wire \in Seq(Msgids)
      /\ IsInjective(wire)
      /\ unanswered \cap Arrived = {} /\ ToSet(wire) \cap buffered = {}
      /\ Outstanding \subseteq unanswered \cup Arrived
      /\ handled \cap (unanswered \cup Arrived) = {}
      /\ unanswered \cup Arrived \subseteq Issued
  BY DEF SlotInv, TypeOK, TypeLdap, AnswerInv, AnswersAccounted, AnswersIssued, Arrived
<1>2. ASSUME IsInjective(wire'),
             unanswered' \cap Arrived' = {}, ToSet(wire') \cap buffered' = {},
             Outstanding' \subseteq unanswered' \cup Arrived',
             handled' \cap (unanswered' \cup Arrived') = {},
             unanswered' \cup Arrived' \subseteq Issued'
      PROVE  AnswerInv'
  BY <1>2 DEF AnswerInv, AnswersAccounted, AnswersIssued, Arrived
<1>3. CASE Issue
  <2>1. PICK op \in Ops : MayIssue(op) /\ Enqueue(op)
    BY <1>3 DEF Issue, add, modify, ld_delete, ld_rename, whoami, search, MayIssue
  <2>2. /\ next_msgid \notin Issued /\ Issued' = Issued \cup {next_msgid}
        /\ Outstanding' \subseteq Outstanding \cup {next_msgid}
        /\ handled' = handled
    BY <2>1, IssuePlaces DEF Outstanding
  <2>3. /\ unanswered' = unanswered \cup {next_msgid} /\ UNCHANGED <<wire, buffered>>
        /\ pc # "corrupted"
    BY <2>1 DEF Enqueue, MayIssue, InApplication
  <2>4. handled \subseteq Issued
    BY <2>3 DEF EveryRequestInOnePlace
  <2>5. Arrived' = Arrived
    BY <2>3 DEF Arrived
  <2>6. QED
    BY <2>2, <2>3, <2>4, <2>5, <1>1, <1>2
<1>4. CASE ServerAnswers
  <2>1. PICK m \in unanswered : unanswered' = unanswered \ {m} /\ wire' = Append(wire, m)
    BY <1>4 DEF ServerAnswers
  <2>2. UNCHANGED <<read_requests, callqueue, pending, next_msgid, handled,
                    failed, forgotten, refused, buffered>>
    BY <1>4 DEF ServerAnswers, conn, history
  <2>3. Outstanding' = Outstanding /\ Issued' = Issued
    BY <2>2, SamePlaces
  <2>4. m \in Msgids /\ m \notin ToSet(wire)
    BY <1>1 DEF SlotInv, TypeOK, TypeLdap, Arrived
  <2>5. ToSet(wire') = ToSet(wire) \cup {m} /\ IsInjective(wire')
    <3> DEFINE a == Append(wire, m)
               l == Len(wire)
    <3>1. /\ l \in Nat /\ DOMAIN wire = 1 .. l /\ DOMAIN a = 1 .. (l + 1)
          /\ \A i \in 1 .. l : a[i] = wire[i]
          /\ a[l + 1] = m
      BY <1>1, <2>4, AppendFacts
    <3>2. wire' = a
      BY <2>1
    <3> HIDE DEF a, l
    <3>3. /\ \A i \in DOMAIN a : i \in 1 .. l \/ i = l + 1
          /\ l + 1 \in DOMAIN a /\ \A i \in 1 .. l : i \in DOMAIN a
      BY <3>1
    <3>4. \A i \in 1 .. l : wire[i] # m
      BY <2>4, <3>1 DEF ToSet
    <3>5. ToSet(a) = ToSet(wire) \cup {m}
      BY <3>1, <3>3 DEF ToSet
    <3>6. IsInjective(a)
      BY <3>1, <3>3, <3>4, <1>1 DEF IsInjective
    <3>7. QED
      BY <3>2, <3>5, <3>6
  <2>6. QED
    BY <2>1, <2>2, <2>3, <2>4, <2>5, <1>1, <1>2 DEF Arrived
<1>5. CASE connection_configure
  <2>1. /\ callqueue' = <<>> /\ pending' = <<>> /\ unanswered' = {} /\ wire' = <<>>
        /\ buffered' = {} /\ handled' = {}
    BY <1>5 DEF connection_configure, SlotInv, PendingOnlyInLoop
  <2>2. DOMAIN callqueue' = {} /\ DOMAIN pending' = {} /\ DOMAIN wire' = {}
    BY <2>1
  <2>3. Outstanding' = {} /\ ToSet(wire') = {} /\ IsInjective(wire')
    BY <2>2 DEF Outstanding, QueuedMsgids, PendingMsgids, ToSet, IsInjective
  <2>4. QED
    BY <2>1, <2>3, <1>2 DEF Arrived
<1>6. ASSUME request_queue_pop, UNCHANGED read_requests
      PROVE  /\ pc # "corrupted" /\ Top.msgid \in QueuedMsgids
             /\ QueuedMsgids' = QueuedMsgids \ {Top.msgid}
  <2>1. pc # "corrupted"
    BY <1>6 DEF request_queue_pop
  <2>2. QED
    BY <2>1, <1>6, PopPlaces DEF EveryRequestInOnePlace
<1>7. CASE PollAnswered
  <2>1. /\ request_queue_pop
        /\ UNCHANGED <<read_requests, pending, next_msgid, unanswered>>
        /\ ldap_result(Top.msgid) /\ handled' = handled \cup {Top.msgid}
    BY <1>7 DEF PollAnswered
  <2>2. /\ IsInjective(wire') /\ ToSet(wire') \cap buffered' = {}
        /\ Top.msgid \in Arrived /\ Arrived' = Arrived \ {Top.msgid}
    BY <2>1, <1>1, ResultPlaces
  <2>3. Outstanding' = Outstanding \ {Top.msgid} /\ Issued' = Issued
    <3>1. PendingMsgids' = PendingMsgids /\ Issued' = Issued
      BY <2>1 DEF PendingMsgids, Issued
    <3>2. Top.msgid \notin PendingMsgids
      BY <2>1, <1>6 DEF EveryRequestInOnePlace
    <3>3. QED
      BY <3>1, <3>2, <2>1, <1>6 DEF Outstanding
  <2>4. QED
    BY <2>1, <2>2, <2>3, <1>1, <1>2
<1>8. ASSUME Outstanding' \subseteq Outstanding, Arrived' = Arrived,
             IsInjective(wire'), ToSet(wire') \cap buffered' = {},
             UNCHANGED <<unanswered, handled, next_msgid>>
      PROVE  AnswerInv'
  <2>1. Issued' = Issued
    BY <1>8 DEF Issued
  <2>2. QED
    BY <1>1, <1>2, <1>8, <2>1
<1>9. CASE PollPending
  <2>1. /\ request_queue_pop
        /\ UNCHANGED <<read_requests, next_msgid, unanswered, handled>>
        /\ ldap_result_timeout(Top.msgid)
        /\ pending' = pending \/ pending' = Append(pending, Top)
    BY <1>9 DEF PollPending, history
  <2>2. Outstanding' \subseteq Outstanding
    <3>1. Top \in Requests /\ pending \in Seq(Requests)
      BY <1>9, PopSlots DEF PollPending, SlotInv, TypeOK, TypeConn
    <3>2. PendingMsgids' \subseteq PendingMsgids \cup {Top.msgid}
      <4>1. CASE pending' = pending
        BY <4>1 DEF PendingMsgids
      <4>2. CASE pending' = Append(pending, Top)
        BY <4>2, <3>1, PendPlaces
      <4>3. QED
        BY <4>1, <4>2, <2>1
    <3>3. QED
      BY <3>2, <2>1, <1>6 DEF Outstanding
  <2>3. QED
    BY <2>1, <2>2, <1>1, <1>8, TimeoutPlaces
<1>10. CASE PollFailed \/ PollFailedNoOption
  <2>1. /\ request_queue_pop
        /\ UNCHANGED <<read_requests, next_msgid, unanswered, handled, wire, buffered>>
        /\ pending' = pending \/ pending' = <<>>
    BY <1>10 DEF PollFailed, PollFailedNoOption, libldap
  <2>2. PendingMsgids' \subseteq PendingMsgids
    <3>1. CASE pending' = pending
      BY <3>1 DEF PendingMsgids
    <3>2. CASE pending' = <<>>
      BY <3>2 DEF PendingMsgids
    <3>3. QED
      BY <3>1, <3>2, <2>1
  <2>3. Outstanding' \subseteq Outstanding
    BY <2>1, <2>2, <1>6 DEF Outstanding
  <2>4. QED
    BY <2>1, <2>3, <1>1, <1>8 DEF Arrived
<1>11. CASE OnReadEnd
  <2>1. Outstanding' \subseteq Outstanding
    BY <1>11, EndPlaces DEF Outstanding
  <2>2. UNCHANGED <<next_msgid, unanswered, handled, wire, buffered>>
    BY <1>11 DEF OnReadEnd, libldap, history
  <2>3. QED
    BY <2>1, <2>2, <1>1, <1>8 DEF Arrived
<1>12. CASE \/ Overrun \/ ld_install_error_handler \/ OnReadBegin
            \/ SearchCallbackReturns \/ ErrorCallbackReturns \/ UNCHANGED vars
  <2>1. UNCHANGED <<read_requests, callqueue, pending, next_msgid, handled,
                    failed, forgotten, refused, unanswered, wire, buffered>>
    BY <1>12 DEF Overrun, ld_install_error_handler, OnReadBegin,
                 SearchCallbackReturns, ErrorCallbackReturns, vars, conn, history,
                 libldap
  <2>2. Outstanding' = Outstanding
    BY <2>1, SamePlaces
  <2>3. QED
    BY <2>1, <2>2, <1>1, <1>8 DEF Arrived
<1>13. QED
  BY <1>3, <1>4, <1>5, <1>7, <1>9, <1>10, <1>11, <1>12 DEF Next, OnRead

\* Whichever calls fail and however often ldap_result gives up half way: the
\* answer of a request that waits is still to come, on the wire or stored, and
\* no handler was called for an answer that did not arrive.
THEOREM AnswersAlwaysAccounted == Spec => []AnswersAccounted
<1>1. Init => AnswerInv
  BY DEF Init, AnswerInv, AnswersAccounted, AnswersIssued, Arrived, Outstanding,
         QueuedMsgids, PendingMsgids, ToSet, IsInjective
<1>2. AnswerInv => AnswersAccounted
  BY DEF AnswerInv
<1>3. QED
  BY <1>1, <1>2, NextAnswers, PlaceInvariance, PTL DEF Spec

-----------------------------------------------------------------------------
(* connection_on_read comes to its end. What fairness adds to these two    *)
(* theorems gives OnReadReturns and BufferedIsHandled.                     *)

InCallback == pc \in {"search_callback", "error_callback"}

\* What is left to do: two steps for each queued request (take it, return from
\* its callback), one more to issue each request the bound still allows.
WorkLeft ==
    2 * Len(callqueue) + 3 * ((MaxMsg + 1) - next_msgid)
        + (IF InCallback THEN 1 ELSE 0)

\* No step taken while connection_on_read runs adds work, and each of its own
\* takes some away: a request that gets no answer does not go back to the
\* queue the loop drains, and what a callback issues is paid for.
WorkShrinks ==
    [][pc # "idle" /\ pc' # "idle" =>
          WorkLeft' <= WorkLeft /\ (OnRead => WorkLeft' < WorkLeft)]_vars

\* One step, action by action.
LEMMA WorkStep ==
  ASSUME SlotInv, Next, pc # "idle", pc' # "idle"
  PROVE  WorkLeft' <= WorkLeft /\ (OnRead => WorkLeft' < WorkLeft)
<1> DEFINE q == Len(callqueue)
           left == (MaxMsg + 1) - next_msgid
           c == IF InCallback THEN 1 ELSE 0
<1>1. /\ q \in Nat /\ left \in Int /\ c \in {0, 1} /\ c' \in {0, 1}
      /\ callqueue \in Seq(Slots) /\ next_msgid \in Int /\ MaxMsg \in Int
  BY MaxMsgAssumption DEF SlotInv, TypeOK, TypeConn
<1>2. WorkLeft = 2 * q + 3 * left + c /\ WorkLeft' = 2 * q' + 3 * left' + c'
  BY DEF WorkLeft
<1>3. CASE OnRead
  <2>1. next_msgid' = next_msgid
    BY <1>3 DEF OnRead, OnReadBegin, PollAnswered, PollPending, PollFailed,
                PollFailedNoOption, SearchCallbackReturns, ErrorCallbackReturns,
                OnReadEnd
  <2>2. CASE PollAnswered \/ PollPending \/ PollFailed
    <3>1. request_queue_pop /\ UNCHANGED <<read_requests, n_read_requests>>
      BY <2>2 DEF PollAnswered, PollPending, PollFailed
    <3>2. q' = q - 1
      BY <3>1, PopSlots
    <3>3. left' = left
      BY <2>1
    <3> HIDE DEF q, c, left
    <3>4. WorkLeft' = 2 * (q - 1) + 3 * left + c'
      BY <3>2, <3>3, <1>2
    <3>5. \A x, y \in {0, 1} :
              2 * (q - 1) + 3 * left + y < 2 * q + 3 * left + x
      BY <1>1
    <3>6. 2 * (q - 1) + 3 * left + c' < 2 * q + 3 * left + c
      BY <3>5, <1>1
    <3>7. 2 * (q - 1) + 3 * left + c' \in Int /\ 2 * q + 3 * left + c \in Int
      BY <1>1
    <3>8. QED
      BY <3>4, <3>6, <3>7, <1>2
  <2>3. CASE SearchCallbackReturns \/ ErrorCallbackReturns
    <3>1. q' = q /\ c = 1 /\ c' = 0
      BY <2>3 DEF SearchCallbackReturns, ErrorCallbackReturns, Return, conn,
                  InCallback
    <3> HIDE DEF q, c
    <3>2. QED
      BY <3>1, <2>1, <1>1, <1>2
  <2>4. ~OnReadBegin /\ ~PollFailedNoOption /\ ~OnReadEnd
    BY DEF OnReadBegin, PollFailedNoOption, OnReadEnd
  <2>5. QED
    BY <1>3, <2>2, <2>3, <2>4 DEF OnRead
<1>4. CASE Issue
  <2>1. PICK op \in Ops : MayIssue(op) /\ Enqueue(op)
    BY <1>4 DEF Issue, add, modify, ld_delete, ld_rename, whoami, search, MayIssue
  <2>2. /\ next_msgid' = next_msgid + 1 /\ pc' = pc /\ n_read_requests \in Slots
        /\ callqueue' = callqueue \/ callqueue' = Append(callqueue, n_read_requests)
    BY <2>1 DEF Enqueue, request_queue_push
  <2>3. q' = q \/ q' = q + 1
    BY <2>2, <1>1, AppendFacts
  <2>4. c' = c
    BY <2>2 DEF InCallback
  <2>5. ~OnRead
    BY <2>1, <2>2, <1>1 DEF OnRead, OnReadBegin, PollAnswered, PollPending, PollFailed,
                PollFailedNoOption, SearchCallbackReturns, ErrorCallbackReturns,
                OnReadEnd
  <2> HIDE DEF q, c
  <2>6. QED
    BY <2>2, <2>3, <2>4, <2>5, <1>1, <1>2
<1>5. CASE Overrun \/ ld_install_error_handler \/ ServerAnswers
  <2>1. UNCHANGED <<callqueue, next_msgid>> /\ (pc' = pc \/ pc' = "corrupted")
    BY <1>5 DEF Overrun, ld_install_error_handler, ServerAnswers, conn
  <2>2. c' <= c
    BY <2>1 DEF InCallback
  <2> HIDE DEF c
  <2>3. QED
    BY <2>1, <2>2, <1>1, <1>2, <1>3
<1>6. ~connection_configure
  BY DEF connection_configure
<1>7. QED
  BY <1>3, <1>4, <1>5, <1>6 DEF Next

\* For every length of the arrays and every set of failures connection_on_read
\* has only finitely many steps to take, as many as WorkLeft says: it cannot
\* go round its loop forever over requests the server does not answer.
THEOREM OnReadWorkShrinks == Spec => WorkShrinks
<1>1. SlotInv /\ [Next]_vars => [pc # "idle" /\ pc' # "idle" =>
          WorkLeft' <= WorkLeft /\ (OnRead => WorkLeft' < WorkLeft)]_vars
  BY WorkStep
<1>2. QED
  BY <1>1, SlotInvariance, PTL DEF Spec, WorkShrinks

\* ... and WorkLeft is a natural number, so there is an end to it.
THEOREM WorkLeftIsNatural == Spec => [](WorkLeft \in Nat)
<1>1. SlotInv => WorkLeft \in Nat
  <2> SUFFICES ASSUME SlotInv PROVE WorkLeft \in Nat
    OBVIOUS
  <2>1. Len(callqueue) \in Nat /\ next_msgid \in 1 .. (MaxMsg + 1)
    BY DEF SlotInv, TypeOK, TypeConn
  <2>2. QED
    BY <2>1, MaxMsgAssumption DEF WorkLeft
<1>2. QED
  BY <1>1, SlotInvariance, PTL

\* A queued request whose answer libldap stored: in the running
\* connection_on_read nothing but its own handler takes it out of the queue.
Deliverable(m) == pc # "idle" /\ m \in buffered /\ m \in QueuedMsgids

BufferedStays ==
    \A m \in Msgids :
        [][Deliverable(m) => Deliverable(m)' \/ m \in handled']_vars

\* One step: only PollAnswered takes a request with a stored answer.
LEMMA DeliverableStep ==
  ASSUME "result_fails" \notin Faults, PlaceInv, Next, NEW m \in Msgids,
         Deliverable(m)
  PROVE  Deliverable(m)' \/ m \in handled'
<1>1. SlotInv /\ EveryRequestInOnePlace
  BY DEF PlaceInv
<1>2. pc # "idle" /\ m \in buffered /\ m \in QueuedMsgids
  BY DEF Deliverable
<1>3. CASE Issue
  <2>1. PICK op \in Ops : MayIssue(op) /\ Enqueue(op)
    BY <1>3 DEF Issue, add, modify, ld_delete, ld_rename, whoami, search, MayIssue
  <2>2. QueuedMsgids \subseteq QueuedMsgids'
    BY <2>1, <1>1, IssuePlaces
  <2>3. QED
    BY <2>1, <2>2, <1>2 DEF Enqueue, Deliverable
<1>4. CASE \/ Overrun \/ ld_install_error_handler \/ SearchCallbackReturns
           \/ ErrorCallbackReturns \/ ServerAnswers
  BY <1>2, <1>4
  DEF Overrun, ld_install_error_handler, SearchCallbackReturns,
      ErrorCallbackReturns, Return, ServerAnswers, conn, libldap, Deliverable,
      QueuedMsgids, SlotMsgid
<1>5. ASSUME request_queue_pop, UNCHANGED read_requests
      PROVE  /\ Top.msgid \in QueuedMsgids
             /\ QueuedMsgids' = QueuedMsgids \ {Top.msgid}
  BY <1>1, <1>5, PopPlaces DEF EveryRequestInOnePlace, request_queue_pop
<1>6. CASE PollAnswered
  <2>1. CASE m = Top.msgid
    BY <1>6, <2>1 DEF PollAnswered
  <2>2. CASE m # Top.msgid
    <3>1. m \in QueuedMsgids'
      BY <1>2, <1>5, <1>6, <2>2 DEF PollAnswered
    <3>2. m \in buffered'
      <4>1. ldap_result(Top.msgid)
        BY <1>6 DEF PollAnswered
      <4>2. QED
        BY <4>1, <1>2, <2>2 DEF ldap_result
    <3>3. pc' # "idle"
      BY <1>6 DEF PollAnswered, on_read_operation, add_on_read, modify_on_read,
                  delete_on_read, rename_on_read, whoami_on_read, search_on_read,
                  ReportError, Return
    <3>4. QED
      BY <3>1, <3>2, <3>3 DEF Deliverable
  <2>3. QED
    BY <2>1, <2>2
<1>7. CASE PollPending
  <2>1. /\ ldap_result_timeout(Top.msgid) /\ request_queue_pop
        /\ UNCHANGED read_requests
    BY <1>7 DEF PollPending
  <2>2. m # Top.msgid /\ m \in buffered'
    BY <2>1, <1>2 DEF ldap_result_timeout, ReadWire
  <2>3. m \in QueuedMsgids'
    BY <2>1, <2>2, <1>2, <1>5
  <2>4. pc' # "idle"
    BY <1>7 DEF PollPending, request_queue_pop
  <2>5. QED
    BY <2>2, <2>3, <2>4 DEF Deliverable
<1>8. CASE OnReadEnd
  BY <1>1, <1>2, <1>8, EndPlaces
<1>9. ~PollFailed /\ ~PollFailedNoOption /\ ~OnReadBegin /\ ~connection_configure
  BY <1>2 DEF PollFailed, PollFailedNoOption, OnReadBegin, connection_configure
<1>10. QED
  BY <1>3, <1>4, <1>6, <1>7, <1>8, <1>9 DEF Next, OnRead

\* Unless ldap_result fails, connection_on_read does not return, and does not
\* set the request aside, while libldap holds the answer of a queued request:
\* its handler is called first.
THEOREM BufferedStaysUntilHandled ==
  ASSUME "result_fails" \notin Faults
  PROVE  Spec => BufferedStays
<1>1. ASSUME NEW m \in Msgids
      PROVE  Spec => [][Deliverable(m) => Deliverable(m)' \/ m \in handled']_vars
  <2>1. PlaceInv /\ [Next]_vars =>
            [Deliverable(m) => Deliverable(m)' \/ m \in handled']_vars
    BY DeliverableStep
  <2>2. QED
    BY <2>1, PlaceInvariance, PTL DEF Spec
<1>2. QED
  BY <1>1 DEF BufferedStays
=============================================================================
