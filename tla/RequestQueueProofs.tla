-------------------------- MODULE RequestQueueProofs --------------------------
(***************************************************************************)
(* Proofs about RequestQueue, for any number of queues and nodes and any   *)
(* capacities: the linked nodes always spell out a queue, and the pointer  *)
(* code implements RequestFifo.                                            *)
(***************************************************************************)
EXTENDS RequestQueue, TLAPS

\* TypeOK and Linked are not inductive without NodesDistinct: linking a node
\* behind the tail of one queue must not change the links of another.
IInv == TypeOK /\ NodesDistinct /\ Linked

-----------------------------------------------------------------------------
\* New queues are empty.
LEMMA InitInv == Init => IInv
  BY NullAssumption, CapacityAssumption
  DEF Init, IInv, TypeOK, NodesDistinct, Linked, Pointers, Codes

\* request_queue_push that takes the node in keeps the links in order.
LEMMA LinkInv ==
  ASSUME IInv, NEW q \in Queues, NEW n \in Nodes, ~Queued(n),
         size[q] < capacity[q], Link(q, n)
  PROVE  IInv'
<1> DEFINE s == fifo[q]
<1> USE NullAssumption, CapacityAssumption
<1>1. /\ s \in Seq(Nodes)
      /\ \A r \in Queues : fifo[r] \in Seq(Nodes)
      /\ \A r \in Queues : \A i \in DOMAIN fifo[r] : fifo[r][i] # n
  BY DEF IInv, TypeOK, Queued
<1>2. /\ fifo' = [fifo EXCEPT ![q] = Append(s, n)]
      /\ fifo'[q] = Append(s, n)
      /\ \A r \in Queues : r # q => fifo'[r] = fifo[r]
  BY DEF Link, IInv, TypeOK
<1>3. /\ Append(s, n) \in Seq(Nodes)
      /\ Len(Append(s, n)) = Len(s) + 1
      /\ Append(s, n)[Len(s) + 1] = n
      /\ \A i \in 1 .. Len(s) : Append(s, n)[i] = s[i]
      /\ Len(s) \in Nat
      /\ DOMAIN s = 1 .. Len(s)
      /\ DOMAIN Append(s, n) = 1 .. (Len(s) + 1)
  BY <1>1
<1>4. s # <<>> <=> Len(s) # 0
  BY <1>1
<1>5. size[q] = Len(s)
  BY DEF IInv, Linked
<1>6. s # <<>> => tail[q] = s[Len(s)] /\ tail[q] \in Nodes /\ tail[q] # n
  BY <1>1, <1>3, <1>4 DEF IInv, Linked
<1>7. TypeOK'
  <2>1. prev' \in [Nodes -> Pointers]
    BY <1>4, <1>5, <1>6 DEF Link, IInv, TypeOK, Pointers
  <2>2. fifo' \in [Queues -> Seq(Nodes)]
    BY <1>2, <1>3 DEF IInv, TypeOK
  <2>3. size' \in [Queues -> Nat]
    BY DEF Link, IInv, TypeOK
  <2>4. head' \in [Queues -> Pointers] /\ tail' \in [Queues -> Pointers]
    BY DEF Link, IInv, TypeOK, Pointers
  <2>5. QED
    BY <2>1, <2>2, <2>3, <2>4 DEF Link, TypeOK, Codes
<1>8. NodesDistinct'
  <2> SUFFICES ASSUME NEW a \in Queues, NEW b \in Queues,
                      NEW i \in DOMAIN fifo'[a], NEW j \in DOMAIN fifo'[b],
                      fifo'[a][i] = fifo'[b][j]
               PROVE  a = b /\ i = j
    BY DEF NodesDistinct
  <2>1. CASE a = q /\ b = q
    BY <2>1, <1>1, <1>2, <1>3 DEF IInv, NodesDistinct
  <2>2. CASE a = q /\ b # q
    BY <2>2, <1>1, <1>2, <1>3 DEF IInv, NodesDistinct
  <2>3. CASE a # q /\ b = q
    BY <2>3, <1>1, <1>2, <1>3 DEF IInv, NodesDistinct
  <2>4. CASE a # q /\ b # q
    BY <2>4, <1>2 DEF IInv, NodesDistinct
  <2>5. QED
    BY <2>1, <2>2, <2>3, <2>4
<1>9. \A m \in Nodes : m # n /\ (s # <<>> => m # s[Len(s)]) => prev'[m] = prev[m]
  BY <1>4, <1>5, <1>6 DEF Link, IInv, TypeOK
<1>10. Linked'
  <2> SUFFICES ASSUME NEW r \in Queues
               PROVE  /\ size'[r] = Len(fifo'[r])
                      /\ size'[r] <= capacity[r]
                      /\ fifo'[r] = <<>> => head'[r] = NULL
                      /\ fifo'[r] # <<>> =>
                            /\ head'[r] = fifo'[r][1]
                            /\ tail'[r] = fifo'[r][Len(fifo'[r])]
                            /\ prev'[fifo'[r][Len(fifo'[r])]] = NULL
                      /\ \A i \in DOMAIN fifo'[r] : i < Len(fifo'[r]) =>
                             prev'[fifo'[r][i]] = fifo'[r][i + 1]
    BY DEF Linked
  <2>1. CASE r = q
    <3>1. size'[q] = Len(s) + 1 /\ size'[q] <= capacity[q]
      <4>1. size'[q] = size[q] + 1
        BY DEF Link, IInv, TypeOK
      <4>2. size[q] \in Nat /\ capacity[q] \in Nat /\ size[q] < capacity[q]
        BY DEF IInv, TypeOK
      <4>3. QED
        BY <4>1, <4>2, <1>5
    <3>2. head'[q] = Append(s, n)[1] /\ tail'[q] = n
      BY <1>3, <1>4, <1>5 DEF Link, IInv, TypeOK, Linked
    <3>3. prev'[n] = NULL
      BY <1>4, <1>5, <1>6 DEF Link, IInv, TypeOK
    <3>4. ASSUME NEW i \in 1 .. Len(s)
          PROVE  prev'[Append(s, n)[i]] = Append(s, n)[i + 1]
      <4>1. CASE i = Len(s)
        <5>1. s # <<>> /\ prev'[tail[q]] = n
          BY <4>1, <1>3, <1>4, <1>5, <1>6 DEF Link, IInv, TypeOK
        <5>2. QED
          BY <5>1, <4>1, <1>3, <1>6
      <4>2. CASE i # Len(s)
        <5>1. /\ i \in DOMAIN s /\ i < Len(s) /\ i + 1 \in 1 .. Len(s)
              /\ s[i] # s[Len(s)] /\ s[i] # n /\ s[i] \in Nodes
          BY <4>2, <1>1, <1>3 DEF IInv, NodesDistinct
        <5>2. prev[s[i]] = s[i + 1]
          BY <5>1 DEF IInv, Linked
        <5>3. QED
          BY <5>1, <5>2, <1>3, <1>9
      <4>3. QED
        BY <4>1, <4>2
    <3>5. QED
      BY <2>1, <1>2, <1>3, <3>1, <3>2, <3>3, <3>4
  <2>2. CASE r # q
    <3>1. /\ fifo'[r] = fifo[r] /\ size'[r] = size[r]
          /\ head'[r] = head[r] /\ tail'[r] = tail[r]
      BY <2>2, <1>2 DEF Link, IInv, TypeOK
    <3>2. \A i \in DOMAIN fifo[r] : prev'[fifo[r][i]] = prev[fifo[r][i]]
      <4> TAKE i \in DOMAIN fifo[r]
      <4>1. fifo[r][i] \in Nodes /\ fifo[r][i] # n
        BY <1>1
      <4>2. s # <<>> => fifo[r][i] # s[Len(s)]
        BY <2>2, <1>3, <1>4 DEF IInv, NodesDistinct
      <4>3. QED
        BY <4>1, <4>2, <1>9
    <3>3. fifo[r] # <<>> => Len(fifo[r]) \in DOMAIN fifo[r]
      BY <1>1
    <3>4. QED
      BY <3>1, <3>2, <3>3 DEF IInv, Linked
  <2>3. QED
    BY <2>1, <2>2
<1>11. QED
  BY <1>7, <1>8, <1>10 DEF IInv

\* request_queue_pop that takes a node out keeps the links in order; the node
\* behind it becomes the head, and there is none behind the last one.
LEMMA PopInv ==
  ASSUME IInv, NEW q \in Queues, size[q] > 0, head[q] # NULL,
         request_queue_pop(q)
  PROVE  IInv' /\ result' = Head(fifo[q]) /\ fifo[q] # <<>>
<1> DEFINE s == fifo[q]
           t == Tail(s)
<1> USE NullAssumption, CapacityAssumption
<1>1. /\ s \in Seq(Nodes)
      /\ \A r \in Queues : fifo[r] \in Seq(Nodes)
      /\ size[q] = Len(s)
      /\ size[q] \in Nat
  BY DEF IInv, TypeOK, Linked
<1>2. s # <<>> /\ Len(s) > 0
  BY <1>1
<1>3. /\ t \in Seq(Nodes)
      /\ Len(t) = Len(s) - 1
      /\ DOMAIN s = 1 .. Len(s)
      /\ DOMAIN t = 1 .. (Len(s) - 1)
      /\ \A i \in 1 .. (Len(s) - 1) : t[i] = s[i + 1]
      /\ Head(s) = s[1]
  BY <1>1, <1>2
<1>4. /\ result' = head[q]
      /\ head' = [head EXCEPT ![q] = prev[head[q]]]
      /\ size' = [size EXCEPT ![q] = size[q] - 1]
      /\ fifo' = [fifo EXCEPT ![q] = t]
      /\ UNCHANGED <<tail, prev>>
  BY <1>1 DEF request_queue_pop
<1> HIDE DEF t
<1>5. head[q] = s[1] /\ head[q] \in Nodes
  BY <1>1, <1>2, <1>3 DEF IInv, Linked
<1>6. /\ fifo'[q] = t
      /\ \A r \in Queues : r # q => fifo'[r] = fifo[r]
  BY <1>4 DEF IInv, TypeOK
<1>7. TypeOK'
  <2>1. fifo' \in [Queues -> Seq(Nodes)]
    BY <1>3, <1>4 DEF IInv, TypeOK
  <2>2. size' \in [Queues -> Nat]
    BY <1>1, <1>2, <1>4 DEF IInv, TypeOK
  <2>3. head' \in [Queues -> Pointers]
    BY <1>4, <1>5 DEF IInv, TypeOK
  <2>4. QED
    BY <2>1, <2>2, <2>3, <1>4, <1>5 DEF IInv, TypeOK, Pointers
<1>8. NodesDistinct'
  <2> SUFFICES ASSUME NEW a \in Queues, NEW b \in Queues,
                      NEW i \in DOMAIN fifo'[a], NEW j \in DOMAIN fifo'[b],
                      fifo'[a][i] = fifo'[b][j]
               PROVE  a = b /\ i = j
    BY DEF NodesDistinct
  <2>1. CASE a = q /\ b = q
    <3>1. i + 1 \in DOMAIN s /\ j + 1 \in DOMAIN s /\ s[i + 1] = s[j + 1]
      BY <2>1, <1>1, <1>3, <1>6
    <3>2. i + 1 = j + 1
      BY <3>1 DEF IInv, NodesDistinct
    <3>3. i \in Int /\ j \in Int
      BY <2>1, <1>1, <1>3, <1>6
    <3>4. QED
      BY <2>1, <3>2, <3>3
  <2>2. CASE a = q /\ b # q
    <3>1. i + 1 \in DOMAIN s /\ s[i + 1] = fifo[b][j] /\ j \in DOMAIN fifo[b]
      BY <2>2, <1>1, <1>3, <1>6
    <3>2. QED
      BY <2>2, <3>1 DEF IInv, NodesDistinct
  <2>3. CASE a # q /\ b = q
    <3>1. j + 1 \in DOMAIN s /\ fifo[a][i] = s[j + 1] /\ i \in DOMAIN fifo[a]
      BY <2>3, <1>1, <1>3, <1>6
    <3>2. QED
      BY <2>3, <3>1 DEF IInv, NodesDistinct
  <2>4. CASE a # q /\ b # q
    BY <2>4, <1>6 DEF IInv, NodesDistinct
  <2>5. QED
    BY <2>1, <2>2, <2>3, <2>4
<1>9. Linked'
  <2> SUFFICES ASSUME NEW r \in Queues
               PROVE  /\ size'[r] = Len(fifo'[r])
                      /\ size'[r] <= capacity[r]
                      /\ fifo'[r] = <<>> => head'[r] = NULL
                      /\ fifo'[r] # <<>> =>
                            /\ head'[r] = fifo'[r][1]
                            /\ tail'[r] = fifo'[r][Len(fifo'[r])]
                            /\ prev'[fifo'[r][Len(fifo'[r])]] = NULL
                      /\ \A i \in DOMAIN fifo'[r] : i < Len(fifo'[r]) =>
                             prev'[fifo'[r][i]] = fifo'[r][i + 1]
    BY DEF Linked
  <2>1. CASE r # q
    BY <2>1, <1>4, <1>6 DEF IInv, TypeOK, Linked
  <2>2. CASE r = q
    <3>1. size'[q] = Len(t) /\ size'[q] <= capacity[q]
      <4>1. size'[q] = size[q] - 1
        BY <1>4 DEF IInv, TypeOK
      <4>2. size[q] <= capacity[q] /\ capacity[q] \in Nat
        BY DEF IInv, Linked
      <4>3. QED
        BY <4>1, <4>2, <1>1, <1>3
    <3>2. head'[q] = prev[s[1]]
      BY <1>4, <1>5 DEF IInv, TypeOK
    <3>3. CASE Len(s) = 1
      <4>1. prev[s[1]] = NULL
        BY <3>3, <1>2 DEF IInv, Linked
      <4>2. t = <<>> /\ DOMAIN t = {}
        BY <3>3, <1>1, <1>3
      <4>3. QED
        BY <4>1, <4>2, <3>1, <3>2, <2>2, <1>6
    <3>4. CASE Len(s) # 1
      <4> DEFINE l == Len(s) - 1
      <4>0. l \in Nat /\ l > 0 /\ l + 1 = Len(s) /\ Len(t) = l
        <5>1. Len(s) \in Nat /\ Len(s) > 0 /\ Len(s) # 1
          BY <3>4, <1>1, <1>2
        <5>2. \A k \in Nat : k > 0 /\ k # 1 =>
                  k - 1 \in Nat /\ k - 1 > 0 /\ (k - 1) + 1 = k
          OBVIOUS
        <5> HIDE DEF s
        <5>4. l \in Nat /\ l > 0 /\ l + 1 = Len(s)
          BY <5>1, <5>2
        <5>3. Len(t) = l
          BY <1>3
        <5>5. QED
          BY <5>3, <5>4
      <4>1. prev[s[1]] = s[1 + 1]
        <5>1. 1 \in DOMAIN s /\ 1 < Len(s)
          BY <4>0, <1>3
        <5>2. QED
          BY <5>1 DEF IInv, Linked
      <4>2. t[1] = s[1 + 1] /\ t[l] = s[l + 1] /\ t # <<>>
        <5>1. \A i \in 1 .. l : t[i] = s[i + 1]
          BY <1>3
        <5>2. 1 \in 1 .. l /\ l \in 1 .. l
          BY <4>0
        <5>3. t # <<>>
          BY <4>0, <1>3
        <5>4. QED
          BY <5>1, <5>2, <5>3
      <4>3. tail[q] = s[Len(s)] /\ prev[s[Len(s)]] = NULL
        BY <1>2 DEF IInv, Linked
      <4>4. ASSUME NEW i \in DOMAIN t, i < Len(t)
            PROVE  prev[t[i]] = t[i + 1]
        <5>1. /\ i + 1 \in DOMAIN s /\ i + 1 < Len(s)
              /\ t[i] = s[i + 1] /\ t[i + 1] = s[i + 2]
          BY <4>4, <1>1, <1>3
        <5>2. prev[s[i + 1]] = s[(i + 1) + 1]
          BY <5>1 DEF IInv, Linked
        <5>3. QED
          BY <5>1, <5>2, <1>1, <1>3
      <4>5. head'[q] = t[1] /\ tail'[q] = t[Len(t)]
        BY <4>0, <4>1, <4>2, <4>3, <3>2, <1>3, <1>4
      <4>6. prev'[t[Len(t)]] = NULL
        BY <4>0, <4>2, <4>3, <1>3, <1>4
      <4>7. \A i \in DOMAIN t : i < Len(t) =>
               prev'[t[i]] = t[i + 1]
        BY <4>4, <1>4
      <4>8. QED
        BY <4>2, <4>5, <4>6, <4>7, <3>1, <2>2, <1>6
    <3>5. QED
      BY <3>3, <3>4
  <2>3. QED
    BY <2>1, <2>2
<1>10. QED
  BY <1>2, <1>3, <1>4, <1>5, <1>7, <1>8, <1>9 DEF IInv

\* What a concatenation looks like from either side of the seam.
LEMMA Concat ==
  ASSUME NEW S, NEW a \in Seq(S), NEW b \in Seq(S)
  PROVE  /\ a \o b \in Seq(S)
         /\ Len(a \o b) = Len(a) + Len(b)
         /\ DOMAIN (a \o b) = 1 .. (Len(a) + Len(b))
         /\ \A i \in 1 .. Len(a) : (a \o b)[i] = a[i]
         /\ \A i \in (Len(a) + 1) .. (Len(a) + Len(b)) :
                (a \o b)[i] = b[i - Len(a)]
<1>1. a \o b \in Seq(S) /\ Len(a) \in Nat /\ Len(b) \in Nat
  OBVIOUS
<1>2. Len(a \o b) = Len(a) + Len(b)
  OBVIOUS
<1>3. DOMAIN (a \o b) = 1 .. (Len(a) + Len(b))
  BY <1>1, <1>2
<1>4. \A i \in 1 .. Len(a) : (a \o b)[i] = a[i]
  OBVIOUS
<1>5. \A i \in (Len(a) + 1) .. (Len(a) + Len(b)) : (a \o b)[i] = b[i - Len(a)]
  OBVIOUS
<1>6. QED
  BY <1>1, <1>2, <1>3, <1>4, <1>5

\* request_queue_move that takes the nodes over keeps the links in order: the
\* newest node of one queue points to the oldest of the other.
LEMMA SpliceInv ==
  ASSUME IInv, NEW from \in Queues, NEW to \in Queues, from # to,
         head[from] # NULL, size[to] + size[from] <= capacity[to],
         Splice(from, to)
  PROVE  IInv'
<1> DEFINE s == fifo[from]
           t == fifo[to]
           u == t \o s
           m == Len(s)
           l == Len(t)
<1> USE NullAssumption, CapacityAssumption
<1>1. /\ s \in Seq(Nodes) /\ t \in Seq(Nodes)
      /\ \A r \in Queues : fifo[r] \in Seq(Nodes)
      /\ size[from] = m /\ size[to] = l
  BY DEF IInv, TypeOK, Linked
<1>2. s # <<>>
  BY DEF IInv, Linked
<1>3. /\ m \in Nat /\ l \in Nat /\ m > 0
      /\ DOMAIN s = 1 .. m /\ DOMAIN t = 1 .. l
      /\ t = <<>> <=> l = 0
  BY <1>1, <1>2
<1>4. /\ u \in Seq(Nodes)
      /\ Len(u) = l + m
      /\ DOMAIN u = 1 .. (l + m)
      /\ \A i \in 1 .. l : u[i] = t[i]
      /\ \A i \in (l + 1) .. (l + m) : u[i] = s[i - l]
  <2> HIDE DEF s, t
  <2>1. s \in Seq(Nodes) /\ t \in Seq(Nodes)
    BY <1>1
  <2>2. QED
    BY <2>1, Concat
<1>5. /\ head[from] = s[1] /\ tail[from] = s[m] /\ prev[s[m]] = NULL
      /\ \A i \in 1 .. m : i < m => prev[s[i]] = s[i + 1]
  BY <1>2, <1>3 DEF IInv, Linked
<1>6. /\ l > 0 => head[to] = t[1] /\ tail[to] = t[l]
      /\ \A i \in 1 .. l : i < l => prev[t[i]] = t[i + 1]
  BY <1>3 DEF IInv, Linked
<1>7. /\ \A i \in 1 .. m : s[i] \in Nodes
      /\ \A i \in 1 .. l : t[i] \in Nodes
      /\ \A i \in 1 .. m, j \in 1 .. l : s[i] # t[j]
      /\ \A i, j \in 1 .. m : s[i] = s[j] => i = j
      /\ \A i, j \in 1 .. l : t[i] = t[j] => i = j
  BY <1>1, <1>3 DEF IInv, NodesDistinct
<1>8. /\ fifo' = [fifo EXCEPT ![to] = u, ![from] = <<>>]
      /\ size' = [size EXCEPT ![to] = l + m, ![from] = 0]
      /\ head' = [head EXCEPT ![to] = IF l > 0 THEN head[to] ELSE s[1],
                              ![from] = NULL]
      /\ tail' = [tail EXCEPT ![to] = s[m], ![from] = NULL]
      /\ prev' = IF l > 0 THEN [prev EXCEPT ![t[l]] = s[1]] ELSE prev
      /\ result' = "SUCCESS"
  BY <1>1, <1>5, <1>6 DEF Splice, IInv, TypeOK
<1> HIDE DEF s, t, u, m, l
<1>9. /\ fifo'[to] = u /\ fifo'[from] = <<>>
      /\ \A r \in Queues : r # to /\ r # from => fifo'[r] = fifo[r]
  BY <1>8 DEF IInv, TypeOK
<1>10. /\ size'[to] = l + m /\ size'[from] = 0
       /\ \A r \in Queues : r # to /\ r # from => size'[r] = size[r]
  BY <1>8 DEF IInv, TypeOK
<1>11. /\ head'[to] = (IF l > 0 THEN head[to] ELSE s[1]) /\ head'[from] = NULL
       /\ tail'[to] = s[m]
       /\ \A r \in Queues : r # to /\ r # from =>
              head'[r] = head[r] /\ tail'[r] = tail[r]
  BY <1>8 DEF IInv, TypeOK
<1>12. /\ l > 0 => prev'[t[l]] = s[1]
       /\ \A n \in Nodes : (l > 0 => n # t[l]) => prev'[n] = prev[n]
  BY <1>3, <1>7, <1>8 DEF IInv, TypeOK
<1>13. TypeOK'
  <2>1. fifo' \in [Queues -> Seq(Nodes)]
    <3>1. <<>> \in Seq(Nodes) /\ fifo \in [Queues -> Seq(Nodes)]
      BY DEF IInv, TypeOK
    <3>2. QED
      BY <3>1, <1>4, <1>8
  <2>2. size' \in [Queues -> Nat]
    BY <1>3, <1>8 DEF IInv, TypeOK
  <2>3. s[1] \in Nodes /\ s[m] \in Nodes
    BY <1>3, <1>7
  <2>4. head' \in [Queues -> Pointers] /\ tail' \in [Queues -> Pointers]
    BY <2>3, <1>8 DEF IInv, TypeOK, Pointers
  <2>5. prev' \in [Nodes -> Pointers]
    BY <2>3, <1>8 DEF IInv, TypeOK, Pointers
  <2>6. QED
    BY <2>1, <2>2, <2>4, <2>5, <1>8 DEF TypeOK, Codes
<1>14. NodesDistinct'
  <2> SUFFICES ASSUME NEW a \in Queues, NEW b \in Queues,
                      NEW i \in DOMAIN fifo'[a], NEW j \in DOMAIN fifo'[b],
                      fifo'[a][i] = fifo'[b][j]
               PROVE  a = b /\ i = j
    BY DEF NodesDistinct
  <2>1. a # from /\ b # from
    BY <1>9
  <2>2. \A k \in DOMAIN u : \/ k \in 1 .. l /\ u[k] = t[k]
                            \/ k - l \in 1 .. m /\ u[k] = s[k - l] /\ k \in Int
    BY <1>3, <1>4
  <2>3. CASE a = to /\ b = to
    <3>1. i \in DOMAIN u /\ j \in DOMAIN u /\ u[i] = u[j]
      BY <2>3, <1>9
    <3>2. CASE i \in 1 .. l
      <4>1. u[i] = t[i] \/ i - l \in 1 .. m
        BY <3>1, <2>2
      <4>2. i - l \notin 1 .. m
        BY <3>2, <1>3
      <4>3. \/ j \in 1 .. l /\ u[j] = t[j]
            \/ j - l \in 1 .. m /\ u[j] = s[j - l]
        BY <3>1, <2>2
      <4>4. i = j
        BY <4>1, <4>2, <4>3, <3>1, <3>2, <1>7
      <4>5. QED
        BY <4>4, <2>3
    <3>3. CASE i \notin 1 .. l
      <4>1. j \notin 1 .. l
        <5>1. i - l \in 1 .. m /\ u[i] = s[i - l]
          BY <3>1, <3>3, <2>2
        <5>2. ASSUME j \in 1 .. l PROVE FALSE
          <6>1. u[j] = t[j]
            BY <5>2, <1>4
          <6>2. QED
            BY <6>1, <5>1, <5>2, <3>1, <1>7
        <5>3. QED
          BY <5>2
      <4>2. i - l \in 1 .. m /\ j - l \in 1 .. m /\ s[i - l] = s[j - l]
        BY <4>1, <3>1, <3>3, <2>2
      <4>3. i - l = j - l
        BY <4>2, <1>7
      <4>4. i \in Int /\ j \in Int
        BY <4>1, <3>1, <3>3, <2>2
      <4>5. QED
        BY <4>3, <4>4, <2>3, <1>3
    <3>4. QED
      BY <3>2, <3>3
  <2>4. ASSUME NEW c \in Queues, c # to, c # from,
               NEW x \in DOMAIN u, NEW y \in DOMAIN fifo[c]
        PROVE  u[x] # fifo[c][y]
    <3>1. \A k \in 1 .. l : t[k] # fifo[c][y]
      BY <2>4, <1>3 DEF IInv, NodesDistinct, t
    <3>2. \A k \in 1 .. m : s[k] # fifo[c][y]
      BY <2>4, <1>3 DEF IInv, NodesDistinct, s
    <3>3. QED
      BY <3>1, <3>2, <2>2
  <2>5. CASE a = to /\ b # to
    BY <2>1, <2>4, <2>5, <1>9
  <2>6. CASE a # to /\ b = to
    BY <2>1, <2>4, <2>6, <1>9
  <2>7. CASE a # to /\ b # to
    BY <2>1, <2>7, <1>9 DEF IInv, NodesDistinct
  <2>8. QED
    BY <2>3, <2>5, <2>6, <2>7
<1>15. Linked'
  <2> SUFFICES ASSUME NEW r \in Queues
               PROVE  /\ size'[r] = Len(fifo'[r])
                      /\ size'[r] <= capacity[r]
                      /\ fifo'[r] = <<>> => head'[r] = NULL
                      /\ fifo'[r] # <<>> =>
                            /\ head'[r] = fifo'[r][1]
                            /\ tail'[r] = fifo'[r][Len(fifo'[r])]
                            /\ prev'[fifo'[r][Len(fifo'[r])]] = NULL
                      /\ \A i \in DOMAIN fifo'[r] : i < Len(fifo'[r]) =>
                             prev'[fifo'[r][i]] = fifo'[r][i + 1]
    BY DEF Linked
  <2>1. CASE r = from
    <3>1. size'[r] <= capacity[r]
      BY <2>1, <1>10
    <3>2. QED
      BY <3>1, <2>1, <1>9, <1>10, <1>11
  <2>2. CASE r = to
    <3>1. size'[to] = Len(u) /\ size'[to] <= capacity[to] /\ u # <<>>
      BY <1>1, <1>3, <1>4, <1>10
    <3>2. u[l + m] = s[m] /\ u[l + 1] = s[1]
      BY <1>3, <1>4
    <3>3. head'[to] = u[1]
      BY <3>2, <1>3, <1>4, <1>6, <1>11
    <3>4. tail'[to] = u[Len(u)] /\ prev'[u[Len(u)]] = NULL
      BY <3>2, <1>3, <1>4, <1>5, <1>7, <1>11, <1>12
    <3>5. ASSUME NEW i \in DOMAIN u, i < Len(u)
          PROVE  prev'[u[i]] = u[i + 1]
      <4>1. i \in 1 .. (l + m) /\ i < l + m /\ i \in Int
        BY <3>5, <1>3, <1>4
      <4>2. CASE i < l
        <5>1. i \in 1 .. l /\ i + 1 \in 1 .. l /\ u[i] = t[i] /\ u[i + 1] = t[i + 1]
          BY <4>1, <4>2, <1>3, <1>4
        <5>2. t[i] \in Nodes /\ t[i] # t[l]
          BY <5>1, <4>2, <1>3, <1>7
        <5>3. QED
          BY <5>1, <5>2, <4>2, <1>6, <1>12
      <4>3. CASE i = l
        <5>1. l > 0 /\ u[i] = t[l] /\ u[i + 1] = s[1]
          BY <4>1, <4>3, <3>2, <1>3, <1>4
        <5>2. QED
          BY <5>1, <1>12
      <4>4. CASE i > l
        <5> DEFINE k == i - l
        <5>1. /\ k \in 1 .. m /\ k < m /\ (i + 1) - l = k + 1
              /\ i \in (l + 1) .. (l + m) /\ i + 1 \in (l + 1) .. (l + m)
          BY <4>1, <4>4, <1>3
        <5>2. u[i] = s[k] /\ u[i + 1] = s[k + 1]
          <6>1. u[i] = s[i - l]
            BY <5>1, <1>4, Zenon
          <6>2. u[i + 1] = s[(i + 1) - l]
            BY <5>1, <1>4, Zenon
          <6>3. QED
            BY <6>1, <6>2, <5>1
        <5>3. s[k] \in Nodes /\ (l > 0 => s[k] # t[l])
          BY <5>1, <1>3, <1>7
        <5>4. prev[s[k]] = s[k + 1]
          BY <5>1, <1>5
        <5>5. QED
          BY <5>2, <5>3, <5>4, <1>12
      <4>5. QED
        BY <4>1, <4>2, <4>3, <4>4, <1>3
    <3>6. QED
      BY <3>1, <3>3, <3>4, <3>5, <2>2, <1>9
  <2>3. CASE r # from /\ r # to
    <3>1. /\ fifo'[r] = fifo[r] /\ size'[r] = size[r]
          /\ head'[r] = head[r] /\ tail'[r] = tail[r]
      BY <2>3, <1>9, <1>10, <1>11
    <3>2. \A i \in DOMAIN fifo[r] : prev'[fifo[r][i]] = prev[fifo[r][i]]
      <4> TAKE i \in DOMAIN fifo[r]
      <4>1. fifo[r][i] \in Nodes
        BY <1>1
      <4>2. l > 0 => fifo[r][i] # t[l]
        BY <2>3, <1>3 DEF IInv, NodesDistinct, t
      <4>3. QED
        BY <4>1, <4>2, <1>12
    <3>3. fifo[r] # <<>> => Len(fifo[r]) \in DOMAIN fifo[r]
      BY <1>1
    <3>4. QED
      BY <3>1, <3>2, <3>3 DEF IInv, Linked
  <2>4. QED
    BY <2>1, <2>2, <2>3
<1>16. QED
  BY <1>13, <1>14, <1>15 DEF IInv

-----------------------------------------------------------------------------
\* What the invariant says of one queue to the calls that branch on it.
LEMMA QueueFacts ==
  ASSUME IInv, NEW q \in Queues
  PROVE  /\ fifo[q] \in Seq(Nodes)
         /\ size[q] = Len(fifo[q]) /\ size[q] \in Nat
         /\ fifo[q] = <<>> <=> size[q] = 0
         /\ fifo[q] = <<>> <=> head[q] = NULL
         /\ fifo[q] # <<>> => tail[q] # NULL /\ head[q] = Head(fifo[q])
         /\ head[q] \in Pointers
<1>1. fifo[q] \in Seq(Nodes) /\ size[q] = Len(fifo[q]) /\ size[q] \in Nat
  BY DEF IInv, TypeOK, Linked
<1>2. fifo[q] = <<>> <=> size[q] = 0
  BY <1>1
<1>3. fifo[q] # <<>> => /\ fifo[q][1] \in Nodes /\ fifo[q][Len(fifo[q])] \in Nodes
                        /\ Head(fifo[q]) = fifo[q][1]
  BY <1>1
<1>4. /\ fifo[q] = <<>> => head[q] = NULL
      /\ fifo[q] # <<>> => head[q] = fifo[q][1] /\ tail[q] = fifo[q][Len(fifo[q])]
  BY DEF IInv, Linked
<1>5. head[q] \in Pointers
  BY DEF IInv, TypeOK
<1>6. QED
  BY <1>1, <1>2, <1>3, <1>4, <1>5, NullAssumption

\* A call that only returns a value keeps the invariant.
LEMMA ReturnsInv ==
  ASSUME IInv, NEW value \in Codes \cup Pointers \cup {"true", "false"},
         Returns(value)
  PROVE  IInv'
  BY DEF IInv, TypeOK, NodesDistinct, Linked, Returns

\* Every call is a call of the abstract queues with the same result, and
\* keeps the invariant. The branches of the code that report a fault are not
\* reachable, except for request_queue_move from an empty queue.
LEMMA NextStep == IInv /\ Next => IInv' /\ Fifo!FifoNext
<1> SUFFICES ASSUME IInv, Next PROVE IInv' /\ Fifo!FifoNext
  OBVIOUS
<1> USE NullAssumption, CapacityAssumption
<1>1. ASSUME NEW q \in Queues, NEW n \in Nodes, request_queue_push(q, n)
      PROVE  IInv' /\ Fifo!FifoPush(q, n)
  <2>1. CASE size[q] >= capacity[q]
    <3>1. Returns("FULL") /\ Len(fifo[q]) >= capacity[q]
      BY <1>1, <2>1, QueueFacts DEF request_queue_push
    <3>2. IInv'
      BY <3>1, ReturnsInv DEF Codes
    <3>3. QED
      BY <3>1, <3>2 DEF Returns, Fifo!FifoPush
  <2>2. CASE ~(size[q] >= capacity[q])
    <3>1. size[q] < capacity[q] /\ ~(Len(fifo[q]) >= capacity[q])
      BY <2>2, QueueFacts
    <3>2. ~(size[q] # 0 /\ tail[q] = NULL)
      BY QueueFacts
    <3>3. Link(q, n) /\ ~Queued(n)
      BY <1>1, <2>2, <3>2 DEF request_queue_push
    <3>4. IInv'
      BY <3>1, <3>3, LinkInv
    <3>5. QED
      BY <3>1, <3>3, <3>4 DEF Link, Fifo!FifoPush
  <2>3. QED
    BY <2>1, <2>2
<1>2. ASSUME NEW q \in Queues, request_queue_pop(q)
      PROVE  IInv' /\ Fifo!FifoPop(q)
  <2>1. CASE size[q] <= 0 \/ head[q] = NULL
    <3>1. Returns(NULL) /\ fifo[q] = <<>>
      BY <1>2, <2>1, QueueFacts DEF request_queue_pop
    <3>2. IInv'
      BY <3>1, ReturnsInv DEF Pointers
    <3>3. QED
      BY <3>1, <3>2 DEF Returns, Fifo!FifoPop
  <2>2. CASE ~(size[q] <= 0 \/ head[q] = NULL)
    <3>1. size[q] > 0 /\ head[q] # NULL
      BY <2>2, QueueFacts
    <3>2. IInv' /\ result' = Head(fifo[q]) /\ fifo[q] # <<>>
      BY <1>2, <3>1, PopInv
    <3>3. fifo' = [fifo EXCEPT ![q] = Tail(@)]
      BY <1>2, <2>2 DEF request_queue_pop
    <3>4. QED
      BY <3>2, <3>3 DEF Fifo!FifoPop
  <2>3. QED
    BY <2>1, <2>2
<1>3. ASSUME NEW q \in Queues, request_queue_peek(q)
      PROVE  IInv' /\ Fifo!FifoPeek(q)
  <2>1. IInv'
    BY <1>3, QueueFacts, ReturnsInv DEF request_queue_peek
  <2>2. QED
    BY <1>3, <2>1, QueueFacts DEF request_queue_peek, Returns, Fifo!FifoPeek
<1>4. ASSUME NEW q \in Queues, request_queue_empty(q)
      PROVE  IInv' /\ Fifo!FifoEmpty(q)
  <2>1. size[q] <= 0 <=> fifo[q] = <<>>
    BY QueueFacts
  <2>2. Returns(IF fifo[q] = <<>> THEN "true" ELSE "false")
    BY <1>4, <2>1 DEF request_queue_empty
  <2>3. IInv'
    BY <2>2, ReturnsInv
  <2>4. QED
    BY <2>2, <2>3 DEF Returns, Fifo!FifoEmpty
<1>5. ASSUME NEW from \in Queues, NEW to \in Queues, request_queue_move(from, to)
      PROVE  IInv' /\ Fifo!FifoMove(from, to)
  <2>1. CASE head[from] = NULL \/ tail[from] = NULL
    <3>1. Returns("FAULT") /\ fifo[from] = <<>>
      BY <1>5, <2>1, QueueFacts DEF request_queue_move
    <3>2. IInv'
      BY <3>1, ReturnsInv DEF Codes
    <3>3. QED
      BY <3>1, <3>2 DEF Returns, Fifo!FifoMove
  <2>2. CASE ~(head[from] = NULL \/ tail[from] = NULL)
    <3>1. fifo[from] # <<>> /\ from # to
      BY <1>5, <2>2, QueueFacts DEF request_queue_move
    <3>2. ~(tail[to] = NULL /\ size[to] > 0)
      <4>1. CASE fifo[to] = <<>>
        <5>1. size[to] = 0
          BY <4>1, QueueFacts
        <5>2. QED
          BY <5>1
      <4>2. CASE fifo[to] # <<>>
        BY <4>2, QueueFacts
      <4>3. QED
        BY <4>1, <4>2
    <3>3. /\ size[to] = Len(fifo[to]) /\ size[from] = Len(fifo[from])
          /\ size[to] \in Nat /\ size[from] \in Nat
      BY QueueFacts
    <3>4. CASE size[to] + size[from] > capacity[to]
      <4>1. Returns("FULL")
        BY <1>5, <2>2, <3>2, <3>4 DEF request_queue_move
      <4>2. IInv'
        BY <4>1, ReturnsInv DEF Codes
      <4>3. QED
        BY <4>1, <4>2, <3>1, <3>3, <3>4 DEF Returns, Fifo!FifoMove
    <3>5. CASE ~(size[to] + size[from] > capacity[to])
      <4>1. Splice(from, to)
        BY <1>5, <2>2, <3>2, <3>5 DEF request_queue_move
      <4>2. size[to] + size[from] <= capacity[to]
        <5>1. capacity[to] \in Nat
          OBVIOUS
        <5>2. \A a, b, c \in Nat : ~(a + b > c) => a + b <= c
          OBVIOUS
        <5>3. QED
          BY <5>1, <5>2, <3>3, <3>5, Zenon
      <4>3. IInv'
        BY <4>1, <4>2, <3>1, <2>2, SpliceInv
      <4>4. QED
        BY <4>1, <4>3, <3>1, <3>3, <3>5 DEF Splice, Fifo!FifoMove
    <3>6. QED
      BY <3>4, <3>5
  <2>3. QED
    BY <2>1, <2>2
<1>6. CASE NullArgument
  <2>1. PICK value \in {"INVALID_PARAMETER", NULL, "true"} : Returns(value)
    BY <1>6 DEF NullArgument
  <2>2. IInv'
    BY <2>1, ReturnsInv DEF Codes, Pointers
  <2>3. QED
    BY <2>1, <2>2 DEF Returns, Fifo!FifoNext, Fifo!FifoRefuse
<1>7. QED
  BY <1>1, <1>2, <1>3, <1>4, <1>5, <1>6 DEF Next, Fifo!FifoNext

\* A step that changes nothing keeps the invariant.
LEMMA StutterInv == IInv /\ UNCHANGED vars => IInv'
  BY DEF IInv, TypeOK, NodesDistinct, Linked, vars

-----------------------------------------------------------------------------
\* request_queue.c, for any queues, nodes and capacities: the inductive
\* invariant always holds.
THEOREM Invariance == Spec => []IInv
<1>1. IInv /\ [Next]_vars => IInv'
  BY NextStep, StutterInv
<1>2. QED
  BY <1>1, InitInv, PTL DEF Spec

\* Pointers and counters keep their types.
THEOREM TypeCorrect == Spec => []TypeOK
  BY Invariance, PTL DEF IInv

\* No node is in two queues or twice in one.
THEOREM NodesDistinctAlways == Spec => []NodesDistinct
  BY Invariance, PTL DEF IInv

\* The linked nodes always spell out the queue, whatever sequence of pushes,
\* pops and moves led there and in spite of the stale tail pointer.
THEOREM LinkedAlways == Spec => []Linked
  BY Invariance, PTL DEF IInv

\* The pointer code implements bounded first-in-first-out queues: every call
\* returns what the abstract queue returns.
THEOREM FifoRefinement == Spec => ImplementsFifo
<1>1. Init => Fifo!FifoInit
  BY DEF Init, Fifo!FifoInit
<1>2. IInv /\ [Next]_vars => [Fifo!FifoNext]_(Fifo!fifoVars)
  BY NextStep DEF vars, Fifo!fifoVars
<1>3. QED
  BY <1>1, <1>2, Invariance, PTL DEF Spec, ImplementsFifo, Fifo!FifoSpec
=============================================================================
