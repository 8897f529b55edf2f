----------------------------- MODULE StreamProofs -----------------------------
(***************************************************************************)
(* Proofs about WatchStream, for every number of clients, subscriptions,   *)
(* notices and versions: with any number of writers, the hub keeps its     *)
(* ring and its channels as it does under one; with one writer, every      *)
(* stream is in version order and a client misses only what a full channel *)
(* or a bookmark took from it.                                             *)
(***************************************************************************)
EXTENDS WatchStream, WatchHubProofs

-----------------------------------------------------------------------------
(* What a replay is made of, in whatever order the notices arrived.        *)

\* The number of elements of T up to i, as i runs over 0 .. n.
LEMMA RankGrows ==
    ASSUME NEW n \in Nat, NEW T \in SUBSET (1 .. n), NEW i \in 1 .. n
    PROVE  /\ Cardinality({j \in T : j <= i}) \in Nat
           /\ Cardinality({j \in T : j <= i - 1}) \in Nat
           /\ Cardinality({j \in T : j <= i})
                = IF i \in T THEN Cardinality({j \in T : j <= i - 1}) + 1
                             ELSE Cardinality({j \in T : j <= i - 1})
<1> DEFINE Up(k) == {j \in T : j <= k}
<1>1. IsFiniteSet(T)
  <2>1. IsFiniteSet(1 .. n)
    BY n \in Int, 1 \in Int, FS_Interval
  <2> QED
    BY <2>1, FS_Subset
<1>2. IsFiniteSet(Up(i)) /\ IsFiniteSet(Up(i - 1))
  BY <1>1, FS_Subset
<1>0. \A j \in T : (j <= i <=> j <= i - 1 \/ j = i) /\ ~ (i <= i - 1)
  OBVIOUS
<1>3. CASE i \in T
  <2>1. Up(i) = Up(i - 1) \cup {i} /\ i \notin Up(i - 1)
    BY <1>0, <1>3, i <= i
  <2> HIDE DEF Up
  <2>2. Cardinality(Up(i)) = Cardinality(Up(i - 1)) + 1
    BY <1>2, <2>1, FS_AddElement
  <2>3. Cardinality(Up(i)) \in Nat /\ Cardinality(Up(i - 1)) \in Nat
    BY <1>2, FS_CardinalityType
  <2> QED
    BY <1>3, <2>2, <2>3 DEF Up
<1>4. CASE i \notin T
  <2>1. Up(i) = Up(i - 1)
    BY <1>0, <1>4
  <2> HIDE DEF Up
  <2>2. Cardinality(Up(i)) \in Nat
    BY <1>2, FS_CardinalityType
  <2> QED
    BY <1>4, <2>1, <2>2 DEF Up
<1> QED
  BY <1>3, <1>4

\* Every rank up to the size of T is the rank of one of its elements.
LEMMA RankIsHit ==
    ASSUME NEW n \in Nat, NEW T \in SUBSET (1 .. n), NEW k \in 1 .. Cardinality(T)
    PROVE  \E i \in T : Cardinality({j \in T : j <= i}) = k
<1> DEFINE Rank(i) == Cardinality({j \in T : j <= i})
           Reach == {i \in 0 .. n : Rank(i) >= k}
<1>1. IsFiniteSet(T) /\ Cardinality(T) \in Nat
  <2>1. IsFiniteSet(1 .. n)
    BY n \in Int, 1 \in Int, FS_Interval
  <2> QED
    BY <2>1, FS_Subset, FS_CardinalityType
<1>2. Rank(n) = Cardinality(T)
  <2>0. \A j \in T : j <= n
    OBVIOUS
  <2>1. {j \in T : j <= n} = T
    BY <2>0
  <2> QED
    BY <2>1
<1>3. Rank(0) = 0
  <2>0. \A j \in T : ~ (j <= 0)
    OBVIOUS
  <2>1. {j \in T : j <= 0} = {}
    BY <2>0
  <2> QED
    BY <2>1, FS_EmptySet
<1>4. ASSUME NEW i \in 1 .. n
      PROVE  /\ Rank(i) \in Nat /\ Rank(i - 1) \in Nat
             /\ Rank(i) = IF i \in T THEN Rank(i - 1) + 1 ELSE Rank(i - 1)
  <2>1. Rank(i) \in Nat /\ Rank(i - 1) \in Nat
    <3>1. IsFiniteSet({j \in T : j <= i}) /\ IsFiniteSet({j \in T : j <= i - 1})
      BY <1>1, FS_Subset
    <3> QED
      BY <3>1, FS_CardinalityType
  <2>2. Rank(i) = IF i \in T THEN Rank(i - 1) + 1 ELSE Rank(i - 1)
    BY RankGrows
  <2> QED
    BY <2>1, <2>2
<1> HIDE DEF Rank
<1>5. PICK m \in Reach : \A i \in Reach : m <= i
  <2>1. n \in Reach
    BY <1>1, <1>2
  <2> QED
    BY <2>1, LeastElement, Reach \in SUBSET Nat
<1>6. m \in 1 .. n /\ k \in Nat \ {0}
  BY <1>1, <1>3, <1>5
<1>7. ~ (Rank(m - 1) >= k)
  BY <1>5, <1>6
<1>8. m \in T /\ Rank(m) = k
  BY <1>4, <1>5, <1>6, <1>7
<1> QED
  BY <1>8 DEF Rank

\* The elements of q above v are elements of q, and above v.
LEMMA NewerElements ==
    ASSUME NEW q \in Seq(Nat), NEW v \in Nat
    PROVE  /\ Newer(q, v) \in Seq(Nat)
           /\ \A k \in 1 .. Len(Newer(q, v)) :
                \E i \in 1 .. Len(q) : Newer(q, v)[k] = q[i] /\ q[i] > v
<1> DEFINE new == {i \in DOMAIN q : q[i] > v}
           Place(k) == CHOOSE i \in new : Cardinality({j \in new : j <= i}) = k
<1>1. Len(q) \in Nat /\ DOMAIN q = 1 .. Len(q) /\ \A i \in 1 .. Len(q) : q[i] \in Nat
  OBVIOUS
<1>2. new \in SUBSET (1 .. Len(q))
  BY <1>1
<1>3. Cardinality(new) \in Nat
  <2>1. IsFiniteSet(1 .. Len(q))
    BY <1>1, Len(q) \in Int, 1 \in Int, FS_Interval
  <2> QED
    BY <1>2, <2>1, FS_Subset, FS_CardinalityType
<1>4. ASSUME NEW k \in 1 .. Cardinality(new)
      PROVE  Place(k) \in new
  <2> HIDE DEF new
  <2> QED
    BY <1>1, <1>2, RankIsHit
<1>5. Newer(q, v) = [k \in 1 .. Cardinality(new) |-> q[Place(k)]]
  BY DEF Newer
<1>6. \A i \in new : i \in 1 .. Len(q) /\ q[i] > v /\ q[i] \in Nat
  BY <1>1
<1> HIDE DEF new, Place
<1>7. Newer(q, v) \in [1 .. Cardinality(new) -> Nat]
  BY <1>4, <1>5, <1>6
<1>8. Newer(q, v) \in Seq(Nat) /\ Len(Newer(q, v)) = Cardinality(new)
  BY <1>3, <1>7
<1> QED
  BY <1>4, <1>5, <1>6, <1>8

\* The window is a sequence of notices that were broadcast.
LEMMA WindowType ==
    ASSUME TypeOK, RingInv
    PROVE  /\ Window \in Seq(Nat) /\ Len(Window) = Count
           /\ \A i \in 1 .. Count : \E j \in 1 .. Len(log) : Window[i] = log[j]
<1>1. /\ log \in Seq(Nat) /\ Len(log) \in Nat /\ \A i \in 1 .. Len(log) : log[i] \in Nat
      /\ Count \in Nat /\ Count <= Len(log)
  BY WatchHubAssumption DEF TypeOK, RingInv, Count
<1>2. \A i \in 1 .. Count : Window[i] = log[Len(log) - Count + i]
  BY WindowIsTail
<1>3. \A i \in 1 .. Count : Len(log) - Count + i \in 1 .. Len(log)
  BY <1>1
<1>4. Window = [i \in 1 .. Count |-> Window[i]]
  BY DEF Window
<1> DEFINE w == Window
<1> HIDE DEF w
<1>5. w \in [1 .. Count -> Nat]
  <2>1. w = [i \in 1 .. Count |-> w[i]] /\ \A i \in 1 .. Count : w[i] \in Nat
    BY <1>1, <1>2, <1>3, <1>4 DEF w
  <2> QED
    BY <2>1
<1>6. w \in Seq(Nat) /\ Len(w) = Count
  BY <1>1, <1>5
<1>7. \A i \in 1 .. Count : \E j \in 1 .. Len(log) : w[i] = log[j]
  BY <1>2, <1>3 DEF w
<1> QED
  BY <1>6, <1>7 DEF w

\* A replay consists of notices that were broadcast.
LEMMA ReplayElements ==
    ASSUME TypeOK, RingInv, NEW r \in Nat
    PROVE  /\ Replay(r) \in Seq(Nat)
           /\ \A k \in 1 .. Len(Replay(r)) :
                \E i \in 1 .. Len(log) : Replay(r)[k] = log[i]
<1> DEFINE w == Window
<1>1. w \in Seq(Nat) /\ Len(w) = Count
      /\ \A i \in 1 .. Count : \E j \in 1 .. Len(log) : w[i] = log[j]
  BY WindowType
<1> HIDE DEF w
<1> DEFINE x == Newer(w, r)
<1>2. /\ x \in Seq(Nat)
      /\ \A k \in 1 .. Len(x) : \E i \in 1 .. Len(w) : x[k] = w[i]
  BY <1>1, NewerElements
<1>3. Replay(r) = x
  BY DEF Replay, w
<1> HIDE DEF x
<1>4. ASSUME NEW k \in 1 .. Len(x)
      PROVE  \E i \in 1 .. Len(log) : x[k] = log[i]
  <2>1. PICK i \in 1 .. Len(w) : x[k] = w[i]
    BY <1>2
  <2> QED
    BY <1>1, <2>1
<1> QED
  BY <1>2, <1>3, <1>4

-----------------------------------------------------------------------------
(* Any number of writers.                                                  *)

\* The types of the writers, the handlers and the clients.
ClientTypes ==
    /\ txq \in [Writers -> Seq(Nat)]
    /\ loop \in [Subs -> {"initial", "mark", "select", "drain"}]
    /\ conn \in [Clients -> Subs \cup {NoSub}]
    /\ pos \in [Clients -> Nat]
    /\ have \in [Clients -> SUBSET Nat]
    /\ excused \subseteq Clients

\* No version is ahead of the counter, wherever it is kept.
Bounded ==
    /\ \A n \in Elems(log) : n <= rv
    /\ \A s \in Subs : \A n \in Elems(chan[s]) : n <= rv
    /\ \A w \in Writers : \A n \in Elems(txq[w]) : n <= rv
    /\ \A c \in Clients : pos[c] <= rv

\* What a stream was sent is a sequence of versions.
GotType == got \in [Subs -> Seq(Nat)]

HubInv    == TypeOK /\ RingInv /\ TearInv /\ GotType
StreamInv == HubInv /\ ClientTypes /\ Bounded

\* Nothing is queued, buffered or seen at first.
LEMMA InitStream == StreamInit => StreamInv
<1> SUFFICES ASSUME StreamInit PROVE StreamInv
  OBVIOUS
<1>1. HubInv
  BY InitTypes, InitRing, InitTear DEF StreamInit, Init, HubInv, GotType
<1>2. ClientTypes
  BY DEF StreamInit, ClientTypes
<1>3. Bounded
  BY WatchHubAssumption DEF StreamInit, Init, Bounded, Elems
<1> QED
  BY <1>1, <1>2, <1>3 DEF StreamInv

\* Only these steps of the stream touch the hub, and all but the broadcast of a
\* queued notice and the counter of a commit are steps the hub takes by itself.
LEMMA StreamStep ==
    ASSUME StreamInv, [StreamNext]_allVars
    PROVE  \/ [Next]_vars /\ rv' = rv
           \/ \E w \in Writers : PublishNext(w)
           \/ \E w \in Writers : Commit(w)
<1> USE DEF StreamInv, ClientTypes, Bounded
<1>1. ASSUME NEW c \in Clients, List(c) \/ InitialEvents(c) \/ InitialMark(c) \/ Bookmark(c)
      PROVE  UNCHANGED vars
  BY <1>1 DEF List, InitialEvents, InitialMark, Bookmark, SendBookmark
<1>2. ASSUME NEW c \in Clients, NEW s \in Subs, Watch(c, s)
      PROVE  Next /\ rv' = rv
  <2>1. pos[c] \in 0 .. rv /\ Subscribe(s, pos[c]) /\ rv' = rv
    BY <1>2 DEF Watch, HubInv, TypeOK
  <2> QED
    BY <2>1 DEF Next
<1>3. ASSUME NEW c \in Clients, NEW s \in Subs, WatchInitial(c, s)
      PROVE  Next /\ rv' = rv
  <2>1. 0 \in 0 .. rv /\ Subscribe(s, 0) /\ rv' = rv
    BY <1>3 DEF WatchInitial, HubInv, TypeOK
  <2> QED
    BY <2>1 DEF Next
<1>4. ASSUME NEW c \in Clients, Deliver(c)
      PROVE  Next /\ rv' = rv
  <2>1. conn[c] \in Subs /\ Receive(conn[c]) /\ rv' = rv
    BY <1>4 DEF Deliver, Looping
  <2> QED
    BY <2>1 DEF Next
<1>5. ASSUME NEW c \in Clients, SeeClosed(c) \/ Drained(c) \/ HangUp(c)
      PROVE  [Next]_vars /\ rv' = rv
  <2>1. CASE EndStream(c)
    <3>1. conn[c] \in Subs /\ Leave(conn[c]) /\ rv' = rv
      BY <2>1 DEF EndStream
    <3> QED
      BY <3>1 DEF Next
  <2>2. CASE UNCHANGED vars
    BY <2>2 DEF vars
  <2> QED
    BY <1>5, <2>1, <2>2 DEF SeeClosed, Drained, HangUp
<1>6. CASE TearDown
  BY <1>6 DEF TearDown, Next
<1>7. CASE UNCHANGED allVars
  BY <1>7 DEF allVars, vars
<1>8. UNCHANGED vars => rv' = rv
  BY DEF vars
<1> QED
  BY <1>1, <1>2, <1>3, <1>4, <1>5, <1>6, <1>7, <1>8 DEF StreamNext

\* No broadcast and no commit moves the tear-down of a subscription on.
LEMMA PublishTear ==
    ASSUME TypeOK, TearInv, UNCHANGED <<subs, chClosed, closed, unsub>>
    PROVE  TearInv'
  BY DEF TearInv

\* A stream is sent what is replayed to it and what it receives.
LEMMA NextGot ==
    ASSUME TypeOK, RingInv, GotType, [Next]_vars
    PROVE  GotType'
<1>1. ASSUME NEW s \in Subs, NEW r \in 0 .. rv, Subscribe(s, r)
      PROVE  GotType'
  <2>1. Replay(r) \in Seq(Nat)
    BY ReplayElements, r \in Nat DEF TypeOK
  <2>2. got' = [got EXCEPT ![s] = IF r > 0 THEN Replay(r) ELSE <<>>]
    BY <1>1 DEF Subscribe
  <2> QED
    BY <2>1, <2>2 DEF GotType
<1>2. ASSUME NEW s \in Subs, Receive(s)
      PROVE  GotType'
  <2>1. got[s] \in Seq(Nat) /\ Head(chan[s]) \in Nat
    BY <1>2 DEF GotType, Receive, TypeOK
  <2>2. got' = [got EXCEPT ![s] = Append(got[s], Head(chan[s]))]
    BY <1>2 DEF Receive
  <2> QED
    BY <2>1, <2>2 DEF GotType
<1>3. CASE UNCHANGED got
  BY <1>3 DEF GotType
<1> QED
  BY <1>1, <1>2, <1>3 DEF Next, Publish, Broadcast, OtherKind, Leave, DisconnectAll, Cut,
     Unsubscribe, Swap, Remove, CloseChan, vars, hubVars, histVars

\* With any number of writers, every step keeps the hub's invariant.
LEMMA NextHub == StreamInv /\ [StreamNext]_allVars => HubInv'
<1> SUFFICES ASSUME StreamInv, [StreamNext]_allVars
             PROVE  HubInv'
  OBVIOUS
<1>1. TypeOK /\ RingInv /\ TearInv /\ GotType
  BY DEF StreamInv, HubInv
<1>2. CASE [Next]_vars /\ rv' = rv
  BY <1>1, <1>2, NextTypes, NextRing, NextTear, NextGot DEF HubInv
<1>3. ASSUME NEW w \in Writers, PublishNext(w)
      PROVE  HubInv'
  <2>1. Head(txq[w]) \in Nat /\ Broadcast(Head(txq[w])) /\ rv' = rv
    BY <1>3 DEF PublishNext, StreamInv, ClientTypes
  <2>2. rv' \in Nat
    BY <1>1, <2>1 DEF TypeOK
  <2>3. UNCHANGED <<subs, chClosed, closed, unsub, got>>
    BY <2>1 DEF Broadcast, tearVars, histVars
  <2>4. GotType'
    BY <1>1, <2>3 DEF GotType
  <2> QED
    BY <1>1, <2>1, <2>2, <2>3, <2>4, BroadcastTypes, BroadcastRing, PublishTear DEF HubInv
<1>4. ASSUME NEW w \in Writers, Commit(w)
      PROVE  HubInv'
  <2>1. UNCHANGED hubVars /\ rv' \in Nat
    BY <1>1, <1>4, WatchStreamAssumption DEF Commit, TypeOK
  <2>2. TypeOK'
    BY <1>1, <2>1 DEF TypeOK, hubVars, ringVars, chanVars, tearVars, histVars
  <2>3. RingInv'
    BY <1>1, <2>1 DEF RingInv, hubVars, ringVars
  <2>4. TearInv'
    BY <1>1, <2>1, PublishTear DEF hubVars, chanVars, tearVars
  <2>5. GotType'
    BY <1>1, <2>1 DEF GotType, hubVars, histVars
  <2> QED
    BY <2>2, <2>3, <2>4, <2>5 DEF HubInv
<1> QED
  BY <1>2, <1>3, <1>4, StreamStep

\* The versions a client is sent when it resumes were broadcast, and the last of
\* them is where it resumes from next.
LEMMA ResumeElements ==
    ASSUME StreamInv, NEW c \in Clients, NEW s \in Subs, Watch(c, s)
    PROVE  /\ got'[s] = Replay(pos[c]) /\ Replay(pos[c]) \in Seq(Nat)
           /\ Elems(Replay(pos[c])) \subseteq Elems(log)
           /\ pos[c] \in Nat \ {0}
           /\ have' = [have EXCEPT ![c] = @ \cup Elems(Replay(pos[c]))]
           /\ pos' = [pos EXCEPT ![c] = IF Replay(pos[c]) = <<>> THEN @
                                        ELSE Last(Replay(pos[c]))]
           /\ Replay(pos[c]) # <<>> => Last(Replay(pos[c])) \in Elems(Replay(pos[c]))
<1>1. /\ Subscribe(s, pos[c]) /\ pos[c] \in Nat \ {0}
      /\ have' = [have EXCEPT ![c] = @ \cup Elems(got'[s])]
      /\ pos' = [pos EXCEPT ![c] = IF got'[s] = <<>> THEN @ ELSE Last(got'[s])]
  BY DEF Watch, StreamInv, ClientTypes
<1>2. got'[s] = Replay(pos[c])
  <2>1. got' = [got EXCEPT ![s] = IF pos[c] > 0 THEN Replay(pos[c]) ELSE <<>>]
    BY <1>1 DEF Subscribe
  <2>2. pos[c] > 0
    BY <1>1
  <2> QED
    BY <2>1, <2>2 DEF StreamInv, HubInv, GotType
<1> DEFINE x == Replay(pos[c])
<1>3. /\ x \in Seq(Nat)
      /\ \A k \in 1 .. Len(x) : \E i \in 1 .. Len(log) : x[k] = log[i]
  BY <1>1, ReplayElements DEF StreamInv, HubInv
<1> HIDE DEF x
<1>4. Elems(x) \subseteq Elems(log)
  BY <1>3 DEF Elems
<1>5. x # <<>> => Last(x) \in Elems(x)
  <2>1. x # <<>> => Len(x) \in 1 .. Len(x)
    BY <1>3
  <2> QED
    BY <2>1 DEF Elems, Last
<1>6. x = Replay(pos[c])
  BY DEF x
<1> QED
  BY <1>1, <1>2, <1>3, <1>4, <1>5, <1>6

\* Every step keeps the types of the writers, the handlers and the clients.
LEMMA NextClientTypes == StreamInv /\ [StreamNext]_allVars => ClientTypes'
<1> SUFFICES ASSUME StreamInv, [StreamNext]_allVars
             PROVE  ClientTypes'
  OBVIOUS
<1>1. /\ ClientTypes /\ rv \in Nat /\ log \in Seq(Nat) /\ chan \in [Subs -> Seq(Nat)]
      /\ NoSub \notin Subs
  BY WatchHubAssumption DEF StreamInv, HubInv, TypeOK
<1>2. Committed \subseteq Nat /\ Elems(log) \subseteq Nat
  BY <1>1 DEF Committed, Pending, ClientTypes, Elems
<1> USE <1>1 DEF ClientTypes
<1>3. ASSUME NEW w \in Writers, Commit(w)
      PROVE  ClientTypes'
  <2>1. PICK k \in 1 .. MaxTx : txq' = [txq EXCEPT ![w] = [i \in 1 .. k |-> rv + i]]
    BY <1>3 DEF Commit
  <2>2. k \in Nat
    BY WatchStreamAssumption
  <2>3. [i \in 1 .. k |-> rv + i] \in Seq(Nat)
    <3>1. [i \in 1 .. k |-> rv + i] \in [1 .. k -> Nat]
      BY <2>2
    <3> QED
      BY <2>2, <3>1
  <2>4. txq' \in [Writers -> Seq(Nat)]
    BY <2>1, <2>3
  <2> QED
    BY <1>3, <2>4 DEF Commit
<1>4. ASSUME NEW w \in Writers, PublishNext(w)
      PROVE  ClientTypes'
  <2>1. Tail(txq[w]) \in Seq(Nat)
    BY <1>4 DEF PublishNext
  <2>2. Full \subseteq Clients
    BY DEF Full
  <2> QED
    BY <1>4, <2>1, <2>2 DEF PublishNext
<1>5. ASSUME NEW c \in Clients, List(c)
      PROVE  ClientTypes'
  BY <1>2, <1>5 DEF List
<1>6. ASSUME NEW c \in Clients, NEW s \in Subs, Watch(c, s)
      PROVE  ClientTypes'
  <2> DEFINE x == Replay(pos[c])
  <2>1. /\ have' = [have EXCEPT ![c] = @ \cup Elems(x)]
        /\ pos' = [pos EXCEPT ![c] = IF x = <<>> THEN @ ELSE Last(x)]
        /\ Elems(x) \subseteq Elems(log)
        /\ x # <<>> => Last(x) \in Elems(x)
    BY <1>6, ResumeElements
  <2> HIDE DEF x
  <2>2. have' \in [Clients -> SUBSET Nat]
    BY <1>2, <2>1
  <2>3. x # <<>> => Last(x) \in Nat
    BY <1>2, <2>1
  <2>4. pos' \in [Clients -> Nat]
    BY <2>1, <2>3
  <2> QED
    BY <1>6, <2>2, <2>4 DEF Watch
<1>7. ASSUME NEW c \in Clients, NEW s \in Subs, WatchInitial(c, s)
      PROVE  ClientTypes'
  BY <1>7 DEF WatchInitial
<1>8. ASSUME NEW c \in Clients, InitialEvents(c)
      PROVE  ClientTypes'
  BY <1>2, <1>8 DEF InitialEvents
<1>9. ASSUME NEW c \in Clients, InitialMark(c)
      PROVE  ClientTypes'
  BY <1>9 DEF InitialMark, SendBookmark
<1>10. ASSUME NEW c \in Clients, Deliver(c)
       PROVE  ClientTypes'
  <2>1. Head(chan[conn[c]]) \in Nat
    BY <1>10 DEF Deliver, Receive, Looping
  <2> QED
    BY <1>10, <2>1 DEF Deliver, Looping
<1>11. ASSUME NEW c \in Clients, SeeClosed(c) \/ Drained(c) \/ HangUp(c)
       PROVE  ClientTypes'
  <2>1. CASE EndStream(c)
    BY <2>1 DEF EndStream
  <2>2. CASE Drained(c) /\ ~ EndStream(c)
    BY <2>2 DEF Drained
  <2> QED
    BY <1>11, <2>1, <2>2 DEF SeeClosed, HangUp
<1>12. ASSUME NEW c \in Clients, Bookmark(c)
       PROVE  ClientTypes'
  BY <1>12 DEF Bookmark, SendBookmark
<1>13. CASE TearDown \/ UNCHANGED allVars
  BY <1>13 DEF TearDown, allVars, streamVars
<1> QED
  BY <1>3, <1>4, <1>5, <1>6, <1>7, <1>8, <1>9, <1>10, <1>11, <1>12, <1>13
  DEF StreamNext

\* What a hub step may do to the log, the channels and the streams.
LEMMA HubStepMoves ==
    ASSUME TypeOK, [Next]_vars, rv' = rv
    PROVE  /\ log' = log \/ Publish
           /\ \/ \E s \in Subs, r \in 0 .. rv : Subscribe(s, r)
              \/ \E s \in Subs : Receive(s)
              \/ UNCHANGED <<chan, got>> \/ Publish
  BY DEF Next, OtherKind, Subscribe, Receive, Leave, DisconnectAll, Cut, Unsubscribe,
     Swap, Remove, CloseChan, vars, hubVars, chanVars, histVars

\* The elements of a sequence that grows at its end or loses its head.
LEMMA ElemsOf ==
    ASSUME NEW q \in Seq(Nat)
    PROVE  /\ Elems(q) \subseteq Nat
           /\ \A n \in Nat : Elems(Append(q, n)) = Elems(q) \cup {n}
           /\ q # <<>> => /\ Head(q) \in Nat /\ Tail(q) \in Seq(Nat)
                          /\ Elems(q) = {Head(q)} \cup Elems(Tail(q))
           /\ Elems(<<>>) = {}
<1>1. Elems(q) \subseteq Nat /\ Elems(<<>>) = {}
  BY DEF Elems
<1>2. ASSUME NEW n \in Nat
      PROVE  Elems(Append(q, n)) = Elems(q) \cup {n}
  <2> DEFINE x == Append(q, n)
  <2>1. /\ Len(q) \in Nat /\ Len(x) = Len(q) + 1 /\ x[Len(q) + 1] = n
        /\ \A i \in 1 .. Len(q) : x[i] = q[i]
    OBVIOUS
  <2> HIDE DEF x
  <2>2. 1 .. Len(x) = 1 .. Len(q) \cup {Len(q) + 1}
    BY <2>1
  <2> QED
    BY <2>1, <2>2 DEF Elems, x
<1>3. ASSUME q # <<>>
      PROVE  /\ Head(q) \in Nat /\ Tail(q) \in Seq(Nat)
             /\ Elems(q) = {Head(q)} \cup Elems(Tail(q))
  <2> DEFINE x == Tail(q)
  <2>1. /\ Len(q) \in Nat \ {0} /\ Head(q) = q[1] /\ Head(q) \in Nat
        /\ x \in Seq(Nat) /\ Len(x) = Len(q) - 1
        /\ \A i \in 1 .. Len(x) : x[i] = q[i + 1]
    BY <1>3, HeadTailProperties
  <2> HIDE DEF x
  <2>2. ASSUME NEW i \in 1 .. Len(q)
        PROVE  q[i] \in {Head(q)} \cup Elems(x)
    <3>1. CASE i = 1
      BY <2>1, <3>1
    <3>2. CASE i # 1
      <4>1. i - 1 \in 1 .. Len(x) /\ x[i - 1] = q[(i - 1) + 1] /\ (i - 1) + 1 = i
        BY <2>1, <3>2
      <4> QED
        BY <4>1 DEF Elems
    <3> QED
      BY <3>1, <3>2
  <2>3. ASSUME NEW i \in 1 .. Len(x)
        PROVE  x[i] \in Elems(q)
    <3>1. i + 1 \in 1 .. Len(q) /\ x[i] = q[i + 1]
      BY <2>1
    <3> QED
      BY <3>1 DEF Elems
  <2>4. Head(q) \in Elems(q)
    BY <2>1, 1 \in 1 .. Len(q) DEF Elems
  <2>5. Elems(q) = {Head(q)} \cup Elems(x)
    BY <2>2, <2>3, <2>4 DEF Elems
  <2> QED
    BY <2>1, <2>5 DEF x
<1> QED
  BY <1>1, <1>2, <1>3

\* A hub step that is not a broadcast buffers nothing new.
LEMMA HubStepChan ==
    ASSUME TypeOK, [Next]_vars, rv' = rv
    PROVE  /\ log' = log
           /\ \A s \in Subs : Elems(chan'[s]) \subseteq Elems(chan[s])
<1>1. ~ Publish
  BY DEF Publish, TypeOK
<1>2. ASSUME NEW s \in Subs, NEW t \in Subs, NEW r \in 0 .. rv, Subscribe(t, r)
      PROVE  Elems(chan'[s]) \subseteq Elems(chan[s])
  <2>1. chan'[s] = chan[s] \/ chan'[s] = <<>>
    BY <1>2 DEF Subscribe, TypeOK
  <2> QED
    BY <2>1, ElemsOf, <<>> \in Seq(Nat)
<1>3. ASSUME NEW s \in Subs, NEW t \in Subs, Receive(t)
      PROVE  Elems(chan'[s]) \subseteq Elems(chan[s])
  <2>1. /\ chan[s] \in Seq(Nat)
        /\ chan'[s] = chan[s] \/ (chan[s] # <<>> /\ chan'[s] = Tail(chan[s]))
    BY <1>3 DEF Receive, TypeOK
  <2> QED
    BY <2>1, ElemsOf
<1> QED
  BY <1>1, <1>2, <1>3, HubStepMoves

\* The channels after a broadcast.
LEMMA BroadcastChan ==
    ASSUME TypeOK, NEW n \in Nat, Broadcast(n)
    PROVE  /\ log' = Append(log, n) /\ Elems(log') = Elems(log) \cup {n}
           /\ \A s \in Subs : Elems(chan'[s]) \subseteq Elems(chan[s]) \cup {n}
           /\ \A s \in subs : Len(chan[s]) < ChanCap =>
                Elems(chan'[s]) = Elems(chan[s]) \cup {n}
<1>1. log' = Append(log, n) /\ log \in Seq(Nat) /\ chan \in [Subs -> Seq(Nat)]
      /\ subs \subseteq Subs
  BY DEF Broadcast, TypeOK
<1>2. \A s \in Subs : chan'[s] = IF s \in subs /\ Len(chan[s]) < ChanCap
                                  THEN Append(chan[s], n) ELSE chan[s]
  BY Zenon DEF Broadcast
<1>3. \A s \in Subs : Elems(Append(chan[s], n)) = Elems(chan[s]) \cup {n}
  BY <1>1, ElemsOf
<1> QED
  BY <1>1, <1>2, <1>3, ElemsOf

\* A queue after a commit: its notices are the next versions.
LEMMA CommitQueue ==
    ASSUME rv \in Nat, txq \in [Writers -> Seq(Nat)], NEW w \in Writers, Commit(w)
    PROVE  /\ rv' \in Nat /\ rv <= rv' /\ txq[w] = <<>>
           /\ txq'[w] \in Seq(Nat) /\ txq' = [txq EXCEPT ![w] = txq'[w]]
           /\ Len(txq'[w]) = rv' - rv
           /\ \A i \in 1 .. Len(txq'[w]) : txq'[w][i] = rv + i
           /\ \A n \in Elems(txq'[w]) : n \in Nat /\ rv < n /\ n <= rv'
           /\ UNCHANGED <<hubVars, loop, conn, pos, have, excused>>
<1>1. PICK k \in 1 .. MaxTx : rv' = rv + k /\ txq' = [txq EXCEPT ![w] = [i \in 1 .. k |-> rv + i]]
  BY DEF Commit
<1> DEFINE q == [i \in 1 .. k |-> rv + i]
<1>2. k \in Nat \ {0}
  BY WatchStreamAssumption
<1>3. q \in [1 .. k -> Nat] /\ \A i \in 1 .. k : q[i] = rv + i
  BY <1>2
<1>4. txq'[w] = q
  BY <1>1
<1> HIDE DEF q
<1>5. q \in Seq(Nat) /\ Len(q) = k
  BY <1>2, <1>3
<1>6. \A n \in Elems(q) : n \in Nat /\ rv < n /\ n <= rv'
  BY <1>1, <1>2, <1>3, <1>5 DEF Elems
<1>7. txq' = [txq EXCEPT ![w] = q]
  BY <1>1 DEF q
<1>8. rv' \in Nat /\ rv <= rv' /\ rv' - rv = k
  BY <1>1, <1>2
<1>9. txq'[w] \in Seq(Nat) /\ Len(txq'[w]) = rv' - rv /\ txq' = [txq EXCEPT ![w] = txq'[w]]
  BY <1>4, <1>5, <1>7, <1>8
<1>10. \A i \in 1 .. Len(txq'[w]) : txq'[w][i] = rv + i
  BY <1>3, <1>4, <1>5
<1>11. \A n \in Elems(txq'[w]) : n \in Nat /\ rv < n /\ n <= rv'
  BY <1>4, <1>6
<1> QED
  BY <1>8, <1>9, <1>10, <1>11 DEF Commit

\* Where a step may move the queues and the places clients resume from.
LEMMA QuietStep ==
    ASSUME [StreamNext]_allVars,
           ~ \E w \in Writers : Commit(w) \/ PublishNext(w)
    PROVE  txq' = txq /\ rv' = rv
  BY DEF StreamNext, List, Watch, WatchInitial, InitialEvents, InitialMark, SendBookmark,
     Deliver, SeeClosed, Drained, EndStream, HangUp, Bookmark, TearDown, allVars, streamVars, vars

\* No step puts a version ahead of the counter anywhere.
LEMMA NextBounded == StreamInv /\ [StreamNext]_allVars => Bounded'
<1> SUFFICES ASSUME StreamInv, [StreamNext]_allVars
             PROVE  Bounded'
  OBVIOUS
<1>0. /\ TypeOK /\ GotType /\ ClientTypes /\ Bounded
      /\ rv \in Nat /\ log \in Seq(Nat) /\ chan \in [Subs -> Seq(Nat)]
      /\ txq \in [Writers -> Seq(Nat)] /\ pos \in [Clients -> Nat]
  BY DEF StreamInv, HubInv, TypeOK, ClientTypes
<1> DEFINE Hub == /\ \A n \in Elems(log) : n <= rv
                  /\ \A s \in Subs : \A n \in Elems(chan[s]) : n <= rv
           Queues == \A w \in Writers : \A n \in Elems(txq[w]) : n <= rv
           Places == \A c \in Clients : pos[c] <= rv
<1>1. Hub /\ Queues /\ Places
  BY <1>0 DEF Bounded
<1>2. ASSUME NEW w \in Writers, Commit(w)
      PROVE  Bounded'
  <2>1. /\ rv' \in Nat /\ rv <= rv' /\ txq' = [txq EXCEPT ![w] = txq'[w]]
        /\ \A n \in Elems(txq'[w]) : n <= rv'
        /\ log' = log /\ chan' = chan /\ pos' = pos
    BY <1>0, <1>2, CommitQueue DEF hubVars, chanVars
  <2>2. Elems(log) \subseteq Nat /\ \A s \in Subs : Elems(chan[s]) \subseteq Nat
    BY <1>0, ElemsOf
  <2>3. Hub'
    BY <1>0, <1>1, <2>1, <2>2
  <2>4. ASSUME NEW v \in Writers, NEW n \in Elems(txq'[v])
        PROVE  n <= rv'
    <3>1. CASE v = w
      BY <2>1, <2>4, <3>1
    <3>2. CASE v # w
      <4>1. n \in Elems(txq[v]) /\ n \in Nat
        BY <1>0, <2>1, <2>4, <3>2, ElemsOf
      <4> QED
        BY <1>0, <1>1, <2>1, <4>1
    <3> QED
      BY <3>1, <3>2
  <2>5. Places'
    BY <1>0, <1>1, <2>1
  <2> QED
    BY <2>3, <2>4, <2>5 DEF Bounded
<1>3. ASSUME NEW w \in Writers, PublishNext(w)
      PROVE  Bounded'
  <2>1. /\ txq[w] \in Seq(Nat) /\ txq[w] # <<>> /\ Broadcast(Head(txq[w]))
        /\ txq' = [txq EXCEPT ![w] = Tail(txq[w])] /\ rv' = rv /\ pos' = pos
    BY <1>0, <1>3 DEF PublishNext
  <2>2. Head(txq[w]) \in Nat /\ Elems(txq[w]) = {Head(txq[w])} \cup Elems(Tail(txq[w]))
    BY <2>1, ElemsOf
  <2>3. Head(txq[w]) <= rv
    BY <1>1, <2>2
  <2>4. Hub'
    BY <1>0, <1>1, <2>1, <2>2, <2>3, BroadcastChan
  <2>5. \A v \in Writers : Elems(txq'[v]) \subseteq Elems(txq[v])
    BY <1>0, <2>1, <2>2
  <2> QED
    BY <1>1, <2>1, <2>4, <2>5 DEF Bounded
<1>4. CASE ~ \E w \in Writers : Commit(w) \/ PublishNext(w)
  <2>1. txq' = txq /\ rv' = rv
    BY <1>4, QuietStep
  <2>2. [Next]_vars
    BY <1>4, StreamStep
  <2>3. Hub' /\ Queues'
    BY <1>0, <1>1, <2>1, <2>2, HubStepChan
  <2>4. ASSUME NEW c \in Clients, NEW s \in Subs, Watch(c, s)
        PROVE  Places'
    <3> DEFINE x == Replay(pos[c])
    <3>1. /\ pos' = [pos EXCEPT ![c] = IF x = <<>> THEN @ ELSE Last(x)]
          /\ Elems(x) \subseteq Elems(log)
          /\ x # <<>> => Last(x) \in Elems(x)
      BY <2>4, ResumeElements
    <3> HIDE DEF x
    <3>2. x # <<>> => Last(x) <= rv
      BY <1>1, <3>1
    <3> QED
      BY <1>0, <1>1, <2>1, <3>1, <3>2
  <2>5. ASSUME NEW c \in Clients, Deliver(c)
        PROVE  Places'
    <3>1. /\ conn[c] \in Subs /\ chan[conn[c]] # <<>>
          /\ pos' = [pos EXCEPT ![c] = Head(chan[conn[c]])]
      BY <1>0, <2>5 DEF Deliver, Looping, Receive, ClientTypes
    <3>2. Head(chan[conn[c]]) \in Elems(chan[conn[c]])
      BY <1>0, <3>1, ElemsOf
    <3> QED
      BY <1>0, <1>1, <2>1, <3>1, <3>2
  <2>6. ASSUME NEW c \in Clients, pos' = [pos EXCEPT ![c] = rv]
        PROVE  Places'
    <3> SUFFICES ASSUME NEW d \in Clients
                 PROVE  pos'[d] <= rv
      BY <2>1
    <3>1. pos'[d] = IF d = c THEN rv ELSE pos[d]
      BY <1>0, <2>6
    <3> QED
      BY <1>0, <1>1, <3>1
  <2>7. ASSUME pos' = pos
        PROVE  Places'
    BY <1>1, <2>1, <2>7
  <2>8. Places'
    BY <1>4, <2>4, <2>5, <2>6, <2>7
    DEF StreamNext, List, WatchInitial, InitialEvents, InitialMark, SendBookmark, SeeClosed,
        Drained, EndStream, HangUp, Bookmark, TearDown, allVars, streamVars
  <2> QED
    BY <2>3, <2>8 DEF Bounded
<1> QED
  BY <1>2, <1>3, <1>4

\* Every step keeps the invariant, with any number of writers.
LEMMA NextStream == StreamInv /\ [StreamNext]_allVars => StreamInv'
  BY NextHub, NextClientTypes, NextBounded DEF StreamInv

\* The invariant holds in every state.
LEMMA StreamAlways == StreamSpec => []StreamInv
  BY InitStream, NextStream, PTL DEF StreamSpec

\* The replay ring is the tail of what was broadcast, in whatever order several
\* writers broadcast it.
THEOREM StreamRingCorrect == StreamSpec => []RingIsLogTail
<1>1. StreamInv => RingIsLogTail
  BY RingInvSuffices DEF StreamInv, HubInv
<1> QED
  BY <1>1, StreamAlways, PTL

\* Several writers, handlers that leave and watch churn reach neither panic of a
\* channel.
THEOREM StreamTearDownSafe == StreamSpec => []TearDownIsSafe
<1>1. StreamInv => NoSendOnClosed
  BY DEF StreamInv, HubInv, TearInv, NoSendOnClosed, TypeOK
<1>2. StreamInv => NoDoubleClose
  BY DEF StreamInv, HubInv, TearInv, NoDoubleClose, Agents
<1> QED
  BY <1>1, <1>2, StreamAlways, PTL DEF TearDownIsSafe

-----------------------------------------------------------------------------
(* One writer.                                                             *)

Ordered(q) == \A i, j \in 1 .. Len(q) : i < j => q[i] < q[j]

\* What is broadcast and what is queued behind it, in one line from the seal on.
LineInv ==
    /\ floor = SealRV
    /\ SealRV <= rv
    /\ Ordered(log)
    /\ \A n \in Elems(log) : SealRV < n
    /\ \A w \in Writers :
        /\ Ordered(txq[w])
        /\ \A m \in Elems(txq[w]) : SealRV < m /\ \A n \in Elems(log) : n < m

\* A stream and what is buffered behind it are in the order of the log.
SentInv ==
    \A s \in Subs :
        /\ Ordered(got[s]) /\ Ordered(chan[s])
        /\ \A n \in Elems(got[s]), m \in Elems(chan[s]) : n < m
        /\ Elems(got[s]) \subseteq Elems(log)
        /\ Elems(chan[s]) \subseteq Elems(log)

\* Order is kept by a larger element at the end and by losing the head.
LEMMA OrderedOps ==
    ASSUME NEW q \in Seq(Nat), Ordered(q)
    PROVE  /\ \A n \in Nat : (\A m \in Elems(q) : m < n) => Ordered(Append(q, n))
           /\ q # <<>> => Ordered(Tail(q)) /\ \A n \in Elems(Tail(q)) : Head(q) < n
           /\ Ordered(<<>>)
<1>1. ASSUME NEW n \in Nat, \A m \in Elems(q) : m < n
      PROVE  Ordered(Append(q, n))
  <2> DEFINE x == Append(q, n)
  <2>1. /\ Len(q) \in Nat /\ Len(x) = Len(q) + 1 /\ x[Len(q) + 1] = n
        /\ \A i \in 1 .. Len(q) : x[i] = q[i]
    OBVIOUS
  <2> HIDE DEF x
  <2>2. ASSUME NEW i \in 1 .. Len(x), NEW j \in 1 .. Len(x), i < j
        PROVE  x[i] < x[j]
    <3>1. i \in 1 .. Len(q)
      BY <2>1, <2>2
    <3>2. CASE j \in 1 .. Len(q)
      BY <2>1, <2>2, <3>1, <3>2 DEF Ordered
    <3>3. CASE j = Len(q) + 1
      <4>1. q[i] \in Elems(q)
        BY <3>1 DEF Elems
      <4> QED
        BY <1>1, <2>1, <3>1, <3>3, <4>1
    <3> QED
      BY <2>1, <3>2, <3>3
  <2> QED
    BY <2>2 DEF Ordered, x
<1>2. ASSUME q # <<>>
      PROVE  Ordered(Tail(q)) /\ \A n \in Elems(Tail(q)) : Head(q) < n
  <2> DEFINE x == Tail(q)
  <2>1. /\ Len(q) \in Nat \ {0} /\ Head(q) = q[1] /\ Len(x) = Len(q) - 1
        /\ \A i \in 1 .. Len(x) : x[i] = q[i + 1]
    BY <1>2, HeadTailProperties
  <2> HIDE DEF x
  <2>2. ASSUME NEW i \in 1 .. Len(x), NEW j \in 1 .. Len(x), i < j
        PROVE  x[i] < x[j]
    <3>1. i + 1 \in 1 .. Len(q) /\ j + 1 \in 1 .. Len(q) /\ i + 1 < j + 1
      BY <2>1, <2>2
    <3> QED
      BY <2>1, <3>1 DEF Ordered
  <2>3. ASSUME NEW i \in 1 .. Len(x)
        PROVE  Head(q) < x[i]
    <3>1. 1 \in 1 .. Len(q) /\ i + 1 \in 1 .. Len(q) /\ 1 < i + 1
      BY <2>1
    <3> QED
      BY <2>1, <3>1 DEF Ordered
  <2> QED
    BY <2>2, <2>3 DEF Ordered, Elems, x
<1>3. Ordered(<<>>)
  BY DEF Ordered
<1> QED
  BY <1>1, <1>2, <1>3

\* A log in line is ordered as the hub's lemmas want it.
LEMMA LineIsLog ==
    ASSUME LineInv
    PROVE  LogInv
  BY DEF LineInv, LogInv, Ordered, Elems

\* What an accepted version is replayed: the log above it, in order.
LEMMA ReplayOrdered ==
    ASSUME StreamInv, LineInv, NEW r \in Nat \ {0}, Accepts(r)
    PROVE  /\ Replay(r) \in Seq(Nat) /\ Ordered(Replay(r))
           /\ Elems(Replay(r)) = {n \in Elems(log) : n > r}
           /\ Replay(r) # <<>> => /\ Last(Replay(r)) \in Elems(Replay(r))
                                 /\ \A n \in Elems(Replay(r)) : n <= Last(Replay(r))
<1>1. log \in Seq(Nat) /\ Len(log) \in Nat /\ \A i \in 1 .. Len(log) : log[i] \in Nat
  BY DEF StreamInv, HubInv, TypeOK
<1>2. Ordered(log)
  BY DEF LineInv
<1> DEFINE x == Replay(r)
<1>3. PICK m \in 1 .. Len(log) + 1 :
        /\ \A i \in 1 .. Len(log) : log[i] > r <=> i >= m
        /\ Newer(log, r) = SubSeq(log, m, Len(log))
  BY <1>1, <1>2, NewerIsSuffix DEF Ordered
<1>4. x = SubSeq(log, m, Len(log))
  BY <1>3, ReplayIsExact, LineIsLog DEF StreamInv, HubInv
<1>5. /\ x \in Seq(Nat) /\ Len(x) = Len(log) - m + 1
      /\ \A i \in 1 .. Len(x) : x[i] = log[m + i - 1]
  BY <1>1, <1>4
<1> HIDE DEF x
<1>6. Ordered(x)
  <2>1. \A i \in 1 .. Len(x) : m + i - 1 \in 1 .. Len(log)
    BY <1>1, <1>5
  <2>2. ASSUME NEW i \in 1 .. Len(x), NEW j \in 1 .. Len(x), i < j
        PROVE  x[i] < x[j]
    <3>1. m + i - 1 < m + j - 1
      BY <1>1, <2>2
    <3> QED
      BY <1>2, <1>5, <2>1, <3>1 DEF Ordered
  <2> QED
    BY <2>2 DEF Ordered
<1>7. Elems(x) = {n \in Elems(log) : n > r}
  <2>1. ASSUME NEW i \in 1 .. Len(x)
        PROVE  x[i] \in Elems(log) /\ x[i] > r
    <3>1. m + i - 1 \in 1 .. Len(log) /\ m + i - 1 >= m
      BY <1>1, <1>5
    <3> QED
      BY <1>3, <1>5, <3>1 DEF Elems
  <2>2. ASSUME NEW i \in 1 .. Len(log), log[i] > r
        PROVE  log[i] \in Elems(x)
    <3>1. i >= m
      BY <1>3, <2>2
    <3>2. i - m + 1 \in 1 .. Len(x) /\ m + (i - m + 1) - 1 = i
      BY <1>1, <1>5, <3>1
    <3> QED
      BY <1>5, <3>2 DEF Elems
  <2> QED
    BY <2>1, <2>2 DEF Elems
<1>8. ASSUME x # <<>>
      PROVE  Last(x) \in Elems(x) /\ \A n \in Elems(x) : n <= Last(x)
  <2>1. Len(x) \in 1 .. Len(x) /\ \A i \in 1 .. Len(x) : x[i] \in Nat
    BY <1>5, <1>8
  <2>2. \A i \in 1 .. Len(x) : x[i] <= x[Len(x)]
    <3> TAKE i \in 1 .. Len(x)
    <3>1. CASE i = Len(x)
      BY <2>1, <3>1
    <3>2. CASE i < Len(x)
      BY <1>6, <2>1, <3>2 DEF Ordered
    <3> QED
      BY <2>1, <3>1, <3>2
  <2> QED
    BY <2>1, <2>2 DEF Elems, Last
<1> QED
  BY <1>5, <1>6, <1>7, <1>8 DEF x

\* One writer keeps its notices in line: it broadcasts the first of its queue,
\* and commits only when the queue is empty.
LEMMA NextLine ==
    ASSUME NEW w, Writers = {w}, StreamInv, LineInv, [StreamNext]_allVars
    PROVE  LineInv'
<1>0. /\ rv \in Nat /\ log \in Seq(Nat) /\ txq \in [Writers -> Seq(Nat)] /\ txq[w] \in Seq(Nat)
      /\ SealRV \in Nat /\ Elems(log) \subseteq Nat /\ \A n \in Elems(log) : n <= rv
      /\ TypeOK
  <2>1. rv \in Nat /\ log \in Seq(Nat) /\ txq \in [Writers -> Seq(Nat)] /\ TypeOK /\ Bounded
    BY DEF StreamInv, HubInv, TypeOK, ClientTypes
  <2> QED
    BY <2>1, WatchHubAssumption, ElemsOf DEF Bounded
<1> DEFINE Line(q, l) == /\ Ordered(q)
                         /\ \A m \in Elems(q) : SealRV < m /\ \A n \in Elems(l) : n < m
<1>1. /\ floor = SealRV /\ SealRV <= rv /\ Ordered(log) /\ Line(txq[w], log)
      /\ \A n \in Elems(log) : SealRV < n
  BY DEF LineInv
<1>2. CASE Commit(w)
  <2>1. /\ rv' \in Nat /\ rv <= rv' /\ txq'[w] \in Seq(Nat)
        /\ \A i \in 1 .. Len(txq'[w]) : txq'[w][i] = rv + i
        /\ \A n \in Elems(txq'[w]) : n \in Nat /\ rv < n
        /\ UNCHANGED hubVars
    BY <1>0, <1>2, CommitQueue
  <2>0. log' = log /\ floor' = floor
    BY <2>1 DEF hubVars, ringVars
  <2>2. Ordered(txq'[w])
    <3>1. ASSUME NEW i \in 1 .. Len(txq'[w]), NEW j \in 1 .. Len(txq'[w]), i < j
          PROVE  txq'[w][i] < txq'[w][j]
      <4>1. txq'[w][i] = rv + i /\ txq'[w][j] = rv + j /\ i \in Int /\ j \in Int
        BY <2>1
      <4> QED
        BY <1>0, <3>1, <4>1
    <3> QED
      BY <3>1 DEF Ordered
  <2>3. \A m \in Elems(txq'[w]) : SealRV < m /\ \A n \in Elems(log) : n < m
    BY <1>0, <1>1, <2>1
  <2> QED
    BY <1>0, <1>1, <2>0, <2>1, <2>2, <2>3 DEF LineInv
<1>3. CASE PublishNext(w)
  <2> DEFINE h == Head(txq[w])
             t == Tail(txq[w])
  <2>1. /\ txq[w] # <<>> /\ Broadcast(h) /\ rv' = rv /\ floor' = floor
        /\ txq' = [txq EXCEPT ![w] = Tail(txq[w])]
    BY <1>3 DEF PublishNext, Broadcast
  <2>2. /\ h \in Nat /\ t \in Seq(Nat) /\ Elems(txq[w]) = {h} \cup Elems(t)
        /\ Ordered(t) /\ \A n \in Elems(t) : h < n
    BY <1>0, <1>1, <2>1, ElemsOf, OrderedOps
  <2>3. txq'[w] = t
    BY <1>0, <2>1
  <2> HIDE DEF h, t
  <2>4. log' = Append(log, h) /\ Elems(log') = Elems(log) \cup {h}
    BY <1>0, <2>1, <2>2, BroadcastChan
  <2>5. Ordered(log')
    BY <1>0, <1>1, <2>2, <2>4, OrderedOps
  <2>6. \A m \in Elems(t) : SealRV < m /\ \A n \in Elems(log') : n < m
    BY <1>1, <2>2, <2>4
  <2>7. \A n \in Elems(log') : SealRV < n
    BY <1>1, <2>2, <2>4
  <2> QED
    BY <1>1, <2>1, <2>2, <2>3, <2>5, <2>6, <2>7 DEF LineInv
<1>4. CASE ~ \E v \in Writers : Commit(v) \/ PublishNext(v)
  <2>1. txq' = txq /\ rv' = rv /\ [Next]_vars
    BY <1>4, QuietStep, StreamStep
  <2>2. log' = log
    BY <1>0, <2>1, HubStepChan
  <2>3. floor' = floor
    <3>1. ~ Publish
      BY <1>0, <2>1 DEF Publish
    <3> QED
      BY <2>1, <3>1, RingUntouched DEF ringVars
  <2> QED
    BY <1>1, <2>1, <2>2, <2>3 DEF LineInv
<1> QED
  BY <1>2, <1>3, <1>4

\* A stream that is sent or buffered the log in order stays so.
LEMMA NextSent ==
    ASSUME NEW w, Writers = {w}, StreamInv, LineInv, SentInv, [StreamNext]_allVars
    PROVE  SentInv'
<1>0. /\ TypeOK /\ RingInv /\ rv \in Nat /\ log \in Seq(Nat) /\ chan \in [Subs -> Seq(Nat)]
      /\ got \in [Subs -> Seq(Nat)] /\ subs \subseteq Subs /\ txq[w] \in Seq(Nat)
  BY DEF StreamInv, HubInv, TypeOK, GotType, ClientTypes
<1>1. \A s \in Subs : Elems(chan[s]) \subseteq Nat /\ Elems(got[s]) \subseteq Nat
  BY <1>0, ElemsOf
<1> DEFINE Sent(g, b, l) == /\ Ordered(g) /\ Ordered(b)
                            /\ \A n \in Elems(g), m \in Elems(b) : n < m
                            /\ Elems(g) \subseteq Elems(l) /\ Elems(b) \subseteq Elems(l)
<1>2. \A s \in Subs : Sent(got[s], chan[s], log)
  BY DEF SentInv
<1>3. CASE PublishNext(w)
  <2> DEFINE h == Head(txq[w])
  <2>1. txq[w] # <<>> /\ Broadcast(h)
    BY <1>3 DEF PublishNext
  <2>2. h \in Nat /\ \A n \in Elems(log) : n < h
    <3>1. h \in Elems(txq[w]) /\ h \in Nat
      BY <1>0, <2>1, ElemsOf
    <3> QED
      BY <3>1 DEF LineInv
  <2> HIDE DEF h
  <2>3. got' = got /\ Elems(log') = Elems(log) \cup {h}
    BY <1>0, <2>1, <2>2, BroadcastChan DEF Broadcast, histVars
  <2>4. ASSUME NEW s \in Subs
        PROVE  Sent(got'[s], chan'[s], log')
    <3>1. chan'[s] = chan[s] \/ chan'[s] = Append(chan[s], h)
      BY <2>1 DEF Broadcast
    <3>2. CASE chan'[s] = chan[s]
      BY <1>2, <2>3, <3>2
    <3>3. CASE chan'[s] = Append(chan[s], h)
      <4>1. chan[s] \in Seq(Nat) /\ \A n \in Elems(chan[s]) \cup Elems(got[s]) : n < h
        BY <1>0, <1>2, <2>2
      <4>2. Ordered(chan'[s]) /\ Elems(chan'[s]) = Elems(chan[s]) \cup {h}
        BY <1>2, <2>2, <3>3, <4>1, OrderedOps, ElemsOf
      <4> QED
        BY <1>2, <2>3, <4>1, <4>2
    <3> QED
      BY <3>1, <3>2, <3>3
  <2> QED
    BY <2>4 DEF SentInv
<1>4. CASE Commit(w)
  <2>1. UNCHANGED hubVars
    BY <1>4 DEF Commit
  <2>2. got' = got /\ chan' = chan /\ log' = log
    BY <2>1 DEF hubVars, chanVars, histVars
  <2> QED
    BY <1>2, <2>2 DEF SentInv
<1>5. CASE [Next]_vars /\ rv' = rv
  <2>1. log' = log /\ ~ Publish
    BY <1>0, <1>5, HubStepChan DEF Publish
  <2>2. ASSUME NEW t \in Subs, NEW r \in 0 .. rv, Subscribe(t, r), NEW s \in Subs
        PROVE  Sent(got'[s], chan'[s], log)
    <3>1. /\ chan'[s] = IF s = t THEN <<>> ELSE chan[s]
          /\ got'[s] = IF s = t THEN IF r > 0 THEN Replay(r) ELSE <<>> ELSE got[s]
          /\ Accepts(r)
      BY <1>0, <2>2 DEF Subscribe
    <3>2. Ordered(<<>>) /\ Elems(<<>>) = {}
      BY DEF Ordered, Elems
    <3>3. r > 0 => Ordered(Replay(r)) /\ Elems(Replay(r)) \subseteq Elems(log)
      <4>1. r > 0 => /\ Ordered(Replay(r))
                     /\ Elems(Replay(r)) = {n \in Elems(log) : n > r}
        BY <3>1, ReplayOrdered
      <4> QED
        BY <4>1
    <3> QED
      BY <1>2, <3>1, <3>2, <3>3
  <2>3. ASSUME NEW t \in Subs, Receive(t), NEW s \in Subs
        PROVE  Sent(got'[s], chan'[s], log)
    <3>1. CASE s # t
      <4>1. got'[s] = got[s] /\ chan'[s] = chan[s]
        BY <1>0, <2>3, <3>1 DEF Receive
      <4> QED
        BY <1>2, <4>1
    <3>2. CASE s = t
      <4> DEFINE b == chan[s]
                 h == Head(b)
                 x == Tail(b)
      <4>1. b # <<>> /\ got'[s] = Append(got[s], h) /\ chan'[s] = x
        BY <1>0, <2>3, <3>2 DEF Receive
      <4>2. /\ b \in Seq(Nat) /\ h \in Nat /\ Elems(b) = {h} \cup Elems(x)
            /\ Ordered(x) /\ \A n \in Elems(x) : h < n
        BY <1>0, <1>2, <4>1, ElemsOf, OrderedOps
      <4> HIDE DEF b, h, x
      <4>3. /\ Sent(got[s], b, log) /\ got[s] \in Seq(Nat)
        BY <1>0, <1>2 DEF b
      <4>4. Ordered(got'[s]) /\ Elems(got'[s]) = Elems(got[s]) \cup {h}
        BY <4>1, <4>2, <4>3, OrderedOps, ElemsOf
      <4> QED
        BY <4>1, <4>2, <4>3, <4>4
    <3> QED
      BY <3>1, <3>2
  <2>4. ASSUME UNCHANGED <<chan, got>>, NEW s \in Subs
        PROVE  Sent(got'[s], chan'[s], log)
    BY <1>2, <2>4
  <2>5. \A s \in Subs : Sent(got'[s], chan'[s], log)
    BY <1>0, <1>5, <2>1, <2>2, <2>3, <2>4, HubStepMoves
  <2> QED
    BY <2>1, <2>5 DEF SentInv
<1> QED
  BY <1>3, <1>4, <1>5, StreamStep

\* Nothing is committed, sent or buffered at first.
LEMMA InitSent == StreamInit => LineInv /\ SentInv
  BY WatchHubAssumption DEF StreamInit, Init, LineInv, SentInv, Ordered, Elems

\* With one writer, the notices a stream sends, replayed and live, are in version
\* order.  (Bookmarks are not among them: LossIsExplained is about those.)
THEOREM StreamsInOrder ==
    ASSUME NEW w, Writers = {w}
    PROVE  StreamSpec => []InOrder
<1>1. StreamInv /\ LineInv /\ SentInv /\ [StreamNext]_allVars => (LineInv /\ SentInv)'
  BY NextLine, NextSent
<1>2. SentInv => InOrder
  BY DEF SentInv, InOrder, Ordered
<1> QED
  BY <1>1, <1>2, InitSent, StreamAlways, PTL DEF StreamSpec

-----------------------------------------------------------------------------
(* Who reads which stream.                                                 *)

\* An open watch has a subscription of its own, whose handler has not returned;
\* the handler is inside unsubscribe only when it has.
ConnInv ==
    /\ \A c \in Clients : conn[c] # NoSub => owner[conn[c]] = "open"
    /\ \A c, d \in Clients : c # d /\ conn[c] # NoSub => conn[c] # conn[d]
    /\ \A s \in Subs : unsub[Handler][s] # "out" => owner[s] = "left"

\* A tear-down step takes no open subscription from its handler, and writes to
\* none of what streams and clients are made of.
LEMMA TearDownOwner ==
    ASSUME TypeOK, ConnInv, TearDown
    PROVE  /\ \A s \in Subs : owner[s] = "open" => owner'[s] = "open"
           /\ \A s \in Subs : unsub'[Handler][s] # "out" => owner'[s] = "left"
           /\ subs' \subseteq subs
           /\ UNCHANGED <<chan, got, log, rv, streamVars>>
<1> USE DEF TypeOK, Agents, Handler, Churner
<1>1. ASSUME NEW a \in Agents, NEW s \in Subs, Swap(a, s)
      PROVE  /\ \A t \in Subs : owner[t] = "open" => owner'[t] = "open"
             /\ \A t \in Subs : unsub'[Handler][t] # "out" => owner'[t] = "left"
  BY <1>1 DEF Swap, Calls, Return, ConnInv
<1>2. ASSUME NEW a \in Agents, NEW s \in Subs, Remove(a, s)
      PROVE  /\ \A t \in Subs : owner[t] = "open" => owner'[t] = "open"
             /\ \A t \in Subs : unsub'[Handler][t] # "out" => owner'[t] = "left"
  BY <1>2 DEF Remove, ConnInv
<1>3. ASSUME NEW a \in Agents, NEW s \in Subs, CloseChan(a, s)
      PROVE  /\ \A t \in Subs : owner[t] = "open" => owner'[t] = "open"
             /\ \A t \in Subs : unsub'[Handler][t] # "out" => owner'[t] = "left"
  BY <1>3 DEF CloseChan, Return, ConnInv
<1>4. ASSUME DisconnectAll \/ \E s \in Subs : Cut(s)
      PROVE  /\ \A t \in Subs : owner[t] = "open" => owner'[t] = "open"
             /\ \A t \in Subs : unsub'[Handler][t] # "out" => owner'[t] = "left"
  BY <1>4 DEF DisconnectAll, Cut, ConnInv
<1>5. /\ \A s \in Subs : owner[s] = "open" => owner'[s] = "open"
      /\ \A s \in Subs : unsub'[Handler][s] # "out" => owner'[s] = "left"
  BY <1>1, <1>2, <1>3, <1>4 DEF TearDown, Unsubscribe
<1>6. UNCHANGED <<chan, log, histVars>> /\ subs' \subseteq subs
  BY TearDownIsQuiet DEF TearDown
<1> QED
  BY <1>5, <1>6 DEF TearDown, histVars

\* No step gives a subscription two readers or takes it from the one it has.
LEMMA NextConn ==
    ASSUME StreamInv, ConnInv, [StreamNext]_allVars
    PROVE  ConnInv'
<1>0. /\ TypeOK /\ NoSub \notin Subs /\ conn \in [Clients -> Subs \cup {NoSub}]
      /\ owner \in [Subs -> {"none", "open", "left"}]
      /\ unsub \in [Agents -> [Subs -> {"out", "swapped", "removed"}]]
  BY WatchHubAssumption DEF StreamInv, HubInv, ClientTypes, TypeOK
<1> USE DEF ConnInv
<1>1. CASE UNCHANGED <<conn, owner, unsub>>
  BY <1>1
<1>2. ASSUME NEW c \in Clients, NEW s \in Subs, Subscribe(s, pos[c]) \/ Subscribe(s, 0),
             conn[c] = NoSub, conn' = [conn EXCEPT ![c] = s]
      PROVE  ConnInv'
  <2>1. /\ owner[s] = "none" /\ owner' = [owner EXCEPT ![s] = "open"] /\ unsub' = unsub
        /\ unsub[Handler][s] = "out"
    BY <1>2 DEF Subscribe, Fresh, Agents
  <2>2. \A d \in Clients : conn[d] # s
    BY <1>0, <2>1
  <2> QED
    BY <1>0, <1>2, <2>1, <2>2
<1>3. ASSUME NEW c \in Clients, EndStream(c)
      PROVE  ConnInv'
  <2>1. /\ conn[c] \in Subs /\ owner[conn[c]] = "open"
        /\ owner' = [owner EXCEPT ![conn[c]] = "left"] /\ unsub' = unsub
        /\ conn' = [conn EXCEPT ![c] = NoSub]
    BY <1>0, <1>3 DEF EndStream, Leave
  <2> QED
    BY <1>0, <2>1
<1>4. CASE TearDown
  BY <1>0, <1>4, TearDownOwner DEF streamVars
<1>5. ASSUME NEW w \in Writers, Commit(w) \/ PublishNext(w)
      PROVE  UNCHANGED <<conn, owner, unsub>>
  BY <1>5 DEF Commit, PublishNext, Broadcast, hubVars, tearVars
<1>6. ASSUME NEW c \in Clients,
             \/ List(c) \/ InitialEvents(c) \/ InitialMark(c) \/ Deliver(c) \/ Bookmark(c)
             \/ Drained(c) /\ ~ EndStream(c)
      PROVE  UNCHANGED <<conn, owner, unsub>>
  BY <1>6 DEF List, InitialEvents, InitialMark, SendBookmark, Deliver, Receive, Bookmark,
     Drained, vars, hubVars, tearVars
<1>7. ASSUME NEW c \in Clients, SeeClosed(c) \/ HangUp(c)
      PROVE  EndStream(c)
  BY <1>7 DEF SeeClosed, HangUp
<1>8. ASSUME NEW c \in Clients, NEW s \in Subs, Watch(c, s) \/ WatchInitial(c, s)
      PROVE  ConnInv'
  BY <1>2, <1>8 DEF Watch, WatchInitial
<1>9. CASE UNCHANGED allVars
  BY <1>1, <1>9 DEF allVars, streamVars, vars, hubVars, tearVars
<1> QED
  BY <1>1, <1>3, <1>4, <1>5, <1>6, <1>7, <1>8, <1>9 DEF StreamNext

-----------------------------------------------------------------------------
(* What a client has not seen.                                             *)

\* Committed changes that c has not seen; and whether its handler is past the
\* point where the initial events are read.
Behind(c)  == Committed \ have[c]
Started(c) == conn[c] # NoSub /\ loop[conn[c]] # "initial"

\* What c has not seen is ahead of where it would resume; once its stream has
\* started, what is not buffered for it comes after all that is, and is not
\* broadcast yet if the stream is still registered.
Seen(c) ==
    /\ \A n \in Behind(c) : n > pos[c]
    /\ Started(c) => \A n \in Behind(c) \ Coming(c), m \in Coming(c) : m < n
    /\ Started(c) /\ conn[c] \in subs => Elems(log) \subseteq have[c] \cup Coming(c)

SeenInv == \A c \in Clients \ excused : Seen(c)

\* With one writer, what is committed is broadcast or in its queue.
LEMMA CommittedParts ==
    ASSUME NEW w, Writers = {w}
    PROVE  Committed = Elems(log) \cup Elems(txq[w])
  BY DEF Committed, Pending, Elems

\* What is committed changes only with the log and the queues.
LEMMA CommittedStays ==
    ASSUME log' = log, txq' = txq
    PROVE  Committed' = Committed
  BY DEF Committed, Pending

\* A client that has seen everything committed is behind nothing.
LEMMA SeenAll ==
    ASSUME NEW c \in Clients, Committed \subseteq have[c]
    PROVE  Seen(c)
<1>1. Behind(c) = {} /\ Elems(log) \subseteq have[c]
  BY DEF Behind, Committed, Elems
<1> QED
  BY <1>1 DEF Seen

\* A client whose own stream a step does not concern.
LEMMA SeenFrame ==
    ASSUME NEW c \in Clients, Seen(c), conn \in [Clients -> Subs \cup {NoSub}],
           log' = log, txq' = txq, have'[c] = have[c], pos'[c] = pos[c], conn'[c] = conn[c],
           conn[c] # NoSub => /\ loop'[conn[c]] # "initial" => loop[conn[c]] # "initial"
                              /\ chan'[conn[c]] = chan[conn[c]]
                              /\ conn[c] \in subs' => conn[c] \in subs
    PROVE  Seen(c)'
<1>1. Committed' = Committed
  BY CommittedStays
<1>2. Behind(c)' = Behind(c)
  BY <1>1 DEF Behind
<1>3. Coming(c)' = Coming(c)
  BY DEF Coming
<1>4. Started(c)' => Started(c)
  BY DEF Started
<1>5. Started(c)' /\ conn'[c] \in subs' => conn[c] \in subs
  BY DEF Started
<1> QED
  BY <1>1, <1>2, <1>3, <1>4, <1>5 DEF Seen

\* A commit is ahead of everything anybody has seen or has buffered.
LEMMA CommitSeen ==
    ASSUME NEW w, Writers = {w}, StreamInv, SeenInv, Commit(w)
    PROVE  SeenInv'
<1>0. /\ rv \in Nat /\ txq \in [Writers -> Seq(Nat)] /\ pos \in [Clients -> Nat]
      /\ conn \in [Clients -> Subs \cup {NoSub}] /\ chan \in [Subs -> Seq(Nat)]
      /\ Bounded
  BY DEF StreamInv, HubInv, TypeOK, ClientTypes
<1>1. /\ txq[w] = <<>> /\ \A n \in Elems(txq'[w]) : n \in Nat /\ rv < n
      /\ UNCHANGED <<hubVars, loop, conn, pos, have, excused>>
  BY <1>0, CommitQueue
<1>2. log' = log /\ chan' = chan /\ subs' = subs
  BY <1>1 DEF hubVars, chanVars
<1>3. Elems(txq[w]) = {}
  BY <1>1 DEF Elems
<1>4. Committed = Elems(log) /\ Committed' = Elems(log) \cup Elems(txq'[w])
  <2>1. Committed = Elems(log) \cup Elems(txq[w])
    BY CommittedParts
  <2>2. Committed' = Elems(log') \cup Elems(txq'[w])
    BY DEF Committed, Pending, Elems
  <2> QED
    BY <1>2, <1>3, <2>1, <2>2
<1> SUFFICES ASSUME NEW c \in Clients \ excused'
             PROVE  Seen(c)'
  BY DEF SeenInv
<1>5. Seen(c)
  BY <1>1 DEF SeenInv
<1>6. Behind(c)' \subseteq Behind(c) \cup Elems(txq'[w])
  BY <1>1, <1>4 DEF Behind
<1>7. Coming(c)' = Coming(c) /\ Started(c)' = Started(c)
  BY <1>1, <1>2 DEF Coming, Started
<1>8. \A n \in Elems(txq'[w]) : n > pos[c]
  BY <1>0, <1>1 DEF Bounded
<1>9. \A n \in Elems(txq'[w]), m \in Coming(c) : m < n
  <2>1. CASE conn[c] = NoSub
    BY <2>1 DEF Coming
  <2>2. CASE conn[c] # NoSub
    <3>1. /\ conn[c] \in Subs /\ Coming(c) = Elems(chan[conn[c]])
          /\ Elems(chan[conn[c]]) \subseteq Nat
      BY <1>0, <2>2, ElemsOf DEF Coming
    <3> QED
      BY <1>0, <1>1, <3>1 DEF Bounded
  <2> QED
    BY <2>1, <2>2
<1> QED
  BY <1>1, <1>2, <1>5, <1>6, <1>7, <1>8, <1>9 DEF Seen

\* A broadcast is buffered by every stream that is registered and has room, and
\* whoever has none is excused.
LEMMA PublishSeen ==
    ASSUME NEW w, Writers = {w}, StreamInv, LineInv, SeenInv, PublishNext(w)
    PROVE  SeenInv'
<1> DEFINE h == Head(txq[w])
           t == Tail(txq[w])
<1>0. /\ txq \in [Writers -> Seq(Nat)] /\ conn \in [Clients -> Subs \cup {NoSub}]
      /\ chan \in [Subs -> Seq(Nat)] /\ ChanCap \in Nat /\ TypeOK /\ subs \subseteq Subs
      /\ NoSub \notin Subs
  BY WatchHubAssumption DEF StreamInv, HubInv, TypeOK, ClientTypes
<1>1. /\ txq[w] \in Seq(Nat) /\ txq[w] # <<>> /\ Broadcast(h)
      /\ txq' = [txq EXCEPT ![w] = t] /\ excused' = excused \cup Full
      /\ UNCHANGED <<rv, loop, conn, pos, have>>
  BY <1>0 DEF PublishNext
<1>2. /\ h \in Nat /\ t \in Seq(Nat) /\ Elems(txq[w]) = {h} \cup Elems(t)
      /\ \A n \in Elems(t) : h < n
  BY <1>1, ElemsOf, OrderedOps DEF LineInv
<1>3. txq'[w] = t
  BY <1>0, <1>1
<1> HIDE DEF h, t
<1>4. /\ Elems(log') = Elems(log) \cup {h} /\ subs' = subs
      /\ \A s \in Subs : Elems(chan'[s]) \subseteq Elems(chan[s]) \cup {h}
      /\ \A s \in Subs : s \notin subs => chan'[s] = chan[s]
      /\ \A s \in subs : Len(chan[s]) < ChanCap =>
            Elems(chan'[s]) = Elems(chan[s]) \cup {h}
  <2>1. subs' = subs /\ \A s \in Subs : s \notin subs => chan'[s] = chan[s]
    BY <1>1, Zenon DEF Broadcast
  <2> QED
    BY <1>0, <1>1, <1>2, <2>1, BroadcastChan
<1>5. Committed' = Committed
  <2>1. Committed = Elems(log) \cup {h} \cup Elems(t)
    BY <1>2, CommittedParts
  <2>2. Committed' = Elems(log') \cup Elems(txq'[w])
    BY CommittedParts DEF Committed, Pending, Elems
  <2> QED
    BY <1>3, <1>4, <2>1, <2>2
<1> SUFFICES ASSUME NEW c \in Clients \ excused'
             PROVE  Seen(c)'
  BY DEF SeenInv
<1>6. Seen(c) /\ c \notin Full
  BY <1>1 DEF SeenInv
<1>7. Behind(c)' = Behind(c) /\ Started(c)' = Started(c)
  BY <1>1, <1>5 DEF Behind, Started
<1>8. CASE conn[c] \in subs
  <2>1. Len(chan[conn[c]]) \in Nat /\ ~ (Len(chan[conn[c]]) >= ChanCap)
    BY <1>0, <1>6, <1>8 DEF Full
  <2>2. Coming(c)' = Coming(c) \cup {h}
    <3>1. conn[c] # NoSub /\ conn'[c] = conn[c]
      BY <1>0, <1>1, <1>8
    <3>2. Coming(c) = Elems(chan[conn[c]]) /\ Coming(c)' = Elems(chan'[conn[c]])
      BY <3>1 DEF Coming
    <3>3. Len(chan[conn[c]]) < ChanCap
      BY <1>0, <2>1
    <3> QED
      BY <1>4, <1>8, <3>2, <3>3
  <2>3. ASSUME Started(c), NEW n \in Behind(c) \ (Coming(c) \cup {h})
        PROVE  h < n
    <3>1. n \notin Elems(log)
      BY <1>6, <1>8, <2>3 DEF Seen, Behind
    <3>2. n \in Elems(t)
      BY <1>2, <2>3, <3>1, CommittedParts DEF Behind
    <3> QED
      BY <1>2, <3>2
  <2> QED
    BY <1>1, <1>4, <1>6, <1>7, <2>2, <2>3 DEF Seen
<1>9. CASE conn[c] \notin subs
  <2>1. Coming(c)' = Coming(c)
    BY <1>0, <1>1, <1>4, <1>9 DEF Coming
  <2> QED
    BY <1>1, <1>4, <1>6, <1>7, <1>9, <2>1 DEF Seen
<1> QED
  BY <1>8, <1>9

\* A client that resumes has seen everything up to its place, and is replayed the
\* rest of the log.
LEMMA WatchSeen ==
    ASSUME NEW w, Writers = {w}, StreamInv, LineInv, ConnInv, SeenInv,
           NEW c \in Clients, NEW s \in Subs, Watch(c, s), c \notin excused
    PROVE  Seen(c)'
<1> DEFINE x == Replay(pos[c])
<1>0. /\ conn \in [Clients -> Subs \cup {NoSub}] /\ have \in [Clients -> SUBSET Nat]
      /\ pos \in [Clients -> Nat] /\ NoSub \notin Subs /\ chan \in [Subs -> Seq(Nat)]
      /\ loop \in [Subs -> {"initial", "mark", "select", "drain"}]
      /\ Elems(log) \subseteq Nat /\ txq[w] \in Seq(Nat)
  <2>1. log \in Seq(Nat)
    BY DEF StreamInv, HubInv, TypeOK
  <2> QED
    BY <2>1, WatchHubAssumption, ElemsOf DEF StreamInv, HubInv, ClientTypes, TypeOK
<1>1. /\ pos[c] \in Nat \ {0} /\ Accepts(pos[c]) /\ chan'[s] = <<>> /\ log' = log
      /\ conn[c] = NoSub /\ conn'[c] = s /\ txq' = txq
  BY <1>0 DEF Watch, Subscribe
<1>2. /\ have' = [have EXCEPT ![c] = @ \cup Elems(x)]
      /\ pos' = [pos EXCEPT ![c] = IF x = <<>> THEN @ ELSE Last(x)]
  BY ResumeElements
<1>3. /\ Elems(x) = {n \in Elems(log) : n > pos[c]}
      /\ x # <<>> => Last(x) \in Elems(x) /\ \A n \in Elems(x) : n <= Last(x)
  BY <1>1, ReplayOrdered
<1> HIDE DEF x
<1>4. have'[c] = have[c] \cup Elems(x) /\ pos'[c] = IF x = <<>> THEN pos[c] ELSE Last(x)
  BY <1>0, <1>2
<1>5. Seen(c) /\ \A n \in Behind(c) : n > pos[c]
  BY DEF SeenInv, Seen
<1>6. Elems(log) \subseteq have'[c]
  <2>1. ASSUME NEW n \in Elems(log), n \notin have[c]
        PROVE  n \in Elems(x)
    <3>1. n \in Behind(c)
      BY <2>1, CommittedParts DEF Behind
    <3> QED
      BY <1>3, <1>5, <3>1
  <2> QED
    BY <1>4, <2>1
<1>7. Committed' = Committed
  BY <1>1, CommittedStays
<1>8. ASSUME NEW n \in Behind(c)'
      PROVE  n > pos'[c]
  <2>1. n \in Committed /\ n \notin have'[c] /\ n \notin have[c]
    BY <1>4, <1>7, <1>8 DEF Behind
  <2>2. n \in Elems(txq[w]) /\ n \in Behind(c)
    BY <1>6, <2>1, CommittedParts DEF Behind
  <2>3. \A m \in Elems(log) : m < n
    BY <2>2 DEF LineInv
  <2> QED
    BY <1>3, <1>4, <1>5, <2>2, <2>3
<1>9. Coming(c)' = {}
  <2>1. Elems(<<>>) = {}
    BY DEF Elems
  <2> QED
    BY <1>0, <1>1, <2>1 DEF Coming
<1> QED
  BY <1>1, <1>6, <1>8, <1>9 DEF Seen

\* A delivered notice is the first that is buffered: what c has not seen by then
\* is ahead of it.
LEMMA DeliverSeen ==
    ASSUME NEW w, Writers = {w}, StreamInv, SentInv, SeenInv,
           NEW c \in Clients, Deliver(c), c \notin excused
    PROVE  Seen(c)'
<1> DEFINE b == chan[conn[c]]
           h == Head(b)
           t == Tail(b)
<1>0. /\ conn \in [Clients -> Subs \cup {NoSub}] /\ have \in [Clients -> SUBSET Nat]
      /\ pos \in [Clients -> Nat] /\ chan \in [Subs -> Seq(Nat)]
      /\ loop \in [Subs -> {"initial", "mark", "select", "drain"}]
  BY DEF StreamInv, HubInv, ClientTypes, TypeOK
<1>1. /\ conn[c] \in Subs /\ conn[c] # NoSub /\ loop[conn[c]] # "initial" /\ b # <<>>
      /\ chan' = [chan EXCEPT ![conn[c]] = t] /\ pos' = [pos EXCEPT ![c] = h]
      /\ have' = [have EXCEPT ![c] = @ \cup {h}]
      /\ log' = log /\ txq' = txq /\ conn' = conn /\ subs' = subs
  BY <1>0 DEF Deliver, Looping, Receive
<1>2. /\ b \in Seq(Nat) /\ Ordered(b) /\ Elems(b) = {h} \cup Elems(t)
      /\ \A n \in Elems(t) : h < n
  BY <1>0, <1>1, ElemsOf, OrderedOps DEF SentInv
<1>3. chan'[conn[c]] = t /\ pos'[c] = h /\ have'[c] = have[c] \cup {h}
  BY <1>0, <1>1
<1>4. Coming(c) = Elems(b) /\ Coming(c)' = Elems(chan'[conn[c]])
  BY <1>1 DEF Coming
<1> HIDE DEF b, h, t
<1>5. Coming(c) = {h} \cup Elems(t) /\ Coming(c)' = Elems(t)
  BY <1>2, <1>3, <1>4
<1>6. Behind(c)' = Behind(c) \ {h}
  BY <1>1, <1>3, CommittedStays DEF Behind
<1>7. Seen(c) /\ Started(c)
  BY <1>1 DEF SeenInv, Started
<1>8. ASSUME NEW n \in Behind(c) \ {h}
      PROVE  n > h /\ (n \notin Elems(t) => \A m \in Elems(t) : m < n)
  BY <1>2, <1>5, <1>7, <1>8 DEF Seen
<1>9. conn[c] \in subs => Elems(log) \subseteq have'[c] \cup Elems(t)
  BY <1>3, <1>5, <1>7 DEF Seen
<1> QED
  BY <1>1, <1>3, <1>5, <1>6, <1>8, <1>9 DEF Seen

\* A client without a stream, or whose stream has not started, is where it was.
LEMMA IdleSeen ==
    ASSUME NEW c \in Clients, Seen(c), ~ Started(c)',
           log' = log, txq' = txq, have'[c] = have[c], pos'[c] = pos[c]
    PROVE  Seen(c)'
<1>1. Behind(c)' = Behind(c)
  BY CommittedStays DEF Behind
<1> QED
  BY <1>1 DEF Seen

\* What another client does with its own stream.
LEMMA OtherClient ==
    ASSUME StreamInv, ConnInv, NEW c \in Clients, NEW d \in Clients, d # c, Seen(c),
           \/ List(d) \/ InitialEvents(d) \/ InitialMark(d) \/ Deliver(d) \/ SeeClosed(d)
           \/ Drained(d) \/ HangUp(d) \/ Bookmark(d)
           \/ \E s \in Subs : Watch(d, s) \/ WatchInitial(d, s)
    PROVE  Seen(c)'
<1>0. /\ conn \in [Clients -> Subs \cup {NoSub}] /\ have \in [Clients -> SUBSET Nat]
      /\ pos \in [Clients -> Nat] /\ chan \in [Subs -> Seq(Nat)] /\ NoSub \notin Subs
      /\ loop \in [Subs -> {"initial", "mark", "select", "drain"}] /\ subs \subseteq Subs
  BY WatchHubAssumption DEF StreamInv, HubInv, ClientTypes, TypeOK
<1>1. conn[c] # NoSub => conn[c] \in Subs /\ conn[c] # conn[d] /\ owner[conn[c]] = "open"
  BY <1>0 DEF ConnInv
<1> DEFINE Aside == /\ log' = log /\ txq' = txq /\ have'[c] = have[c] /\ pos'[c] = pos[c]
                    /\ conn'[c] = conn[c]
                    /\ conn[c] # NoSub => /\ loop'[conn[c]] = loop[conn[c]]
                                          /\ chan'[conn[c]] = chan[conn[c]]
                                          /\ conn[c] \in subs' => conn[c] \in subs
<1>2. ASSUME List(d) \/ InitialEvents(d) \/ InitialMark(d) \/ Bookmark(d)
      PROVE  Aside
  <2>1. UNCHANGED vars /\ txq' = txq /\ conn' = conn
    BY <1>2 DEF List, InitialEvents, InitialMark, Bookmark, SendBookmark
  <2>2. log' = log /\ chan' = chan /\ subs' = subs
    BY <2>1 DEF vars, hubVars, chanVars
  <2>3. have'[c] = have[c] /\ pos'[c] = pos[c]
    BY <1>0, <1>2 DEF List, InitialEvents, InitialMark, Bookmark, SendBookmark
  <2>4. conn[c] # NoSub => loop'[conn[c]] = loop[conn[c]]
    BY <1>0, <1>1, <1>2 DEF List, InitialEvents, InitialMark, Bookmark, SendBookmark
  <2> QED
    BY <2>1, <2>2, <2>3, <2>4
<1>3. ASSUME NEW s \in Subs, Watch(d, s) \/ WatchInitial(d, s)
      PROVE  Aside
  <2>1. /\ owner[s] = "none" /\ subs' = subs \cup {s} /\ chan' = [chan EXCEPT ![s] = <<>>]
        /\ log' = log /\ txq' = txq /\ conn' = [conn EXCEPT ![d] = s]
    BY <1>3 DEF Watch, WatchInitial, Subscribe, Fresh
  <2>2. have'[c] = have[c] /\ pos'[c] = pos[c]
    BY <1>0, <1>3 DEF Watch, WatchInitial
  <2>3. \A t \in Subs : t # s => loop'[t] = loop[t]
    BY <1>0, <1>3 DEF Watch, WatchInitial
  <2> QED
    BY <1>0, <1>1, <2>1, <2>2, <2>3
<1>4. ASSUME Deliver(d)
      PROVE  Aside
  <2>1. /\ conn[d] \in Subs /\ chan' = [chan EXCEPT ![conn[d]] = Tail(@)]
        /\ loop' = [loop EXCEPT ![conn[d]] = "drain"]
        /\ log' = log /\ txq' = txq /\ conn' = conn /\ subs' = subs
    BY <1>0, <1>4 DEF Deliver, Looping, Receive
  <2>2. have'[c] = have[c] /\ pos'[c] = pos[c]
    BY <1>0, <1>4 DEF Deliver
  <2> QED
    BY <1>0, <1>1, <2>1, <2>2
<1>5. ASSUME SeeClosed(d) \/ Drained(d) \/ HangUp(d)
      PROVE  Aside
  <2>1. CASE EndStream(d)
    <3>1. /\ log' = log /\ txq' = txq /\ have' = have /\ pos' = pos /\ chan' = chan
          /\ subs' = subs /\ conn' = [conn EXCEPT ![d] = NoSub]
          /\ loop' = [loop EXCEPT ![conn[d]] = "select"]
      BY <2>1 DEF EndStream, Leave, chanVars
    <3> QED
      BY <1>0, <1>1, <3>1
  <2>2. CASE Drained(d) /\ ~ EndStream(d)
    <3>1. /\ UNCHANGED <<vars, txq, conn, pos, have>>
          /\ loop' = [loop EXCEPT ![conn[d]] = "select"]
      BY <2>2 DEF Drained
    <3>2. log' = log /\ chan' = chan /\ subs' = subs
      BY <3>1 DEF vars, hubVars, chanVars
    <3> QED
      BY <1>0, <1>1, <3>1, <3>2
  <2> QED
    BY <1>5, <2>1, <2>2 DEF SeeClosed, HangUp
<1>6. Aside
  BY <1>2, <1>3, <1>4, <1>5
<1> QED
  BY <1>0, <1>6, SeenFrame

\* Whatever a client does on its own stream, it has then seen what it should, or
\* is excused.
LEMMA OwnClient ==
    ASSUME NEW w, Writers = {w}, StreamInv, LineInv, SentInv, ConnInv, SeenInv,
           NEW c \in Clients, c \notin excused',
           \/ List(c) \/ InitialEvents(c) \/ InitialMark(c) \/ Deliver(c) \/ SeeClosed(c)
           \/ Drained(c) \/ HangUp(c) \/ Bookmark(c)
           \/ \E s \in Subs : Watch(c, s) \/ WatchInitial(c, s)
    PROVE  Seen(c)'
<1>0. /\ conn \in [Clients -> Subs \cup {NoSub}] /\ have \in [Clients -> SUBSET Nat]
      /\ pos \in [Clients -> Nat] /\ chan \in [Subs -> Seq(Nat)] /\ NoSub \notin Subs
      /\ loop \in [Subs -> {"initial", "mark", "select", "drain"}]
  BY WatchHubAssumption DEF StreamInv, HubInv, ClientTypes, TypeOK
<1>1. ASSUME List(c) \/ InitialEvents(c)
      PROVE  Committed' \subseteq have'[c]
  <2>1. log' = log /\ txq' = txq
    BY <1>1 DEF List, InitialEvents, vars, hubVars
  <2>2. have' = [have EXCEPT ![c] = @ \cup Committed]
    BY <1>1 DEF List, InitialEvents
  <2> QED
    BY <1>0, <2>1, <2>2, CommittedStays
<1>2. ASSUME InitialMark(c) \/ Bookmark(c)
      PROVE  Committed' \subseteq have'[c]
  <2>1. log' = log /\ txq' = txq /\ have' = have
    BY <1>2 DEF InitialMark, Bookmark, SendBookmark, vars, hubVars
  <2>2. Committed \subseteq have[c]
    BY <1>2 DEF InitialMark, Bookmark, SendBookmark
  <2> QED
    BY <2>1, <2>2, CommittedStays
<1>3. Committed' \subseteq have'[c] => Seen(c)'
  <2>1. Committed' \subseteq have'[c] => Behind(c)' = {} /\ Elems(log') \subseteq have'[c]
    BY DEF Behind, Committed, Elems
  <2> QED
    BY <2>1 DEF Seen
<1>4. ASSUME ~ (List(c) \/ InitialEvents(c) \/ InitialMark(c) \/ Bookmark(c))
      PROVE  c \notin excused /\ Seen(c)
  <2>1. c \notin excused
    BY <1>4 DEF Deliver, SeeClosed, Drained, HangUp, EndStream, Watch, WatchInitial
  <2> QED
    BY <2>1 DEF SeenInv
<1>5. ASSUME NEW s \in Subs, WatchInitial(c, s), Seen(c)
      PROVE  Seen(c)'
  <2>1. log' = log /\ txq' = txq /\ have' = have /\ pos' = pos /\ conn'[c] = s
        /\ loop'[s] = "initial"
    BY <1>0, <1>5 DEF WatchInitial, Subscribe
  <2>2. ~ Started(c)'
    BY <2>1 DEF Started
  <2> QED
    BY <1>5, <2>1, <2>2, IdleSeen
<1>6. ASSUME EndStream(c), Seen(c)
      PROVE  Seen(c)'
  <2>1. log' = log /\ txq' = txq /\ have' = have /\ pos' = pos /\ conn'[c] = NoSub
    BY <1>0, <1>6 DEF EndStream, Leave
  <2>2. ~ Started(c)'
    BY <2>1 DEF Started
  <2> QED
    BY <1>6, <2>1, <2>2, IdleSeen
<1>7. ASSUME Drained(c), ~ EndStream(c), Seen(c)
      PROVE  Seen(c)'
  <2>1. /\ UNCHANGED <<vars, txq, conn, pos, have>>
        /\ conn[c] \in Subs /\ loop[conn[c]] = "drain"
    BY <1>0, <1>7 DEF Drained
  <2>2. log' = log /\ chan' = chan /\ subs' = subs
    BY <2>1 DEF vars, hubVars, chanVars
  <2> QED
    BY <1>0, <1>7, <2>1, <2>2, SeenFrame
<1> QED
  BY <1>1, <1>2, <1>3, <1>4, <1>5, <1>6, <1>7, WatchSeen, DeliverSeen DEF SeeClosed, HangUp

\* With one writer, no step makes a client that is not excused miss a notice.
LEMMA NextSeen ==
    ASSUME NEW w, Writers = {w}, StreamInv, LineInv, SentInv, ConnInv, SeenInv,
           [StreamNext]_allVars
    PROVE  SeenInv'
<1>0. conn \in [Clients -> Subs \cup {NoSub}]
  BY DEF StreamInv, ClientTypes
<1>1. CASE Commit(w) \/ PublishNext(w)
  BY <1>1, CommitSeen, PublishSeen
<1>2. ASSUME NEW d \in Clients,
             \/ List(d) \/ InitialEvents(d) \/ InitialMark(d) \/ Deliver(d) \/ SeeClosed(d)
             \/ Drained(d) \/ HangUp(d) \/ Bookmark(d)
             \/ \E s \in Subs : Watch(d, s) \/ WatchInitial(d, s)
      PROVE  SeenInv'
  <2> SUFFICES ASSUME NEW c \in Clients, c \notin excused'
               PROVE  Seen(c)'
    BY DEF SeenInv
  <2>1. CASE c = d
    BY <1>2, <2>1, OwnClient
  <2>2. CASE c # d
    <3>1. excused \ {d} \subseteq excused'
      BY <1>2 DEF List, InitialEvents, InitialMark, Bookmark, SendBookmark, Deliver, SeeClosed,
         Drained, HangUp, EndStream, Watch, WatchInitial
    <3>2. Seen(c)
      BY <2>2, <3>1 DEF SeenInv
    <3> QED
      BY <1>2, <2>2, <3>2, OtherClient
  <2> QED
    BY <2>1, <2>2
<1>3. CASE TearDown
  <2> SUFFICES ASSUME NEW c \in Clients, c \notin excused'
               PROVE  Seen(c)'
    BY DEF SeenInv
  <2>1. subs' \subseteq subs /\ UNCHANGED <<chan, log, streamVars>>
    BY <1>3, TearDownOwner DEF StreamInv, HubInv
  <2>2. UNCHANGED <<txq, loop, conn, pos, have, excused>>
    BY <2>1 DEF streamVars
  <2>3. Seen(c)
    BY <2>2 DEF SeenInv
  <2> QED
    BY <1>0, <2>1, <2>2, <2>3, SeenFrame
<1>4. CASE UNCHANGED allVars
  <2> SUFFICES ASSUME NEW c \in Clients, c \notin excused'
               PROVE  Seen(c)'
    BY DEF SeenInv
  <2>1. UNCHANGED <<txq, loop, conn, pos, have, excused, log, chan, subs>>
    BY <1>4 DEF allVars, streamVars, vars, hubVars, chanVars
  <2>2. Seen(c)
    BY <2>1 DEF SeenInv
  <2> QED
    BY <1>0, <2>1, <2>2, SeenFrame
<1> QED
  BY <1>1, <1>2, <1>3, <1>4 DEF StreamNext

\* Nobody has a stream, and nothing is committed, at first.
LEMMA InitSeen == StreamInit => ConnInv /\ SeenInv
<1> SUFFICES ASSUME StreamInit PROVE ConnInv /\ SeenInv
  OBVIOUS
<1>1. ConnInv
  BY DEF StreamInit, Init, ConnInv, Agents
<1>2. Committed = {}
  BY DEF StreamInit, Init, Committed, Pending
<1> QED
  BY <1>1, <1>2, SeenAll DEF SeenInv

\* With one writer, a client that missed a notice was on a stream that dropped it,
\* or was sent a bookmark ahead of it, since its last LIST or initial events.
THEOREM LossAlwaysExplained ==
    ASSUME NEW w, Writers = {w}
    PROVE  StreamSpec => []LossIsExplained
<1> DEFINE Inv == LineInv /\ SentInv /\ ConnInv /\ SeenInv
<1>1. StreamInit => Inv
  BY InitSent, InitSeen
<1>2. StreamInv /\ Inv /\ [StreamNext]_allVars => Inv'
  BY NextLine, NextSent, NextConn, NextSeen
<1>3. StreamInv /\ Inv => LossIsExplained
  <2> SUFFICES ASSUME StreamInv, SeenInv, NEW c \in Clients \ excused
               PROVE  Missed(c) = {}
    BY DEF LossIsExplained
  <2>1. \A n \in Behind(c) : n > pos[c]
    BY DEF SeenInv, Seen
  <2>2. pos[c] \in Nat /\ Elems(log) \subseteq Nat
    BY ElemsOf DEF StreamInv, HubInv, TypeOK, ClientTypes
  <2>3. Elems(log) \subseteq Committed
    BY DEF Committed, Elems
  <2>4. \A n \in Elems(log) : n <= pos[c] => n \in have[c]
    BY <2>1, <2>2, <2>3 DEF Behind
  <2> QED
    BY <2>4 DEF Missed
<1> QED
  BY <1>1, <1>2, <1>3, StreamAlways, PTL DEF StreamSpec

-----------------------------------------------------------------------------
(* What the hub promises, behind a writer that queues.                     *)

\* The hub's guarantees do not need the notice to leave with its version.
LEMMA NextStreamGap ==
    ASSUME NEW w, Writers = {w}, StreamInv, LineInv, GotInv, NoSilentGap, [StreamNext]_allVars
    PROVE  GotInv' /\ NoSilentGap'
<1>0. TypeOK /\ RingInv /\ LogInv /\ OrderInv
  <2>1. \A i \in 1 .. Len(log) : log[i] <= rv
    BY DEF StreamInv, Bounded, Elems
  <2> QED
    BY <2>1, LineIsLog DEF StreamInv, HubInv, OrderInv, LineInv
<1>1. CASE [Next]_vars /\ rv' = rv
  BY <1>0, <1>1, NextGap
<1>2. CASE PublishNext(w)
  <2>1. Head(txq[w]) \in Nat /\ Broadcast(Head(txq[w]))
    BY <1>2 DEF PublishNext, StreamInv, ClientTypes
  <2> QED
    BY <1>0, <2>1, BroadcastGap
<1>3. CASE Commit(w)
  <2>1. UNCHANGED hubVars
    BY <1>3 DEF Commit
  <2>2. UNCHANGED <<chan, log, histVars, subs, overflow>>
    BY <2>1 DEF hubVars, chanVars
  <2> QED
    BY <1>0, <2>2, QuietGap
<1> QED
  BY <1>1, <1>2, <1>3, StreamStep

\* With one writer, a stream whose overflow flag is down has been handed, or has
\* buffered, everything it is owed, although notices wait in the writer's queue.
THEOREM StreamGapFree ==
    ASSUME NEW w, Writers = {w}
    PROVE  StreamSpec => []NoSilentGap
<1> DEFINE Inv == LineInv /\ GotInv /\ NoSilentGap
<1>1. StreamInit => Inv
  BY InitSent, InitGap DEF StreamInit
<1>2. StreamInv /\ Inv /\ [StreamNext]_allVars => Inv'
  BY NextLine, NextStreamGap
<1> QED
  BY <1>1, <1>2, StreamAlways, PTL DEF StreamSpec

\* With one writer, an accepted resume misses no notice that was broadcast.
THEOREM StreamReplayComplete ==
    ASSUME NEW w, Writers = {w}
    PROVE  StreamSpec => []ResumeCovered
<1>1. StreamInit => LineInv
  BY InitSent
<1>2. StreamInv /\ LineInv /\ [StreamNext]_allVars => LineInv'
  BY NextLine
<1>3. StreamInv /\ LineInv => ResumeCovered
  BY AcceptedIsCovered, LineIsLog DEF StreamInv, HubInv
<1> QED
  BY <1>1, <1>2, <1>3, StreamAlways, PTL DEF StreamSpec

-----------------------------------------------------------------------------
(* The hub between its writer and its handlers implements WatchFeed.       *)

\* No step leaves a subscription registered that nobody will remove.
LEMMA NextStreamLeft ==
    ASSUME StreamInv, LeftInv, BoundInv, [StreamNext]_allVars
    PROVE  LeftInv' /\ BoundInv'
<1>0. TypeOK /\ TearInv
  BY DEF StreamInv, HubInv
<1>1. CASE [Next]_vars /\ rv' = rv
  BY <1>0, <1>1, NextLeft
<1>2. ASSUME UNCHANGED <<subs, owner, closed, unsub>>
      PROVE  LeftInv'
  <2>1. subs' = subs /\ owner' = owner /\ closed' = closed /\ unsub' = unsub
    BY <1>2
  <2> QED
    BY <2>1 DEF LeftInv
<1>3. ASSUME NEW w \in Writers, PublishNext(w)
      PROVE  LeftInv' /\ BoundInv'
  <2>1. UNCHANGED <<subs, owner, closed, unsub>> /\ rv' = rv
    BY <1>3 DEF PublishNext, Broadcast, tearVars
  <2> QED
    BY <1>2, <2>1 DEF BoundInv
<1>4. ASSUME NEW w \in Writers, Commit(w)
      PROVE  LeftInv' /\ BoundInv'
  <2>1. UNCHANGED <<subs, owner, closed, unsub>>
    BY <1>4 DEF Commit, hubVars, chanVars, tearVars
  <2>2. BoundInv'
    <3>1. PICK k \in 1 .. MaxTx : rv + k <= MaxRV /\ rv' = rv + k
      BY <1>4 DEF Commit
    <3>2. SealRV \in Nat /\ MaxRV \in Nat /\ rv' <= MaxRV /\ rv \in Nat /\ k \in Int
      BY <1>0, <3>1, WatchHubAssumption, WatchStreamAssumption DEF TypeOK
    <3> QED
      BY <3>1, <3>2 DEF BoundInv
  <2> QED
    BY <1>2, <2>1, <2>2
<1> QED
  BY <1>1, <1>3, <1>4, StreamStep

\* Of the steps that are not the hub's own, the broadcast of a queued notice is
\* an announcement, and a commit is none of the feed's business.
LEMMA NextStreamFeeds ==
    ASSUME NEW w, Writers = {w}, StreamInv, LineInv, LeftInv, BoundInv, [StreamNext]_allVars
    PROVE  [Feed!FeedNext]_(Feed!feedVars)
<1>0. TypeOK /\ RingInv /\ OrderInv
  <2>1. \A i \in 1 .. Len(log) : log[i] <= rv
    BY DEF StreamInv, Bounded, Elems
  <2> QED
    BY <2>1, LineIsLog DEF StreamInv, HubInv, OrderInv, LineInv
<1>1. CASE [Next]_vars /\ rv' = rv
  BY <1>0, <1>1, NextFeeds
<1>2. CASE PublishNext(w)
  <2> DEFINE n == Head(txq[w])
  <2>1. txq[w] \in Seq(Nat) /\ txq[w] # <<>> /\ Broadcast(n)
    BY <1>2 DEF PublishNext, StreamInv, ClientTypes
  <2>2. n \in Nat /\ n \in Elems(txq[w])
    BY <2>1, HeadTailProperties DEF Elems
  <2>3. n \in 0 .. SealRV + MaxRV
    <3>1. n <= rv /\ rv \in Nat /\ SealRV \in Nat /\ MaxRV \in Nat
      BY <1>0, <2>2, WatchHubAssumption DEF StreamInv, Bounded, TypeOK
    <3> QED
      BY <2>2, <3>1 DEF BoundInv
  <2>4. \A i \in 1 .. Len(log) : log[i] < n
    BY <2>2 DEF LineInv, Elems
  <2> HIDE DEF n
  <2>5. Feed!Announce(n)
    BY <1>0, <2>1, <2>2, <2>4, BroadcastFeeds
  <2> QED
    BY <2>3, <2>5, Zenon DEF Feed!FeedNext
<1>3. CASE Commit(w)
  BY <1>0, <1>3, OthersFeed DEF Commit
<1> QED
  BY <1>1, <1>2, <1>3, StreamStep

\* With one writer, whatever handlers and clients do, and though notices are
\* committed before they are broadcast, the hub is one log that every stream is
\* handed from where it resumes, until its overflow flag is raised
\* (cluster.go:297-313, watch.go:34-190).
THEOREM StreamImplementsFeed ==
    ASSUME NEW w, Writers = {w}
    PROVE  StreamSpec => ImplementsFeed
<1> DEFINE Inv == LineInv /\ LeftInv /\ BoundInv
<1>1. StreamInit => Inv /\ Feed!FeedInit
  BY InitSent, InitLeft, InitFeeds DEF StreamInit
<1>2. StreamInv /\ Inv /\ [StreamNext]_allVars => Inv'
  BY NextLine, NextStreamLeft
<1>3. StreamInv /\ Inv /\ [StreamNext]_allVars => [Feed!FeedNext]_(Feed!feedVars)
  BY NextStreamFeeds
<1> QED
  BY <1>1, <1>2, <1>3, StreamAlways, PTL DEF StreamSpec, ImplementsFeed, Feed!FeedSpec

=============================================================================
