---------------------------- MODULE TelemetryProofs ----------------------------
(***************************************************************************)
(* Proofs about Telemetry, for every number of goroutines and requests,    *)
(* every size of the rings and every rate window: the counters and the     *)
(* rows agree with what was recorded, the latency ring holds the last      *)
(* durations, and a dashboard frame is off by no more than what finished   *)
(* while it was taken; and, for every name of objects and namespaces, what *)
(* the path of a client means and which row it is filed under.             *)
(***************************************************************************)
EXTENDS Telemetry, FiniteSetTheorems, SequenceTheorems, WellFoundedInduction, TLAPS

-----------------------------------------------------------------------------
(* Types.                                                                  *)

Req == [start : Nat, req : Requests \cup {Idle.req}, kind : Kinds, status : Nat, took : Int]
Pcs == {"idle", "routed", "answered", "open", "counted", "ingest"}

\* The types of what requests and Record write.
Types ==
    /\ now \in Nat
    /\ pc \in [Gs -> Pcs] /\ rec \in [Gs -> Req]
    /\ total \in Nat /\ errors \in Nat /\ byKind \in [Kinds -> Nat] /\ activeWA \in Int
    /\ latency \in [0 .. LatencySamples - 1 -> Int]
    /\ latNext \in 0 .. LatencySamples - 1 /\ latFull \in BOOLEAN
    /\ recent \in [0 .. RecentRequests - 1 -> Req]
    /\ recNext \in 0 .. RecentRequests - 1 /\ recFull \in BOOLEAN
    /\ done \in Seq(Req)
    /\ during \in Nat

\* What a request records is a kind of request.
LEMMA KindIsKind ==
    ASSUME NEW route
    PROVE  RecordedKind(route) \in Kinds
  BY DEF RecordedKind, Kinds

\* An idle goroutine's record is a record.
LEMMA IdleIsReq == Idle \in Req /\ Idle.req \in Requests \cup {Idle.req}
<1>1. Idle.req \in Requests \cup {Idle.req}
  OBVIOUS
<1>2. Idle \in Req
  <2>1. Idle = [start |-> 0, req |-> Idle.req, kind |-> "other", status |-> 200, took |-> 0]
    BY DEF Idle
  <2>2. "other" \in Kinds
    BY DEF Kinds
  <2> HIDE DEF Idle
  <2> QED
    BY <1>1, <2>1, <2>2 DEF Req
<1> QED
  BY <1>1, <1>2

\* A request at rest has its types.
LEMMA InitTypes == Init => Types
<1> SUFFICES ASSUME Init PROVE Types
  OBVIOUS
<1>1. now \in Nat /\ total \in Nat /\ errors \in Nat /\ activeWA \in Int /\ during \in Nat
  BY DEF Init
<1>2. pc \in [Gs -> Pcs] /\ rec \in [Gs -> Req]
  BY IdleIsReq DEF Init, Pcs
<1>3. byKind \in [Kinds -> Nat]
  BY DEF Init
<1>4. latency \in [0 .. LatencySamples - 1 -> Int] /\ latNext \in 0 .. LatencySamples - 1
      /\ latFull \in BOOLEAN
  <2>1. latency = [i \in 0 .. LatencySamples - 1 |-> 0] /\ latNext = 0 /\ latFull = FALSE
    BY DEF Init
  <2>2. 0 \in 0 .. LatencySamples - 1
    BY TelemetryAssumption
  <2>3. latency \in [0 .. LatencySamples - 1 -> Int]
    BY <2>1
  <2> QED
    BY <2>1, <2>2, <2>3
<1>5. recent \in [0 .. RecentRequests - 1 -> Req] /\ recNext \in 0 .. RecentRequests - 1
      /\ recFull \in BOOLEAN
  <2>1. recent = [i \in 0 .. RecentRequests - 1 |-> Idle] /\ recNext = 0 /\ recFull = FALSE
    BY DEF Init
  <2>2. 0 \in 0 .. RecentRequests - 1
    BY TelemetryAssumption
  <2>3. recent \in [0 .. RecentRequests - 1 -> Req]
    BY <2>1, IdleIsReq, Zenon
  <2> QED
    BY <2>1, <2>2, <2>3
<1>6. done \in Seq(Req)
  BY DEF Init
<1> QED
  BY <1>1, <1>2, <1>3, <1>4, <1>5, <1>6 DEF Types

\* A request is answered under a kind and with a status.
LEMMA AnswerTypes ==
    ASSUME Types, NEW g \in Gs, NEW kind \in Kinds, NEW status \in Nat, Answer(g, kind, status)
    PROVE  pc' \in [Gs -> Pcs] /\ rec' \in [Gs -> Req]
           /\ pc'[g] = "answered" /\ \A h \in Gs \ {g} : pc'[h] = pc[h] /\ rec'[h] = rec[h]
  BY DEF Answer, Types, Req, Pcs

\* The statuses of a route are numbers.
LEMMA StatusesTypes ==
    ASSUME NEW route
    PROVE  Statuses(route) \subseteq Nat
  BY DEF Statuses

\* What each step of a request does to its goroutine.
LEMMA Moves ==
    ASSUME Types, NEW g \in Gs, Serve(g)
    PROVE  /\ pc' \in [Gs -> Pcs] /\ rec' \in [Gs -> Req]
           /\ \A h \in Gs \ {g} : pc'[h] = pc[h] /\ rec'[h] = rec[h]
           /\ Accept(g) => pc[g] = "idle" /\ pc'[g] = "routed"
           /\ Chaos(g) \/ Handle(g) \/ WatchRefused(g) => pc[g] = "routed" /\ pc'[g] = "answered"
           /\ Open(g) => pc[g] = "routed" /\ pc'[g] = "open"
           /\ Close(g) => pc[g] = "open" /\ pc'[g] = "answered"
           /\ CountTotal(g) => pc[g] = "answered" /\ pc'[g] = "counted"
           /\ CountKind(g) => pc[g] = "counted" /\ pc'[g] = "ingest" /\ rec' = rec
           /\ Ingest(g) => pc[g] = "ingest" /\ pc'[g] = "idle"
<1> DEFINE Goal == /\ pc' \in [Gs -> Pcs] /\ rec' \in [Gs -> Req]
                   /\ \A h \in Gs \ {g} : pc'[h] = pc[h] /\ rec'[h] = rec[h]
<1>1. ASSUME Accept(g)
      PROVE  Goal /\ pc[g] = "idle" /\ pc'[g] = "routed"
  <2>1. PICK r \in Requests : rec' = [rec EXCEPT ![g] = [Idle EXCEPT !.start = now, !.req = r]]
    BY <1>1 DEF Accept
  <2>2. now \in Nat
    BY DEF Types
  <2>3. [Idle EXCEPT !.start = now, !.req = r] \in Req
    BY <2>2, IdleIsReq DEF Req
  <2> QED
    BY <1>1, <2>1, <2>3 DEF Accept, Types, Pcs
<1>2. ASSUME Chaos(g) \/ Handle(g) \/ WatchRefused(g)
      PROVE  Goal /\ pc[g] = "routed" /\ pc'[g] = "answered"
  <2>1. pc[g] = "routed" /\ \E kind \in Kinds, status \in Nat : Answer(g, kind, status)
    BY <1>2, KindIsKind, StatusesTypes, "other" \in Kinds, "watch" \in Kinds
    DEF Chaos, Handle, WatchRefused, Kinds
  <2> QED
    BY <2>1, AnswerTypes
<1>3. ASSUME Open(g)
      PROVE  Goal /\ pc[g] = "routed" /\ pc'[g] = "open"
  BY <1>3, KindIsKind DEF Open, Types, Pcs, Req
<1>4. ASSUME Close(g)
      PROVE  Goal /\ pc[g] = "open" /\ pc'[g] = "answered"
  <2>1. rec[g].kind \in Kinds
    BY DEF Types, Req
  <2> QED
    BY <1>4, <2>1, AnswerTypes DEF Close
<1>5. ASSUME CountTotal(g)
      PROVE  Goal /\ pc[g] = "answered" /\ pc'[g] = "counted"
  <2>1. now - rec[g].start \in Int /\ rec[g] \in Req
    BY DEF Types, Req
  <2>2. [rec[g] EXCEPT !.took = now - rec[g].start] \in Req
    BY <2>1 DEF Req
  <2>3. rec' = [rec EXCEPT ![g] = [rec[g] EXCEPT !.took = now - rec[g].start]]
    BY <1>5 DEF CountTotal
  <2>4. pc[g] = "answered" /\ pc' = [pc EXCEPT ![g] = "counted"]
    BY <1>5 DEF CountTotal
  <2> QED
    BY <2>2, <2>3, <2>4 DEF Types, Pcs
<1>6. ASSUME CountKind(g)
      PROVE  Goal /\ pc[g] = "counted" /\ pc'[g] = "ingest" /\ rec' = rec
  BY <1>6 DEF CountKind, Types, Pcs
<1>7. ASSUME Ingest(g)
      PROVE  Goal /\ pc[g] = "ingest" /\ pc'[g] = "idle"
  BY <1>7, IdleIsReq DEF Ingest, Types, Pcs
<1> QED
  BY <1>1, <1>2, <1>3, <1>4, <1>5, <1>6, <1>7 DEF Serve

-----------------------------------------------------------------------------
(* Counting.                                                               *)

\* The indices of the records of q that are in S.
Hits(q, S) == {i \in DOMAIN q : q[i] \in S}

\* What a record adds to a count of the records in S.
Hit(r, S) == IF r \in S THEN 1 ELSE 0

\* Adding a record to a sequence adds it to the records that are counted.
LEMMA AppendHits ==
    ASSUME NEW q \in Seq(Req), NEW r \in Req, NEW S, NEW p \in Seq(Req), p = Append(q, r)
    PROVE  Cardinality(Hits(p, S)) = Cardinality(Hits(q, S)) + Hit(r, S)
<1>1. /\ Len(q) \in Nat /\ DOMAIN q = 1 .. Len(q) /\ DOMAIN p = 1 .. Len(q) + 1
      /\ \A i \in 1 .. Len(q) : p[i] = q[i]
      /\ p[Len(q) + 1] = r
  OBVIOUS
<1>2. IsFiniteSet(Hits(q, S)) /\ Cardinality(Hits(q, S)) \in Nat
  <2>1. IsFiniteSet(1 .. Len(q)) /\ Hits(q, S) \in SUBSET (1 .. Len(q))
    BY <1>1, FS_Interval DEF Hits
  <2> QED
    BY <2>1, FS_Subset, FS_CardinalityType
<1>3. Len(q) + 1 \notin Hits(q, S)
  BY <1>1 DEF Hits
<1>4. Hits(p, S) = IF r \in S THEN Hits(q, S) \cup {Len(q) + 1} ELSE Hits(q, S)
  <2>1. 1 .. Len(q) + 1 = (1 .. Len(q)) \cup {Len(q) + 1}
    BY <1>1
  <2> QED
    BY <1>1, <2>1 DEF Hits
<1>5. CASE r \in S
  BY <1>2, <1>3, <1>4, <1>5, FS_AddElement DEF Hit
<1>6. CASE r \notin S
  BY <1>2, <1>4, <1>6 DEF Hit
<1> QED
  BY <1>5, <1>6

\* Two sets of goroutines that agree on all but g.
LEMMA OneMoves ==
    ASSUME NEW g \in Gs, NEW A \in SUBSET Gs, NEW B \in SUBSET Gs, A \ {g} = B \ {g}
    PROVE  /\ Cardinality(A) \in Nat /\ Cardinality(B) \in Nat
           /\ Cardinality(B) = Cardinality(A) + (IF g \in B THEN 1 ELSE 0)
                                             - (IF g \in A THEN 1 ELSE 0)
<1>1. IsFiniteSet(A) /\ IsFiniteSet(B)
  BY TelemetryAssumption, FS_Subset
<1>2. Cardinality(A) \in Nat /\ Cardinality(B) \in Nat
  BY <1>1, FS_CardinalityType
<1>3. Cardinality(A \ {g}) = IF g \in A THEN Cardinality(A) - 1 ELSE Cardinality(A)
  BY <1>1, FS_RemoveElement
<1>4. Cardinality(B \ {g}) = IF g \in B THEN Cardinality(B) - 1 ELSE Cardinality(B)
  BY <1>1, FS_RemoveElement
<1> QED
  BY <1>2, <1>3, <1>4

-----------------------------------------------------------------------------
(* The counters agree with what was recorded.                              *)

\* The recorded requests in S, and the goroutines at the points P with one in S.
Marked(S) == Hits(done, S)
In(P, S)  == {g \in Gs : pc[g] \in P /\ rec[g] \in S}

FailedReqs == {r \in Req : Failed(r)}
Under(k)   == {r \in Req : KeyOf(r) = k}

\* CountersAgree, told with sets of records.
Counted ==
    /\ total  = Cardinality(Marked(Req)) + Cardinality(In({"counted", "ingest"}, Req))
    /\ errors = Cardinality(Marked(FailedReqs)) + Cardinality(In({"ingest"}, FailedReqs))
    /\ activeWA = Cardinality(In({"open"}, Req))

\* RowsCount, told with sets of records.
Rows ==
    /\ \A k : k \in DOMAIN paths <=> Cardinality(Marked(Under(k))) # 0
    /\ \A k \in DOMAIN paths :
        /\ paths[k].count  = Cardinality(Marked(Under(k)))
        /\ paths[k].errors = Cardinality(Marked(Under(k) \cap FailedReqs))

\* A step of g moves g alone in and out of the sets of goroutines.
LEMMA InMoves ==
    ASSUME Types, NEW g \in Gs, Serve(g), NEW P, NEW S
    PROVE  /\ Cardinality(In(P, S)) \in Nat
           /\ Cardinality(In(P, S))' = Cardinality(In(P, S))
                + (IF pc'[g] \in P /\ rec'[g] \in S THEN 1 ELSE 0)
                - (IF pc[g] \in P /\ rec[g] \in S THEN 1 ELSE 0)
<1>1. \A h \in Gs \ {g} : pc'[h] = pc[h] /\ rec'[h] = rec[h]
  BY Moves
<1> DEFINE A == {h \in Gs : pc[h] \in P /\ rec[h] \in S}
           B == {h \in Gs : pc'[h] \in P /\ rec'[h] \in S}
<1>2. A \in SUBSET Gs /\ B \in SUBSET Gs /\ A \ {g} = B \ {g}
  BY <1>1
<1>3. (g \in A <=> pc[g] \in P /\ rec[g] \in S) /\ (g \in B <=> pc'[g] \in P /\ rec'[g] \in S)
  OBVIOUS
<1>4. In(P, S) = A /\ In(P, S)' = B
  BY DEF In
<1> HIDE DEF A, B
<1>5. /\ Cardinality(A) \in Nat
      /\ Cardinality(B) = Cardinality(A) + (IF g \in B THEN 1 ELSE 0)
                                        - (IF g \in A THEN 1 ELSE 0)
  BY <1>2, OneMoves
<1> QED
  BY <1>3, <1>4, <1>5

\* A finite set of indices has a number of them.
LEMMA MarkedIsFinite ==
    ASSUME Types, NEW S
    PROVE  IsFiniteSet(Marked(S)) /\ Cardinality(Marked(S)) \in Nat
<1>1. IsFiniteSet(1 .. Len(done)) /\ Marked(S) \in SUBSET (1 .. Len(done))
  <2>1. done \in Seq(Req) /\ Len(done) \in Nat /\ DOMAIN done = 1 .. Len(done)
    BY DEF Types
  <2> QED
    BY <2>1, FS_Interval DEF Marked, Hits
<1> QED
  BY <1>1, FS_Subset, FS_CardinalityType

\* Ingest adds the record of g to those counted.
LEMMA MarkedGrows ==
    ASSUME Types, NEW g \in Gs, Ingest(g), NEW S
    PROVE  Cardinality(Marked(S))' = Cardinality(Marked(S)) + Hit(rec[g], S)
<1>1. rec[g] \in Req /\ done \in Seq(Req) /\ done' = Append(done, rec[g]) /\ done' \in Seq(Req)
  BY DEF Types, Ingest
<1>2. Cardinality(Hits(done', S)) = Cardinality(Hits(done, S)) + Hit(rec[g], S)
  BY <1>1, AppendHits
<1>3. Cardinality(Marked(S)) = Cardinality(Hits(done, S))
      /\ Cardinality(Marked(S))' = Cardinality(Hits(done', S))
  BY DEF Marked, Hits
<1> QED
  BY <1>2, <1>3

\* Nothing is marked or unmarked while done stays.
LEMMA MarkedStays ==
    ASSUME UNCHANGED done, NEW S
    PROVE  Marked(S)' = Marked(S) /\ Cardinality(Marked(S))' = Cardinality(Marked(S))
  BY DEF Marked, Hits

\* Nobody moves while the flow stays.
LEMMA InStays ==
    ASSUME UNCHANGED flowVars, NEW P, NEW S
    PROVE  In(P, S)' = In(P, S) /\ Cardinality(In(P, S))' = Cardinality(In(P, S))
  BY DEF In, flowVars

\* Before the first request every count is zero.
LEMMA InitCounted == Init => Counted /\ Rows
<1> SUFFICES ASSUME Init PROVE Counted /\ Rows
  OBVIOUS
<1>1. \A S : Marked(S) = {}
  BY DEF Init, Marked, Hits
<1>2. \A S : In({"counted", "ingest"}, S) = {} /\ In({"ingest"}, S) = {} /\ In({"open"}, S) = {}
  BY DEF Init, In
<1>3. Cardinality({}) = 0
  BY FS_EmptySet
<1>4. total = 0 /\ errors = 0 /\ activeWA = 0 /\ DOMAIN paths = {}
  BY DEF Init, Kinds
<1>5. Counted
  <2>1. \A S : Cardinality(Marked(S)) = 0 /\ Cardinality(In({"ingest"}, S)) = 0
    BY <1>1, <1>2, <1>3
  <2>2. Cardinality(In({"counted", "ingest"}, Req)) = 0 /\ Cardinality(In({"open"}, Req)) = 0
    BY <1>2, <1>3
  <2> QED
    BY <1>4, <2>1, <2>2 DEF Counted
<1>6. Rows
  BY <1>1, <1>3, <1>4 DEF Rows
<1> QED
  BY <1>5, <1>6

\* Each atomic is added to in the step that moves the request.
LEMMA ServeCounted ==
    ASSUME Types, Counted, NEW g \in Gs, Serve(g)
    PROVE  Counted'
<1>1. rec[g] \in Req /\ rec'[g] \in Req
  BY Moves DEF Types
<1>2. /\ Cardinality(Marked(Req)) \in Nat /\ Cardinality(Marked(FailedReqs)) \in Nat
  BY MarkedIsFinite
<1>3. /\ Cardinality(In({"counted", "ingest"}, Req)) \in Nat
      /\ Cardinality(In({"counted", "ingest"}, Req))' = Cardinality(In({"counted", "ingest"}, Req))
           + (IF pc'[g] \in {"counted", "ingest"} THEN 1 ELSE 0)
           - (IF pc[g] \in {"counted", "ingest"} THEN 1 ELSE 0)
  BY <1>1, InMoves
<1>4. /\ Cardinality(In({"ingest"}, FailedReqs)) \in Nat
      /\ Cardinality(In({"ingest"}, FailedReqs))' = Cardinality(In({"ingest"}, FailedReqs))
           + (IF pc'[g] = "ingest" /\ rec'[g] \in FailedReqs THEN 1 ELSE 0)
           - (IF pc[g] = "ingest" /\ rec[g] \in FailedReqs THEN 1 ELSE 0)
  BY InMoves
<1>5. /\ Cardinality(In({"open"}, Req)) \in Nat
      /\ Cardinality(In({"open"}, Req))' = Cardinality(In({"open"}, Req))
           + (IF pc'[g] = "open" THEN 1 ELSE 0) - (IF pc[g] = "open" THEN 1 ELSE 0)
  BY <1>1, InMoves
<1> DEFINE M1 == Cardinality(Marked(Req))
           M2 == Cardinality(Marked(FailedReqs))
           A1 == Cardinality(In({"counted", "ingest"}, Req))
           A2 == Cardinality(In({"ingest"}, FailedReqs))
           A3 == Cardinality(In({"open"}, Req))
<1>7. total = M1 + A1 /\ errors = M2 + A2 /\ activeWA = A3
  BY DEF Counted
<1>8. ASSUME UNCHANGED done
      PROVE  M1' = M1 /\ M2' = M2
  BY <1>8, MarkedStays
<1>9. SUFFICES total' = M1' + A1' /\ errors' = M2' + A2' /\ activeWA' = A3'
  BY DEF Counted
<1> HIDE DEF M1, M2, A1, A2, A3
<1>10. CASE Accept(g) \/ Chaos(g) \/ Handle(g) \/ WatchRefused(g)
  <2>1. total' = total /\ errors' = errors /\ byKind' = byKind /\ activeWA' = activeWA
        /\ done' = done
    BY <1>10 DEF Accept, Chaos, Handle, WatchRefused, atomVars, liveVars, lockVars
  <2>2. /\ pc[g] \in {"idle", "routed"} /\ pc'[g] \in {"routed", "answered"}
    BY <1>10, Moves
  <2>3. M1' = M1 /\ M2' = M2
    BY <1>8, <2>1
  <2>4. A1' = A1 /\ A2' = A2 /\ A3' = A3
    BY <1>3, <1>4, <1>5, <2>2 DEF A1, A2, A3
  <2> QED
    BY <1>7, <2>1, <2>3, <2>4
<1>11. CASE Open(g)
  <2>1. total' = total /\ errors' = errors /\ byKind' = byKind /\ activeWA' = activeWA + 1
        /\ done' = done
    BY <1>11 DEF Open, atomVars, lockVars
  <2>2. pc[g] = "routed" /\ pc'[g] = "open"
    BY <1>11, Moves
  <2>3. M1' = M1 /\ M2' = M2
    BY <1>8, <2>1
  <2>4. A1' = A1 /\ A2' = A2 /\ A3' = A3 + 1
    BY <1>3, <1>4, <1>5, <2>2 DEF A1, A2, A3
  <2> QED
    BY <1>7, <2>1, <2>3, <2>4
<1>12. CASE Close(g)
  <2>1. total' = total /\ errors' = errors /\ byKind' = byKind /\ activeWA' = activeWA - 1
        /\ done' = done
    BY <1>12 DEF Close, atomVars, lockVars
  <2>2. pc[g] = "open" /\ pc'[g] = "answered"
    BY <1>12, Moves
  <2>3. M1' = M1 /\ M2' = M2
    BY <1>8, <2>1
  <2>4. A1' = A1 /\ A2' = A2 /\ A3' = A3 - 1
    BY <1>3, <1>4, <1>5, <2>2 DEF A1, A2, A3
  <2> QED
    BY <1>7, <2>1, <2>3, <2>4
<1>13. CASE CountTotal(g)
  <2>1. total' = total + 1 /\ errors' = errors /\ byKind' = byKind /\ activeWA' = activeWA
        /\ done' = done
    BY <1>13 DEF CountTotal, liveVars, lockVars
  <2>2. pc[g] = "answered" /\ pc'[g] = "counted"
    BY <1>13, Moves
  <2>3. M1' = M1 /\ M2' = M2
    BY <1>8, <2>1
  <2>4. A1' = A1 + 1 /\ A2' = A2 /\ A3' = A3 /\ M1 \in Nat /\ A1 \in Nat
    BY <1>2, <1>3, <1>4, <1>5, <2>2 DEF A1, A2, A3, M1
  <2> QED
    BY <1>7, <2>1, <2>3, <2>4
<1>14. CASE CountKind(g)
  <2> DEFINE E == IF Failed(rec[g]) THEN 1 ELSE 0
  <2>1. /\ total' = total /\ errors' = errors + E /\ activeWA' = activeWA /\ done' = done
        /\ byKind' = [byKind EXCEPT ![rec[g].kind] = @ + 1]
    BY <1>14 DEF CountKind, liveVars, lockVars
  <2>2. pc[g] = "counted" /\ pc'[g] = "ingest" /\ rec' = rec
    BY <1>14, Moves
  <2>3. M1' = M1 /\ M2' = M2
    BY <1>8, <2>1
  <2>4. rec'[g] \in FailedReqs <=> Failed(rec[g])
    BY <1>1, <2>2 DEF FailedReqs
  <2>5. A1' = A1 /\ A2' = A2 + E /\ A3' = A3
    BY <1>3, <1>4, <1>5, <2>2, <2>4 DEF A1, A2, A3
  <2>6. M2 \in Nat /\ A2 \in Nat /\ E \in Nat
    BY <1>2, <1>4 DEF A2, M2
  <2> HIDE DEF E
  <2> QED
    BY <1>7, <2>1, <2>3, <2>5, <2>6
<1>15. CASE Ingest(g)
  <2> DEFINE E == IF rec[g] \in FailedReqs THEN 1 ELSE 0
  <2>1. total' = total /\ errors' = errors /\ byKind' = byKind /\ activeWA' = activeWA
    BY <1>15 DEF Ingest, atomVars, liveVars
  <2>2. pc[g] = "ingest" /\ pc'[g] = "idle"
    BY <1>15, Moves
  <2>3. M1' = M1 + 1 /\ M2' = M2 + E
    BY <1>1, <1>15, MarkedGrows DEF M1, M2, Hit
  <2>4. A1' = A1 - 1 /\ A2' = A2 - E /\ A3' = A3
    BY <1>3, <1>4, <1>5, <2>2 DEF A1, A2, A3
  <2>5. M1 \in Nat /\ A1 \in Nat /\ M2 \in Nat /\ A2 \in Nat /\ E \in Nat
    BY <1>2, <1>3, <1>4 DEF A1, A2, M1, M2
  <2> HIDE DEF E
  <2> QED
    BY <1>7, <2>1, <2>3, <2>4, <2>5
<1> QED
  BY <1>10, <1>11, <1>12, <1>13, <1>14, <1>15 DEF Serve

\* The row of the request alone is touched.
LEMMA IngestRows ==
    ASSUME Types, Rows, NEW g \in Gs, Ingest(g)
    PROVE  Rows'
<1> DEFINE r     == rec[g]
           key   == KeyOf(r)
           N(k)  == Cardinality(Marked(Under(k)))
           F(k)  == Cardinality(Marked(Under(k) \cap FailedReqs))
           old   == IF key \in DOMAIN paths THEN paths[key] ELSE NewStat
<1>1. r \in Req
  BY DEF Types
<1>2. \A k : /\ N(k) \in Nat /\ F(k) \in Nat
            /\ N(k)' = N(k) + Hit(r, Under(k))
            /\ F(k)' = F(k) + Hit(r, Under(k) \cap FailedReqs)
  BY MarkedIsFinite, MarkedGrows
<1>3. \A k : Hit(r, Under(k)) = IF k = key THEN 1 ELSE 0
  BY <1>1 DEF Hit, Under
<1>4. \A k : Hit(r, Under(k) \cap FailedReqs) = IF k = key /\ Failed(r) THEN 1 ELSE 0
  BY <1>1 DEF Hit, Under, FailedReqs
<1>5. paths' = [k \in DOMAIN paths \cup {key} |-> IF k = key THEN Tally(old, r) ELSE paths[k]]
  BY DEF Ingest
<1>6. /\ \A k : k \in DOMAIN paths <=> N(k) # 0
      /\ \A k \in DOMAIN paths : paths[k].count = N(k) /\ paths[k].errors = F(k)
  BY DEF Rows
<1>7. F(key) = 0 \/ key \in DOMAIN paths
  <2>1. Marked(Under(key) \cap FailedReqs) \in SUBSET Marked(Under(key))
    BY DEF Marked, Hits
  <2>2. IsFiniteSet(Marked(Under(key)))
    BY MarkedIsFinite
  <2>3. F(key) <= N(key)
    BY <2>1, <2>2, FS_Subset
  <2> HIDE DEF N, F
  <2> QED
    BY <1>2, <1>6, <2>3
<1>8. old.count = N(key) /\ old.errors = F(key)
  <2>1. CASE key \in DOMAIN paths
    BY <1>6, <2>1
  <2>2. CASE key \notin DOMAIN paths
    BY <1>6, <1>7, <2>2 DEF NewStat
  <2> QED
    BY <2>1, <2>2
<1>9. Tally(old, r).count = old.count + 1
      /\ Tally(old, r).errors = old.errors + (IF Failed(r) THEN 1 ELSE 0)
  BY DEF Tally
<1>10. SUFFICES /\ \A k : k \in DOMAIN paths' <=> N(k)' # 0
                /\ \A k \in DOMAIN paths' : paths'[k].count = N(k)' /\ paths'[k].errors = F(k)'
  BY DEF Rows
<1> HIDE DEF N, F, old, key, r
<1>11. ASSUME NEW k
       PROVE  k \in DOMAIN paths' <=> N(k)' # 0
  BY <1>2, <1>3, <1>5, <1>6
<1>12. ASSUME NEW k \in DOMAIN paths'
       PROVE  paths'[k].count = N(k)' /\ paths'[k].errors = F(k)'
  <2>1. CASE k = key
    <3>1. paths'[k] = Tally(old, r)
      BY <1>5, <2>1
    <3>2. N(k)' = N(k) + 1 /\ F(k)' = F(k) + (IF Failed(r) THEN 1 ELSE 0)
      BY <1>2, <1>3, <1>4, <2>1
    <3> QED
      BY <1>8, <1>9, <2>1, <3>1, <3>2
  <2>2. CASE k # key
    <3>1. k \in DOMAIN paths /\ paths'[k] = paths[k]
      BY <1>5, <2>2
    <3>2. N(k)' = N(k) /\ F(k)' = F(k)
      <4>1. Hit(r, Under(k)) = 0
        BY <1>3, <2>2
      <4>2. Hit(r, Under(k) \cap FailedReqs) = 0
        BY <1>4, <2>2
      <4> QED
        BY <1>2, <4>1, <4>2
    <3> QED
      BY <1>6, <3>1, <3>2
  <2> QED
    BY <2>1, <2>2
<1> QED
  BY <1>11, <1>12

\* The rows stay when nothing is recorded.
LEMMA RowsStay ==
    ASSUME Rows, UNCHANGED <<done, paths>>
    PROVE  Rows'
  BY MarkedStays DEF Rows, Under, Row, KeyOf

\* The sets of records say what CountersAgree says.
LEMMA CountedSuffices ==
    ASSUME Types, Counted, Rows
    PROVE  CountersAgree
<1>1. done \in Seq(Req) /\ \A i \in DOMAIN done : done[i] \in Req
  BY DEF Types
<1>2. \A g \in Gs : rec[g] \in Req
  BY DEF Types
<1>3. /\ Marked(Req) = {i \in DOMAIN done : Every(done[i])}
      /\ Marked(FailedReqs) = {i \in DOMAIN done : Failed(done[i])}
  BY <1>1 DEF Marked, Hits, FailedReqs, Every
<1>4. /\ In({"counted", "ingest"}, Req)
           = {g \in Gs : pc[g] \in {"counted", "ingest"} /\ Every(rec[g])}
      /\ In({"ingest"}, FailedReqs) = {g \in Gs : pc[g] \in {"ingest"} /\ Failed(rec[g])}
      /\ In({"open"}, Req) = {g \in Gs : pc[g] \in {"open"} /\ Every(rec[g])}
  BY <1>2 DEF In, FailedReqs, Every
<1>5. /\ total = Finished(Every) + Inside({"counted", "ingest"}, Every)
      /\ errors = Finished(Failed) + Inside({"ingest"}, Failed)
      /\ activeWA = Inside({"open"}, Every)
  BY <1>3, <1>4 DEF Counted, Finished, Inside
<1>6. RowsCount
  <2>1. \A k : /\ Marked(Under(k)) = {i \in DOMAIN done : KeyOf(done[i]) = k}
              /\ Marked(Under(k) \cap FailedReqs)
                   = {i \in DOMAIN done : KeyOf(done[i]) = k /\ Failed(done[i])}
    BY <1>1 DEF Marked, Hits, Under, FailedReqs
  <2>2. \A k : Cardinality(Marked(Under(k))) # 0 <=> Marked(Under(k)) # {}
    BY MarkedIsFinite, FS_EmptySet
  <2>3. DOMAIN paths = {KeyOf(done[i]) : i \in DOMAIN done}
    <3>1. \A k : k \in DOMAIN paths <=> \E i \in DOMAIN done : KeyOf(done[i]) = k
      BY <2>1, <2>2 DEF Rows
    <3> QED
      BY <3>1
  <2> QED
    BY <2>1, <2>3 DEF Rows, RowsCount
<1> QED
  BY <1>5, <1>6 DEF CountersAgree

-----------------------------------------------------------------------------
(* The latency ring holds the last durations.                              *)

\* The modulo of a number that is past the end at most once.
LEMMA WrapsOnce ==
    ASSUME NEW N \in Nat \ {0}, NEW a \in 0 .. 2 * N - 1
    PROVE  a % N = IF a < N THEN a ELSE a - N
  OBVIOUS

\* The requests whose durations are latencies, and how many came after i.
Took        == {i \in DOMAIN done : done[i].kind # "watch"}
Later(i)    == {j \in Took : j > i}
LatencyInv  ==
    /\ IF latFull THEN Cardinality(Took) >= LatencySamples ELSE Cardinality(Took) = latNext
    /\ \A i \in Took :
        Cardinality(Later(i)) < LatencySamples => LatencyAt(Cardinality(Later(i))) = done[i].took

\* The slot of the a-th last sample of a ring whose next slot is n.
Slot(n, a, N) == IF a < n THEN n - 1 - a ELSE n - 1 - a + N

\* That slot is where LatencyAt looks.
LEMMA SlotIsModulo ==
    ASSUME NEW N \in Nat \ {0}, NEW n \in 0 .. N - 1, NEW a \in 0 .. N - 1
    PROVE  (n - 1 - a + N) % N = Slot(n, a, N) /\ Slot(n, a, N) \in 0 .. N - 1
<1>1. PICK k \in 0 .. 2 * N - 1 : k = n - 1 - a + N
  OBVIOUS
<1>2. k % N = IF k < N THEN k ELSE k - N
  BY WrapsOnce
<1>3. (n - 1 - a + N) % N = k % N
  BY <1>1
<1>4. (IF k < N THEN k ELSE k - N) = Slot(n, a, N)
  BY <1>1 DEF Slot
<1>5. Slot(n, a, N) \in 0 .. N - 1
  BY DEF Slot
<1> QED
  BY <1>2, <1>3, <1>4, <1>5

\* Moving on by a slot moves every sample one back.
LEMMA SlotMoves ==
    ASSUME NEW N \in Nat \ {0}, NEW n \in 0 .. N - 1
    PROVE  /\ Wrap(n, N) \in 0 .. N - 1
           /\ Slot(Wrap(n, N), 0, N) = n
           /\ \A a \in 0 .. N - 2 : /\ Slot(Wrap(n, N), a + 1, N) = Slot(n, a, N)
                                   /\ Slot(n, a, N) # n
  BY DEF Wrap, Slot

\* The samples and those after one are finitely many.
LEMMA TookIsFinite ==
    ASSUME Types
    PROVE  /\ IsFiniteSet(Took) /\ Cardinality(Took) \in Nat
           /\ \A i : IsFiniteSet(Later(i)) /\ Cardinality(Later(i)) \in Nat
<1>1. done \in Seq(Req) /\ Len(done) \in Nat /\ DOMAIN done = 1 .. Len(done)
  BY DEF Types
<1>2. IsFiniteSet(1 .. Len(done)) /\ Took \in SUBSET (1 .. Len(done))
  BY <1>1, FS_Interval DEF Took
<1>3. IsFiniteSet(Took) /\ Cardinality(Took) \in Nat
  BY <1>2, FS_Subset, FS_CardinalityType
<1>4. \A i : Later(i) \in SUBSET Took
  BY DEF Later
<1>5. \A i : IsFiniteSet(Later(i)) /\ Cardinality(Later(i)) \in Nat
  BY <1>3, <1>4, FS_Subset, FS_CardinalityType
<1> QED
  BY <1>3, <1>5

\* LatencyInv says what LatencyIsRecent says.
LEMMA LatencySuffices ==
    ASSUME Types, LatencyInv
    PROVE  LatencyIsRecent
<1>1. Filled = IF Cardinality(Took) < LatencySamples THEN Cardinality(Took) ELSE LatencySamples
  <2>1. LatencySamples \in Nat \ {0} /\ latNext \in 0 .. LatencySamples - 1
    BY TelemetryAssumption DEF Types
  <2>2. Cardinality(Took) \in Nat
    BY TookIsFinite
  <2> QED
    BY <2>1, <2>2 DEF Filled, LatencyInv
<1> QED
  BY <1>1 DEF LatencyIsRecent, LatencyInv, Took, Later

\* The ring is empty at first.
LEMMA InitLatency == Init => LatencyInv
<1> SUFFICES ASSUME Init PROVE LatencyInv
  OBVIOUS
<1>1. Took = {}
  BY DEF Init, Took
<1>2. Cardinality({}) = 0
  BY FS_EmptySet
<1>3. latFull = FALSE /\ latNext = 0
  BY DEF Init
<1> QED
  BY <1>1, <1>2, <1>3 DEF LatencyInv

\* The record of a request becomes the last one.
LEMMA IngestAppends ==
    ASSUME Types, NEW g \in Gs, Ingest(g)
    PROVE  /\ Len(done) \in Nat /\ Len(done') = Len(done) + 1
           /\ DOMAIN done = 1 .. Len(done) /\ DOMAIN done' = 1 .. Len(done) + 1
           /\ \A i \in 1 .. Len(done) : done'[i] = done[i]
           /\ done'[Len(done) + 1] = rec[g]
           /\ rec[g] \in Req
           /\ done' \in Seq(Req)
<1>1. done' = Append(done, rec[g]) /\ done \in Seq(Req) /\ rec[g] \in Req
  BY DEF Types, Ingest
<1> QED
  BY <1>1

\* A duration goes into the next slot, over the oldest one when the ring is full.
LEMMA IngestLatency ==
    ASSUME Types, LatencyInv, NEW g \in Gs, Ingest(g)
    PROVE  LatencyInv'
<1> DEFINE N == LatencySamples
<1>1. N \in Nat \ {0} /\ latNext \in 0 .. N - 1 /\ latFull \in BOOLEAN
      /\ latency \in [0 .. N - 1 -> Int]
  BY TelemetryAssumption DEF Types
<1>2. PICK n \in Nat \ {0} : /\ DOMAIN done = 1 .. n - 1 /\ DOMAIN done' = 1 .. n
                             /\ \A i \in 1 .. n - 1 : done'[i] = done[i]
                             /\ done'[n] = rec[g]
  BY IngestAppends
<1>3. Took \subseteq 1 .. n - 1 /\ n \notin Took
  BY <1>2 DEF Took
<1>4. CASE ~Sampled(rec[g])
  <2>1. Took' = Took
    BY <1>2, <1>4 DEF Took, Sampled
  <2>2. \A i : Later(i)' = Later(i)
    BY <2>1 DEF Later
  <2>3. UNCHANGED <<latency, latNext, latFull>>
    BY <1>4 DEF Ingest
  <2>4. \A a : LatencyAt(a)' = LatencyAt(a)
    BY <2>3 DEF LatencyAt
  <2> QED
    BY <1>2, <1>3, <2>1, <2>2, <2>3, <2>4 DEF LatencyInv
<1>5. CASE Sampled(rec[g])
  <2>1. Took' = Took \cup {n}
    <3>1. 1 .. n = (1 .. n - 1) \cup {n} /\ n \in 1 .. n
      BY <1>2
    <3>2. rec[g].kind # "watch"
      BY <1>5 DEF Sampled
    <3>3. Took' = {i \in 1 .. n : done'[i].kind # "watch"}
      BY <1>2 DEF Took
    <3>4. Took = {i \in 1 .. n - 1 : done[i].kind # "watch"}
      BY <1>2 DEF Took
    <3> QED
      BY <1>2, <3>1, <3>2, <3>3, <3>4
  <2>2. /\ latency' = [latency EXCEPT ![latNext] = rec[g].took]
        /\ latNext' = Wrap(latNext, N)
        /\ latFull' = Wrapped(latNext, N, latFull)
    BY <1>5 DEF Ingest
  <2>3. Cardinality(Took)' = Cardinality(Took) + 1 /\ Cardinality(Took) \in Nat
    BY <1>3, <2>1, TookIsFinite, FS_AddElement
  <2>4. IF latFull' THEN Cardinality(Took)' >= N ELSE Cardinality(Took)' = latNext'
    <3>1. CASE latFull
      <4>1. latFull' /\ Cardinality(Took) >= N
        BY <2>2, <3>1 DEF Wrapped, LatencyInv
      <4> QED
        BY <1>1, <2>3, <4>1
    <3>2. CASE ~latFull /\ latNext + 1 = N
      <4>1. latFull' /\ Cardinality(Took) = latNext
        BY <2>2, <3>2 DEF Wrapped, LatencyInv
      <4> QED
        BY <1>1, <2>3, <3>2, <4>1
    <3>3. CASE ~latFull /\ latNext + 1 # N
      <4>1. ~latFull' /\ Cardinality(Took) = latNext /\ latNext' = latNext + 1
        BY <2>2, <3>3 DEF Wrap, Wrapped, LatencyInv
      <4> QED
        BY <1>1, <2>3, <4>1
    <3> QED
      BY <3>1, <3>2, <3>3
  <2>5. \A i \in Took : Cardinality(Later(i))' = Cardinality(Later(i)) + 1
    <3> SUFFICES ASSUME NEW i \in Took
                 PROVE  Cardinality(Later(i))' = Cardinality(Later(i)) + 1
      OBVIOUS
    <3>1. Later(i)' = Later(i) \cup {n} /\ n \notin Later(i)
      BY <1>2, <1>3, <2>1 DEF Later
    <3> QED
      BY <3>1, TookIsFinite, FS_AddElement
  <2>6. Cardinality(Later(n))' = 0
    <3>1. Later(n)' = {}
      <4>1. \A j \in Took' : ~(j > n)
        BY <1>2, <1>3, <2>1
      <4>2. Later(n)' = {j \in Took' : j > n}
        BY DEF Later
      <4> QED
        BY <4>1, <4>2
    <3> QED
      BY <3>1, FS_EmptySet
  <2>7. latNext' \in 0 .. N - 1
    BY <1>1, <2>2, SlotMoves
  <2>8. \A a \in 0 .. N - 1 : /\ LatencyAt(a) = latency[Slot(latNext, a, N)]
                             /\ LatencyAt(a)' = latency'[Slot(latNext', a, N)]
                             /\ Slot(latNext, a, N) \in 0 .. N - 1
    <3> SUFFICES ASSUME NEW a \in 0 .. N - 1
                 PROVE  /\ LatencyAt(a) = latency[Slot(latNext, a, N)]
                        /\ LatencyAt(a)' = latency'[Slot(latNext', a, N)]
                        /\ Slot(latNext, a, N) \in 0 .. N - 1
      OBVIOUS
    <3>1. (latNext - 1 - a + N) % N = Slot(latNext, a, N) /\ Slot(latNext, a, N) \in 0 .. N - 1
      BY <1>1, SlotIsModulo
    <3>2. (latNext' - 1 - a + N) % N = Slot(latNext', a, N)
      BY <1>1, <2>7, SlotIsModulo
    <3> QED
      BY <3>1, <3>2 DEF LatencyAt
  <2>9. LatencyAt(0)' = rec[g].took
    <3>1. Slot(latNext', 0, N) = latNext /\ 0 \in 0 .. N - 1
      BY <1>1, <2>2, SlotMoves
    <3> QED
      BY <1>1, <2>2, <2>8, <3>1
  <2>10. \A a \in 0 .. N - 2 : LatencyAt(a + 1)' = LatencyAt(a)
    <3> SUFFICES ASSUME NEW a \in 0 .. N - 2
                 PROVE  LatencyAt(a + 1)' = LatencyAt(a)
      OBVIOUS
    <3>1. a \in 0 .. N - 1 /\ a + 1 \in 0 .. N - 1
      BY <1>1
    <3>2. Slot(latNext', a + 1, N) = Slot(latNext, a, N) /\ Slot(latNext, a, N) # latNext
      BY <1>1, <2>2, SlotMoves
    <3>3. LatencyAt(a + 1)' = latency'[Slot(latNext, a, N)] /\ LatencyAt(a) = latency[Slot(latNext, a, N)]
      BY <2>8, <3>1, <3>2
    <3> QED
      BY <1>1, <2>2, <2>8, <3>1, <3>2, <3>3
  <2>11. ASSUME NEW i \in Took', Cardinality(Later(i))' < N
         PROVE  LatencyAt(Cardinality(Later(i)))' = done'[i].took
    <3>1. CASE i = n
      <4>1. Cardinality(Later(i))' = 0
        BY <2>6, <3>1
      <4>2. LatencyAt(Cardinality(Later(i)))' = LatencyAt(0)'
        BY <4>1
      <4> QED
        BY <1>2, <2>9, <3>1, <4>2
    <3>2. CASE i # n
      <4>1. i \in Took /\ done'[i] = done[i]
        BY <1>2, <1>3, <2>1, <3>2
      <4>2. PICK a \in Nat : a = Cardinality(Later(i))
        BY TookIsFinite
      <4>3. Cardinality(Later(i))' = a + 1
        BY <2>5, <4>1, <4>2
      <4>4. a \in 0 .. N - 2 /\ a < N
        BY <1>1, <2>11, <4>2, <4>3
      <4>5. LatencyAt(a) = done[i].took
        BY <4>1, <4>2, <4>4 DEF LatencyInv
      <4>6. LatencyAt(Cardinality(Later(i)))' = LatencyAt(a + 1)'
        BY <4>3
      <4> QED
        BY <2>10, <4>1, <4>4, <4>5, <4>6
    <3> QED
      BY <3>1, <3>2
  <2> QED
    BY <2>4, <2>11 DEF LatencyInv
<1> QED
  BY <1>4, <1>5

-----------------------------------------------------------------------------
(* The steps keep the types, the counts and the latencies.                 *)

\* A step that serves a request keeps the types.
LEMMA ServeTypes ==
    ASSUME Types, NEW g \in Gs, Serve(g)
    PROVE  Types'
<1>1. pc' \in [Gs -> Pcs] /\ rec' \in [Gs -> Req] /\ rec[g] \in Req
  BY Moves DEF Types
<1>2. CASE Accept(g) \/ Chaos(g) \/ Handle(g) \/ WatchRefused(g) \/ Open(g) \/ Close(g)
  <2>1. UNCHANGED <<now, atomVars, lockVars, during>>
    BY <1>2 DEF Accept, Chaos, Handle, WatchRefused, Open, Close
  <2>2. activeWA \in Int
    BY DEF Types
  <2>3. activeWA' \in {activeWA, activeWA + 1, activeWA - 1}
    BY <1>2 DEF Accept, Chaos, Handle, WatchRefused, Open, Close, liveVars
  <2>4. activeWA' \in Int
    BY <2>2, <2>3
  <2> QED
    BY <1>1, <2>1, <2>4 DEF Types, atomVars, lockVars
<1>3. CASE CountTotal(g)
  <2>1. UNCHANGED <<now, errors, byKind, liveVars, lockVars>> /\ total' \in Nat /\ during' \in Nat
    BY <1>3 DEF CountTotal, Types
  <2> QED
    BY <1>1, <2>1 DEF Types, liveVars, lockVars
<1>4. CASE CountKind(g)
  <2>1. UNCHANGED <<now, total, liveVars, lockVars, during>>
    BY <1>4 DEF CountKind
  <2>2. errors' \in Nat /\ byKind' \in [Kinds -> Nat]
    BY <1>1, <1>4 DEF CountKind, Types, Req
  <2> QED
    BY <1>1, <2>1, <2>2 DEF Types, liveVars, lockVars
<1>5. CASE Ingest(g)
  <2>1. UNCHANGED <<now, atomVars, liveVars, during>> /\ done' \in Seq(Req)
    BY <1>5, IngestAppends DEF Ingest
  <2>2. /\ latency' \in [0 .. LatencySamples - 1 -> Int]
        /\ latNext' \in 0 .. LatencySamples - 1 /\ latFull' \in BOOLEAN
    <3>1. CASE Sampled(rec[g])
      <4>1. /\ latency' = [latency EXCEPT ![latNext] = rec[g].took]
            /\ latNext' = Wrap(latNext, LatencySamples)
            /\ latFull' = Wrapped(latNext, LatencySamples, latFull)
        BY <1>5, <3>1 DEF Ingest
      <4>2. latNext' \in 0 .. LatencySamples - 1
        BY <4>1, TelemetryAssumption, SlotMoves DEF Types
      <4>3. latency' \in [0 .. LatencySamples - 1 -> Int]
        BY <1>1, <4>1 DEF Types, Req
      <4>4. latFull' \in BOOLEAN
        BY <4>1 DEF Wrapped, Types
      <4> QED
        BY <4>2, <4>3, <4>4
    <3>2. CASE ~Sampled(rec[g])
      BY <1>5, <3>2 DEF Ingest, Types
    <3> QED
      BY <3>1, <3>2
  <2>3. /\ recent' \in [0 .. RecentRequests - 1 -> Req]
        /\ recNext' \in 0 .. RecentRequests - 1 /\ recFull' \in BOOLEAN
    <3>1. /\ recent' = [recent EXCEPT ![recNext] = rec[g]]
          /\ recNext' = Wrap(recNext, RecentRequests)
          /\ recFull' = Wrapped(recNext, RecentRequests, recFull)
      BY <1>5 DEF Ingest
    <3>2. recNext' \in 0 .. RecentRequests - 1
      BY <3>1, TelemetryAssumption, SlotMoves DEF Types
    <3>3. recent' \in [0 .. RecentRequests - 1 -> Req]
      BY <1>1, <3>1 DEF Types
    <3>4. recFull' \in BOOLEAN
      BY <3>1 DEF Wrapped, Types
    <3> QED
      BY <3>2, <3>3, <3>4
  <2> QED
    BY <1>1, <2>1, <2>2, <2>3 DEF Types, atomVars, liveVars
<1> QED
  BY <1>2, <1>3, <1>4, <1>5 DEF Serve

\* What the clock and a snapshot leave alone.
LEMMA OthersQuiet ==
    ASSUME Tick \/ Snapshot \/ UNCHANGED vars
    PROVE  /\ UNCHANGED <<flowVars, atomVars, liveVars, done, paths>>
           /\ UNCHANGED <<latency, latNext, latFull, recent, recNext, recFull>>
           /\ during' \in {during, 0}
  BY DEF Tick, Snapshot, SnapTotal, SnapErrors, SnapLocked, vars, lockVars

\* The clock and a snapshot keep the types.
LEMMA OthersTypes ==
    ASSUME Types, Tick \/ Snapshot \/ UNCHANGED vars
    PROVE  Types'
<1>1. now' \in Nat
  BY DEF Types, Tick, Snapshot, SnapTotal, SnapErrors, SnapLocked, vars
<1> QED
  BY <1>1, OthersQuiet DEF Types, flowVars, atomVars, liveVars

\* They keep the counts, the rows and the latencies.
LEMMA OthersCounted ==
    ASSUME Types, Tick \/ Snapshot \/ UNCHANGED vars
    PROVE  /\ Counted => Counted'
           /\ Rows => Rows'
           /\ LatencyInv => LatencyInv'
<1>1. /\ UNCHANGED flowVars /\ UNCHANGED <<total, errors, byKind, activeWA>>
      /\ UNCHANGED <<done, paths>> /\ UNCHANGED <<latency, latNext, latFull>>
  BY OthersQuiet DEF atomVars, liveVars
<1>2. Counted => Counted'
  BY <1>1, InStays, MarkedStays DEF Counted, FailedReqs
<1>3. Rows => Rows'
  BY <1>1, RowsStay
<1>4. LatencyInv => LatencyInv'
  BY <1>1 DEF LatencyInv, Took, Later, LatencyAt
<1> QED
  BY <1>2, <1>3, <1>4

\* So do the steps of a request that record nothing.
LEMMA ServeStays ==
    ASSUME NEW g \in Gs, Serve(g), ~Ingest(g)
    PROVE  UNCHANGED <<done, paths, window, latency, latNext, latFull, recent, recNext, recFull>>
  BY DEF Serve, Accept, Chaos, Handle, WatchRefused, Open, Close, CountTotal, CountKind, lockVars

\* What is kept of the counters and the latency ring.
RecordInv == Types /\ Counted /\ Rows /\ LatencyInv

\* Every step keeps it.
LEMMA NextRecord ==
    ASSUME RecordInv, [Next]_vars
    PROVE  RecordInv'
<1>1. Types /\ Counted /\ Rows /\ LatencyInv
  BY DEF RecordInv
<1>2. CASE Tick \/ Snapshot \/ UNCHANGED vars
  BY <1>1, <1>2, OthersTypes, OthersCounted DEF RecordInv
<1>3. ASSUME NEW g \in Gs, Serve(g)
      PROVE  RecordInv'
  <2>1. Types' /\ Counted'
    BY <1>1, <1>3, ServeTypes, ServeCounted
  <2>2. Rows' /\ LatencyInv'
    <3>1. CASE Ingest(g)
      BY <1>1, <3>1, IngestRows, IngestLatency
    <3>2. CASE ~Ingest(g)
      <4>1. UNCHANGED <<done, paths, latency, latNext, latFull>>
        BY <1>3, <3>2, ServeStays
      <4>2. Rows'
        BY <1>1, <4>1, RowsStay
      <4>3. LatencyInv'
        BY <1>1, <4>1 DEF LatencyInv, Took, Later, LatencyAt
      <4> QED
        BY <4>2, <4>3
    <3> QED
      BY <3>1, <3>2
  <2> QED
    BY <2>1, <2>2 DEF RecordInv
<1> QED
  BY <1>2, <1>3 DEF Next

\* The inductive invariant of the record.
LEMMA RecordStays == Spec => []RecordInv
<1>1. Init => RecordInv
  BY InitTypes, InitCounted, InitLatency DEF RecordInv
<1>2. RecordInv /\ [Next]_vars => RecordInv'
  BY NextRecord
<1> QED
  BY <1>1, <1>2, PTL DEF Spec

\* Any number of requests may be inside Record at once, each at a point of its
\* own, and the atomics, the open watches and the rows still account for each
\* request exactly once (metrics.go:113-176).
THEOREM CountersAreExact == Spec => []CountersAgree
<1>1. RecordInv => CountersAgree
  BY CountedSuffices DEF RecordInv
<1> QED
  BY <1>1, RecordStays, PTL

\* Whatever its size, and however often it wrapped, the latency ring holds the
\* durations of the last requests that were no watch (metrics.go:133-147).
THEOREM LatenciesAreRecent == Spec => []LatencyIsRecent
<1>1. RecordInv => LatencyIsRecent
  BY LatencySuffices DEF RecordInv
<1> QED
  BY <1>1, RecordStays, PTL

-----------------------------------------------------------------------------
(* A frame is nearly consistent.                                           *)

\* The ring of recent requests is the end of done.
RecentInv ==
    /\ IF recFull THEN Len(done) >= RecentRequests ELSE Len(done) = recNext
    /\ \A k \in 0 .. RecentRequests - 1 :
        k < Len(done) => recent[Slot(recNext, k, RecentRequests)] = done[Len(done) - k]

\* The window is the end of done, and what was cut is older than the last frame.
WindowInv ==
    /\ window \in Seq(Nat) /\ Len(window) <= Len(done)
    /\ \A i \in 1 .. Len(window) : window[i] = done[Len(done) - Len(window) + i].start
    /\ \A i \in 1 .. Len(done) - Len(window) :
        frames > 0 /\ done[i].start < frame.at - RateWindow

\* What the snapshot in progress has loaded.
SnapInv ==
    /\ snap \in [pc : {"idle", "errors", "lock"}, at : Nat, total : Nat, errors : Nat]
    /\ snap.pc # "idle" =>
        /\ snap.at <= now
        /\ frames > 0 => frame.at <= snap.at
        /\ total = snap.total + during
        /\ snap.total <= Len(done) + Cardinality(Gs)
    /\ snap.pc = "lock" => snap.errors <= snap.total + during

\* What a frame holds.
FrameInv ==
    /\ frames \in Nat
    /\ frames > 0 =>
        /\ frame.n \in 0 .. Len(done) /\ frame.at \in 0 .. now
        /\ DOMAIN frame.recent = 1 .. Len(frame.recent) /\ Len(frame.recent) \in Nat
        /\ RecentNewestFirst
        /\ RateCoversWindow
        /\ CountersNearRings

ViewInv == RecentInv /\ WindowInv /\ SnapInv /\ FrameInv

\* A set of naturals that is not empty has a least element.
LEMMA LeastElement ==
    ASSUME NEW T \in SUBSET Nat, T # {}
    PROVE  \E m \in T : \A k \in T : m <= k
<1>1. \E m \in T : \A k \in T : ~ (<<k, m>> \in OpToRel(<, Nat))
  BY NatLessThanWellFounded, WFMin, Zenon
<1>2. PICK m \in T : \A k \in T : ~ (<<k, m>> \in OpToRel(<, Nat))
  BY <1>1
<1>3. ASSUME NEW k \in T
      PROVE  m <= k
  <2>1. ~ (k < m)
    BY <1>2, k \in Nat, m \in Nat DEF OpToRel
  <2> QED
    BY <2>1
<1> QED
  BY <1>3

\* Trimmed cuts the entries before the first that is no older than the cutoff.
LEMMA TrimmedIsSuffix ==
    ASSUME NEW w \in Seq(Nat), NEW cutoff \in Int
    PROVE  \E f \in 1 .. Len(w) + 1 :
              /\ \A i \in 1 .. f - 1 : w[i] < cutoff
              /\ f <= Len(w) => w[f] >= cutoff
              /\ Trimmed(w, cutoff) \in Seq(Nat)
              /\ Len(Trimmed(w, cutoff)) = Len(w) + 1 - f
              /\ \A i \in 1 .. Len(w) + 1 - f : Trimmed(w, cutoff)[i] = w[f - 1 + i]
<1> DEFINE T    == {i \in 1 .. Len(w) : w[i] >= cutoff} \cup {Len(w) + 1}
           kept == {i \in DOMAIN w : \E j \in 1 .. i : w[j] >= cutoff}
<1>1. Len(w) \in Nat /\ DOMAIN w = 1 .. Len(w) /\ \A i \in 1 .. Len(w) : w[i] \in Nat
  OBVIOUS
<1>2. PICK f \in T : \A k \in T : f <= k
  <2>1. T \in SUBSET Nat /\ T # {}
    BY <1>1
  <2> HIDE DEF T
  <2> QED
    BY <2>1, LeastElement
<1>3. f \in 1 .. Len(w) + 1
  BY <1>1
<1>4. \A i \in 1 .. f - 1 : w[i] < cutoff
  <2> SUFFICES ASSUME NEW i \in 1 .. f - 1, w[i] >= cutoff PROVE FALSE
    BY <1>1, <1>3
  <2>1. i \in T
    BY <1>1, <1>3
  <2> HIDE DEF T
  <2> QED
    BY <1>2, <1>3, <2>1
<1>5. f <= Len(w) => w[f] >= cutoff
  BY <1>1, <1>2
<1> HIDE DEF T
<1>6. kept = f .. Len(w)
  <2>1. ASSUME NEW i \in f .. Len(w)
        PROVE  i \in kept
    BY <1>1, <1>3, <1>5, <2>1
  <2>2. ASSUME NEW i \in kept
        PROVE  i \in f .. Len(w)
    <3>1. i \in 1 .. Len(w)
      BY <1>1
    <3>2. PICK j \in 1 .. i : w[j] >= cutoff
      OBVIOUS
    <3>3. ~(j \in 1 .. f - 1)
      BY <1>1, <1>4, <3>1, <3>2
    <3> QED
      BY <1>1, <1>3, <3>1, <3>2, <3>3
  <2> QED
    BY <2>1, <2>2
<1>7. Cardinality(kept) = Len(w) + 1 - f
  <2> HIDE DEF kept
  <2>1. \A m, n \in Int : Cardinality(m .. n) = IF m > n THEN 0 ELSE n - m + 1
    BY FS_Interval
  <2>2. f \in Int /\ Len(w) \in Int
    BY <1>1, <1>3
  <2>3. Cardinality(f .. Len(w)) = IF f > Len(w) THEN 0 ELSE Len(w) - f + 1
    BY <2>1, <2>2
  <2> QED
    BY <1>1, <1>3, <1>6, <2>3
<1>8. Trimmed(w, cutoff) = SubSeq(w, f, Len(w))
  <2>1. Len(w) - Cardinality(kept) + 1 = f
    <3> HIDE DEF kept
    <3> QED
      BY <1>1, <1>3, <1>7
  <2>2. Trimmed(w, cutoff) = SubSeq(w, Len(w) - Cardinality(kept) + 1, Len(w))
    BY DEF Trimmed
  <2> HIDE DEF kept
  <2> QED
    BY <2>1, <2>2
<1>9. /\ SubSeq(w, f, Len(w)) \in Seq(Nat)
      /\ Len(SubSeq(w, f, Len(w))) = Len(w) + 1 - f
      /\ \A i \in 1 .. Len(w) + 1 - f : SubSeq(w, f, Len(w))[i] = w[f - 1 + i]
  <2>1. f \in Int /\ Len(w) \in Int /\ \A i \in f .. Len(w) : w[i] \in Nat
    BY <1>1, <1>3
  <2>2. /\ SubSeq(w, f, Len(w)) \in Seq(Nat)
        /\ Len(SubSeq(w, f, Len(w))) = IF f <= Len(w) THEN Len(w) - f + 1 ELSE 0
        /\ \A i \in 1 .. Len(w) - f + 1 : SubSeq(w, f, Len(w))[i] = w[f + i - 1]
    BY <2>1, SubSeqProperties
  <2> QED
    BY <1>1, <1>3, <2>2
<1> QED
  BY <1>3, <1>4, <1>5, <1>8, <1>9

\* At the start there is neither a frame nor a request.
LEMMA InitView == Init => ViewInv
<1> SUFFICES ASSUME Init PROVE ViewInv
  OBVIOUS
<1>1. done = <<>> /\ window = <<>> /\ frames = 0 /\ recFull = FALSE /\ recNext = 0
  BY DEF Init
<1>2. Len(done) = 0 /\ Len(window) = 0 /\ window \in Seq(Nat)
  BY <1>1
<1>3. RecentInv
  BY <1>1, <1>2 DEF RecentInv
<1>4. WindowInv
  BY <1>2 DEF WindowInv
<1>5. SnapInv
  BY DEF Init, NoSnap, SnapInv
<1>6. FrameInv
  BY <1>1 DEF FrameInv
<1> QED
  BY <1>3, <1>4, <1>5, <1>6 DEF ViewInv

\* The record of a request goes over the oldest one of a full ring.
LEMMA IngestRecent ==
    ASSUME Types, RecentInv, NEW g \in Gs, Ingest(g)
    PROVE  RecentInv'
<1> DEFINE R == RecentRequests
<1>1. R \in Nat \ {0} /\ recNext \in 0 .. R - 1 /\ recFull \in BOOLEAN
      /\ recent \in [0 .. R - 1 -> Req]
  BY TelemetryAssumption DEF Types
<1>2. PICK n \in Nat : /\ n = Len(done) /\ Len(done') = n + 1
                       /\ \A i \in 1 .. n : done'[i] = done[i]
                       /\ done'[n + 1] = rec[g]
  BY IngestAppends
<1>3. /\ recent' = [recent EXCEPT ![recNext] = rec[g]]
      /\ recNext' = Wrap(recNext, R)
      /\ recFull' = Wrapped(recNext, R, recFull)
  BY DEF Ingest
<1>4. IF recFull' THEN Len(done') >= R ELSE Len(done') = recNext'
  <2>1. CASE recFull
    <3>1. recFull' /\ n >= R
      BY <1>2, <1>3, <2>1 DEF RecentInv, Wrapped
    <3> QED
      BY <1>1, <1>2, <3>1
  <2>2. CASE ~recFull /\ recNext + 1 = R
    <3>1. recFull' /\ n = recNext
      BY <1>2, <1>3, <2>2 DEF RecentInv, Wrapped
    <3> QED
      BY <1>1, <1>2, <2>2, <3>1
  <2>3. CASE ~recFull /\ recNext + 1 # R
    <3>1. ~recFull' /\ n = recNext /\ recNext' = recNext + 1
      BY <1>2, <1>3, <2>3 DEF RecentInv, Wrap, Wrapped
    <3> QED
      BY <1>1, <1>2, <3>1
  <2> QED
    BY <2>1, <2>2, <2>3
<1>5. ASSUME NEW k \in 0 .. R - 1, k < n + 1
      PROVE  recent'[Slot(recNext', k, R)] = done'[n + 1 - k]
  <2>1. CASE k = 0
    <3>1. Slot(recNext', 0, R) = recNext
      BY <1>1, <1>3, SlotMoves
    <3>2. recent'[recNext] = rec[g]
      BY <1>1, <1>3
    <3>3. n + 1 - k = n + 1
      BY <1>2, <2>1
    <3> QED
      BY <1>2, <2>1, <3>1, <3>2, <3>3
  <2>2. CASE k # 0
    <3>1. PICK a \in 0 .. R - 2 : k = a + 1
      BY <1>1, <2>2
    <3>2. Slot(recNext', a + 1, R) = Slot(recNext, a, R) /\ Slot(recNext, a, R) # recNext
      BY <1>1, <1>3, SlotMoves
    <3>3. Slot(recNext, a, R) \in 0 .. R - 1
      BY <1>1, <3>1 DEF Slot
    <3>4. a \in 0 .. R - 1 /\ a < n
      BY <1>1, <1>2, <1>5, <3>1
    <3>5. recent[Slot(recNext, a, R)] = done[n - a]
      BY <1>2, <3>4 DEF RecentInv
    <3>6. recent'[Slot(recNext', k, R)] = done[n - a]
      BY <1>1, <1>3, <3>1, <3>2, <3>3, <3>5
    <3>7. n + 1 - k = n - a /\ n - a \in 1 .. n
      BY <1>2, <3>1, <3>4
    <3> QED
      BY <1>2, <3>6, <3>7
  <2> QED
    BY <2>1, <2>2
<1> QED
  BY <1>2, <1>4, <1>5 DEF RecentInv

\* Its start goes to the end of the window.
LEMMA IngestWindow ==
    ASSUME Types, WindowInv, NEW g \in Gs, Ingest(g)
    PROVE  WindowInv'
<1>1. PICK n \in Nat : /\ n = Len(done) /\ Len(done') = n + 1
                       /\ \A i \in 1 .. n : done'[i] = done[i]
                       /\ done'[n + 1] = rec[g]
  BY IngestAppends
<1>2. rec[g] \in Req /\ rec[g].start \in Nat
  BY DEF Types, Req
<1>3. window' = Append(window, rec[g].start) /\ UNCHANGED <<frames, frame>>
  BY DEF Ingest, snapVars
<1>4. window \in Seq(Nat) /\ Len(window) <= n
  BY <1>1 DEF WindowInv
<1>5. PICK w \in Nat : /\ w = Len(window) /\ Len(window') = w + 1 /\ window' \in Seq(Nat)
                       /\ \A i \in 1 .. w : window'[i] = window[i]
                       /\ window'[w + 1] = rec[g].start
  BY <1>2, <1>3, <1>4
<1>6. w <= n
  BY <1>4, <1>5
<1>7. /\ \A i \in 1 .. w : window[i] = done[n - w + i].start
      /\ \A i \in 1 .. n - w : frames > 0 /\ done[i].start < frame.at - RateWindow
  BY <1>1, <1>5 DEF WindowInv
<1>8. ASSUME NEW i \in 1 .. w + 1
      PROVE  window'[i] = done'[(n + 1) - (w + 1) + i].start
  <2>1. CASE i = w + 1
    <3>1. (n + 1) - (w + 1) + i = n + 1
      BY <1>1, <1>5, <2>1
    <3> QED
      BY <1>1, <1>5, <2>1, <3>1
  <2>2. CASE i \in 1 .. w
    <3>1. (n + 1) - (w + 1) + i = n - w + i /\ n - w + i \in 1 .. n
      BY <1>1, <1>5, <1>6, <2>2
    <3>2. window'[i] = done[n - w + i].start
      BY <1>5, <1>7, <2>2
    <3>3. done'[n - w + i] = done[n - w + i]
      BY <1>1, <3>1
    <3> QED
      BY <3>1, <3>2, <3>3, Zenon
  <2> QED
    BY <2>1, <2>2
<1>9. ASSUME NEW i \in 1 .. (n + 1) - (w + 1)
      PROVE  frames' > 0 /\ done'[i].start < frame'.at - RateWindow
  <2>1. i \in 1 .. n - w /\ i \in 1 .. n
    BY <1>1, <1>5, <1>6
  <2> QED
    BY <1>1, <1>3, <1>7, <2>1
<1>10. window' \in Seq(Nat) /\ Len(window') <= Len(done')
  BY <1>1, <1>5, <1>6
<1>11. \A i \in 1 .. Len(window') : window'[i] = done'[Len(done') - Len(window') + i].start
  <2>1. \A i \in 1 .. w + 1 : window'[i] = done'[(n + 1) - (w + 1) + i].start
    BY <1>8
  <2>2. Len(done') = n + 1 /\ Len(window') = w + 1
    BY <1>1, <1>5
  <2> QED
    BY <2>1, <2>2, Zenon
<1>12. \A i \in 1 .. Len(done') - Len(window') :
          frames' > 0 /\ done'[i].start < frame'.at - RateWindow
  <2>1. Len(done') = n + 1 /\ Len(window') = w + 1
    BY <1>1, <1>5
  <2> QED
    BY <1>9, <2>1, Zenon
<1> QED
  BY <1>10, <1>11, <1>12, Zenon DEF WindowInv

\* What a frame shows is not disturbed by what is recorded later.
LEMMA FrameStays ==
    ASSUME Types, FrameInv, UNCHANGED <<frame, frames>>, now <= now', now' \in Nat,
           Len(done) <= Len(done'), Len(done') \in Nat,
           \A i \in 1 .. Len(done) : done'[i] = done[i]
    PROVE  FrameInv'
<1>1. CASE frames = 0
  BY <1>1 DEF FrameInv
<1>2. CASE frames > 0
  <2>1. /\ frame.n \in 0 .. Len(done) /\ frame.at \in 0 .. now
        /\ DOMAIN frame.recent = 1 .. Len(frame.recent) /\ Len(frame.recent) \in Nat
        /\ RecentNewestFirst /\ RateCoversWindow /\ CountersNearRings
    BY <1>2 DEF FrameInv
  <2>2. Len(done) \in Nat
    BY DEF Types
  <2>3. frame'.n \in 0 .. Len(done') /\ frame'.at \in 0 .. now'
    BY <2>1, <2>2 DEF Types
  <2>4. RecentNewestFirst'
    <3>1. RecentRequests \in Nat \ {0}
      BY TelemetryAssumption
    <3>2. frame.n \in Nat /\ Len(frame.recent) <= frame.n
      BY <2>1, <2>2, <3>1 DEF RecentNewestFirst
    <3>3. \A k \in DOMAIN frame.recent : frame.recent[k] = done[frame.n + 1 - k]
      BY <2>1 DEF RecentNewestFirst
    <3>4. \A k \in DOMAIN frame.recent : frame.n + 1 - k \in 1 .. Len(done)
      BY <2>1, <2>2, <3>2
    <3>5. \A k \in DOMAIN frame.recent : frame.recent[k] = done'[frame.n + 1 - k]
      BY <3>3, <3>4
    <3> QED
      BY <2>1, <3>5 DEF RecentNewestFirst
  <2>5. RateCoversWindow'
    <3>1. {i \in 1 .. frame'.n : done'[i].start >= frame'.at - RateWindow}
            = {i \in 1 .. frame.n : done[i].start >= frame.at - RateWindow}
      BY <2>1, <2>2
    <3> QED
      BY <2>1, <3>1 DEF RateCoversWindow
  <2>6. CountersNearRings'
    BY <2>1 DEF CountersNearRings
  <2> QED
    BY <1>2, <2>3, <2>4, <2>5, <2>6 DEF FrameInv
<1> QED
  BY <1>1, <1>2 DEF FrameInv

\* RecentAt looks where the ring has the k-th last request.
LEMMA RecentAtIsSlot ==
    ASSUME Types, NEW k \in 0 .. RecentRequests - 1
    PROVE  RecentAt(k) = recent[Slot(recNext, k, RecentRequests)]
<1>1. RecentRequests \in Nat \ {0} /\ recNext \in 0 .. RecentRequests - 1
  BY TelemetryAssumption DEF Types
<1>2. ASSUME NEW R \in Nat \ {0}, NEW n \in 0 .. R - 1, NEW a \in 0 .. R - 1
      PROVE  (n - 1 - a + 2 * R) % R = Slot(n, a, R)
  <2>1. PICK b \in Nat : b = n - 1 - a + 2 * R /\ b >= R /\ b < 3 * R
    BY <1>2
  <2>2. b % R = IF b < 2 * R THEN b - R ELSE b - 2 * R
    BY <1>2, <2>1
  <2> QED
    BY <1>2, <2>1, <2>2 DEF Slot
<1> QED
  BY <1>1, <1>2 DEF RecentAt

\* The frame that is taken shows the end of done at this moment.
LEMMA LockedView ==
    ASSUME Types, Counted, ViewInv, SnapLocked
    PROVE  ViewInv'
<1> DEFINE R == RecentRequests
           c == snap.at - RateWindow
<1>1. /\ RecentInv /\ WindowInv /\ SnapInv /\ FrameInv
  BY DEF ViewInv
<1>2. /\ snap.pc = "lock"
      /\ window' = Trimmed(window, c)
      /\ frame' = [total |-> snap.total, errors |-> snap.errors, at |-> snap.at,
                   late |-> during, rps |-> Len(window'),
                   n |-> Len(done),
                   recent |-> [k \in 1 .. RecentShown |-> RecentAt(k - 1)]]
      /\ frames' = frames + 1
      /\ snap' = NoSnap
      /\ UNCHANGED <<now, done, recent, recNext, recFull>>
  BY DEF SnapLocked
<1>3. /\ snap.at \in Nat /\ snap.at <= now /\ (frames > 0 => frame.at <= snap.at)
      /\ snap.total \in Nat /\ snap.errors \in Nat
      /\ snap.total <= Len(done) + Cardinality(Gs)
      /\ snap.errors <= snap.total + during
  BY <1>1, <1>2 DEF SnapInv
<1>4. frames \in Nat /\ now \in Nat /\ RateWindow \in Nat /\ c \in Int
  BY <1>1, <1>3, TelemetryAssumption DEF FrameInv, Types
<1>5. R \in Nat \ {0} /\ recNext \in 0 .. R - 1 /\ recFull \in BOOLEAN
  BY TelemetryAssumption DEF Types
<1>6. PICK n \in Nat : n = Len(done)
  BY DEF Types
<1>7. PICK w \in 0 .. n : w = Len(window)
  BY <1>1, <1>6 DEF WindowInv
<1>8. /\ window \in Seq(Nat)
      /\ \A i \in 1 .. w : window[i] = done[n - w + i].start
      /\ \A i \in 1 .. n - w : frames > 0 /\ done[i].start < frame.at - RateWindow
  BY <1>1, <1>6, <1>7 DEF WindowInv
<1>9. \A i \in 1 .. n : done[i].start \in Nat
  <2>1. \A i \in 1 .. n : done[i] \in Req
    BY <1>6 DEF Types
  <2> QED
    BY <2>1 DEF Req
<1>10. PICK f \in 1 .. w + 1 :
         /\ \A i \in 1 .. f - 1 : window[i] < c
         /\ f <= w => window[f] >= c
         /\ window' \in Seq(Nat)
         /\ Len(window') = w + 1 - f
         /\ \A i \in 1 .. w + 1 - f : window'[i] = window[f - 1 + i]
  BY <1>2, <1>4, <1>7, <1>8, TrimmedIsSuffix
<1>11. frame'.at = snap.at /\ frame'.n = n /\ frame'.rps = w + 1 - f
       /\ frame'.total = snap.total /\ frame'.errors = snap.errors /\ frame'.late = during
       /\ frame'.recent = [k \in 1 .. RecentShown |-> RecentAt(k - 1)]
  BY <1>2, <1>6, <1>10
<1>12. frame.at \in Nat \/ frames = 0
  BY <1>1, <1>4 DEF FrameInv, Types
<1>13. \A i \in 1 .. n - w + f - 1 : done[i].start < c
  <2> SUFFICES ASSUME NEW i \in 1 .. n - w + f - 1
               PROVE  done[i].start < c
    OBVIOUS
  <2>1. CASE i \in 1 .. n - w
    <3>1. frames > 0 /\ done[i].start < frame.at - RateWindow /\ frame.at <= snap.at
      BY <1>3, <1>8, <2>1
    <3>2. done[i].start \in Nat /\ frame.at \in Nat
      BY <1>4, <1>7, <1>9, <1>12, <2>1, <3>1
    <3> QED
      BY <1>3, <1>4, <3>1, <3>2
  <2>2. CASE i \notin 1 .. n - w
    <3>1. PICK j \in 1 .. f - 1 : i = n - w + j
      <4>1. PICK j \in Int : j = i - (n - w)
        BY <1>7
      <4>2. j \in 1 .. f - 1 /\ i = n - w + j
        BY <1>7, <2>2, <4>1
      <4> QED
        BY <4>2
    <3>2. j \in 1 .. w /\ window[j] < c
      BY <1>7, <1>10, <3>1
    <3> QED
      BY <1>8, <3>1, <3>2
  <2> QED
    BY <2>1, <2>2
<1>14. f <= w => done[n - w + f].start >= c /\ n - w + f \in 1 .. n
  BY <1>7, <1>8, <1>10
<1> HIDE DEF c
<1>15. WindowInv'
  <2>1. \A i \in 1 .. w + 1 - f : window'[i] = done[n - (w + 1 - f) + i].start
    <3> SUFFICES ASSUME NEW i \in 1 .. w + 1 - f
                 PROVE  window'[i] = done[n - (w + 1 - f) + i].start
      OBVIOUS
    <3>1. f - 1 + i \in 1 .. w /\ window'[i] = window[f - 1 + i]
      BY <1>7, <1>10
    <3>2. n - w + (f - 1 + i) = n - (w + 1 - f) + i
      BY <1>6, <1>7, <1>10
    <3>3. window[f - 1 + i] = done[n - w + (f - 1 + i)].start
      BY <1>8, <3>1
    <3> QED
      BY <3>1, <3>2, <3>3
  <2>2. \A i \in 1 .. n - (w + 1 - f) : done[i].start < c
    BY <1>7, <1>10, <1>13
  <2>3. frames' > 0 /\ c = frame'.at - RateWindow
    BY <1>2, <1>4, <1>11 DEF c
  <2>4. Len(done') = n /\ done' = done /\ w + 1 - f <= n
    BY <1>2, <1>6, <1>7, <1>10
  <2> QED
    BY <1>10, <2>1, <2>2, <2>3, <2>4 DEF WindowInv
<1>16. RateCoversWindow'
  <2> DEFINE fresh == {i \in 1 .. n : done[i].start >= c}
  <2>1. frame'.n = n /\ frame'.at - RateWindow = c /\ frame'.rps = w + 1 - f /\ done' = done
    BY <1>2, <1>11 DEF c
  <2>2. frame'.rps = IF fresh = {} THEN 0
                     ELSE n + 1 - (CHOOSE i \in fresh : \A j \in fresh : i <= j)
    <3>1. CASE f <= w
      <4>1. n - w + f \in fresh
        BY <1>14, <3>1
      <4>2. \A j \in fresh : n - w + f <= j
        <5> SUFFICES ASSUME NEW j \in 1 .. n, done[j].start >= c, ~(n - w + f <= j)
                     PROVE  FALSE
          OBVIOUS
        <5>1. j \in 1 .. n - w + f - 1
          BY <1>7, <1>10
        <5>2. done[j].start < c /\ done[j].start \in Nat
          BY <1>9, <1>13, <5>1
        <5> QED
          BY <1>4, <5>2
      <4> HIDE DEF fresh
      <4>3. fresh \subseteq Int
        BY DEF fresh
      <4>4. PICK m \in fresh : m = (CHOOSE i \in fresh : \A j \in fresh : i <= j)
                              /\ \A j \in fresh : m <= j
        BY <4>1, <4>2
      <4>5. m <= n - w + f /\ n - w + f <= m /\ m \in Int
        <5>1. m <= n - w + f
          BY <4>1, <4>4
        <5>2. n - w + f <= m
          BY <4>2, <4>4
        <5> QED
          BY <4>3, <4>4, <5>1, <5>2
      <4>6. m = n - w + f
        BY <4>5
      <4>7. n + 1 - m = w + 1 - f
        BY <4>6
      <4>8. fresh # {}
        BY <4>1
      <4> QED
        BY <2>1, <4>4, <4>7, <4>8
    <3>2. CASE ~(f <= w)
      <4>1. w + 1 - f = 0 /\ n - w + f - 1 = n
        BY <3>2
      <4>2. fresh = {}
        <5> SUFFICES ASSUME NEW j \in 1 .. n, done[j].start >= c
                     PROVE  FALSE
          OBVIOUS
        <5>1. done[j].start < c /\ done[j].start \in Nat
          BY <1>9, <1>13, <4>1
        <5> QED
          BY <1>4, <5>1
      <4> QED
        BY <2>1, <4>1, <4>2
    <3> QED
      BY <3>1, <3>2
  <2> QED
    BY <2>1, <2>2 DEF RateCoversWindow
<1>17. RecentNewestFirst' /\ DOMAIN frame'.recent = 1 .. Len(frame'.recent)
       /\ Len(frame'.recent) \in Nat
  <2>1. RecentShown = (IF n < R THEN n ELSE R) /\ RecentShown \in 0 .. R /\ RecentShown <= n
    <3>1. CASE recFull
      BY <1>1, <1>5, <1>6, <3>1 DEF RecentShown, RecentInv
    <3>2. CASE ~recFull
      BY <1>1, <1>5, <1>6, <3>2 DEF RecentShown, RecentInv
    <3> QED
      BY <3>1, <3>2
  <2> HIDE DEF R
  <2>2. \A k \in 1 .. RecentShown : RecentAt(k - 1) = done[n + 1 - k]
    <3> SUFFICES ASSUME NEW k \in 1 .. RecentShown
                 PROVE  RecentAt(k - 1) = done[n + 1 - k]
      OBVIOUS
    <3>1. PICK a \in 0 .. R - 1 : a = k - 1 /\ a < n
      BY <1>5, <2>1
    <3>2. RecentAt(a) = recent[Slot(recNext, a, R)]
      BY RecentAtIsSlot DEF R
    <3>3. recent[Slot(recNext, a, R)] = done[n - a]
      BY <1>1, <1>6, <3>1 DEF RecentInv, R
    <3>4. n - a = n + 1 - k
      BY <2>1, <3>1
    <3> QED
      BY <3>1, <3>2, <3>3, <3>4
  <2>3. frame'.recent = [k \in 1 .. RecentShown |-> done[n + 1 - k]]
    BY <1>11, <2>2
  <2>4. Len(frame'.recent) = RecentShown /\ DOMAIN frame'.recent = 1 .. RecentShown
        /\ \A k \in 1 .. RecentShown : frame'.recent[k] = done[n + 1 - k]
    <3>1. RecentShown \in Nat
      BY <1>5, <2>1
    <3> QED
      BY <2>3, <3>1
  <2>5. RecentShown \in Nat
    BY <1>5, <2>1
  <2> QED
    BY <1>2, <1>11, <2>1, <2>4, <2>5 DEF RecentNewestFirst, R
<1>18. CountersNearRings'
  BY <1>3, <1>6, <1>11 DEF CountersNearRings
<1>19. FrameInv'
  <2>1. frame'.n \in 0 .. Len(done') /\ frame'.at \in 0 .. now' /\ frames' \in Nat
    BY <1>2, <1>3, <1>4, <1>6, <1>11
  <2> QED
    BY <1>16, <1>17, <1>18, <2>1 DEF FrameInv
<1>20. SnapInv'
  BY <1>2 DEF SnapInv, NoSnap
<1>21. RecentInv'
  BY <1>1, <1>2 DEF RecentInv
<1> QED
  BY <1>15, <1>19, <1>20, <1>21 DEF ViewInv

\* No counter is ahead of done by more than the goroutines, nor Errors of Total.
LEMMA CountsAreNear ==
    ASSUME Types, Counted
    PROVE  total <= Len(done) + Cardinality(Gs) /\ errors <= total
<1>1. done \in Seq(Req) /\ Len(done) \in Nat /\ DOMAIN done = 1 .. Len(done)
  BY DEF Types
<1>2. Marked(Req) = 1 .. Len(done)
  BY <1>1 DEF Marked, Hits
<1>3. Cardinality(Marked(Req)) = Len(done)
  <2>1. \A n \in Nat : Cardinality(1 .. n) = n
    BY FS_Interval
  <2> QED
    BY <1>1, <1>2, <2>1
<1>4. In({"counted", "ingest"}, Req) \in SUBSET Gs
  BY DEF In
<1>5. IsFiniteSet(In({"counted", "ingest"}, Req))
      /\ Cardinality(In({"counted", "ingest"}, Req)) <= Cardinality(Gs)
  BY <1>4, TelemetryAssumption, FS_Subset
<1>6. Cardinality(In({"counted", "ingest"}, Req)) \in Nat /\ Cardinality(Gs) \in Nat
  BY <1>5, TelemetryAssumption, FS_CardinalityType
<1>7. In({"ingest"}, FailedReqs) \in SUBSET In({"counted", "ingest"}, Req)
  BY DEF In, FailedReqs
<1>8. Cardinality(In({"ingest"}, FailedReqs)) <= Cardinality(In({"counted", "ingest"}, Req))
      /\ Cardinality(In({"ingest"}, FailedReqs)) \in Nat
  BY <1>5, <1>7, FS_Subset, FS_CardinalityType
<1>9. Marked(FailedReqs) \in SUBSET Marked(Req)
  BY DEF Marked, Hits, FailedReqs
<1>10. Cardinality(Marked(FailedReqs)) <= Cardinality(Marked(Req))
       /\ Cardinality(Marked(FailedReqs)) \in Nat
  BY <1>9, MarkedIsFinite, FS_Subset
<1>11. /\ total = Len(done) + Cardinality(In({"counted", "ingest"}, Req))
       /\ errors = Cardinality(Marked(FailedReqs)) + Cardinality(In({"ingest"}, FailedReqs))
  BY <1>3 DEF Counted
<1> QED
  BY <1>1, <1>3, <1>5, <1>6, <1>8, <1>10, <1>11

\* A step that serves a request keeps the view.
LEMMA ServeView ==
    ASSUME Types, ViewInv, NEW g \in Gs, Serve(g)
    PROVE  ViewInv'
<1>1. RecentInv /\ WindowInv /\ SnapInv /\ FrameInv
  BY DEF ViewInv
<1>2. UNCHANGED <<now, snap, frame, frames>>
  BY DEF Serve, Accept, Chaos, Handle, WatchRefused, Open, Close, CountTotal, CountKind,
         Ingest, snapVars
<1>3. /\ Len(done) \in Nat /\ Len(done') \in Nat /\ Len(done) <= Len(done')
      /\ \A i \in 1 .. Len(done) : done'[i] = done[i]
  <2>1. Len(done) \in Nat
    BY DEF Types
  <2>2. CASE Ingest(g)
    BY <2>1, <2>2, IngestAppends
  <2>3. CASE ~Ingest(g)
    BY <2>1, <2>3, ServeStays
  <2> QED
    BY <2>2, <2>3
<1>4. RecentInv' /\ WindowInv'
  <2>1. CASE Ingest(g)
    BY <1>1, <2>1, IngestRecent, IngestWindow
  <2>2. CASE ~Ingest(g)
    <3>1. UNCHANGED <<done, window, recent, recNext, recFull>>
      BY <2>2, ServeStays
    <3>2. RecentInv'
      BY <1>1, <3>1 DEF RecentInv
    <3>3. WindowInv'
      BY <1>1, <1>2, <3>1 DEF WindowInv
    <3> QED
      BY <3>2, <3>3
  <2> QED
    BY <2>1, <2>2
<1>5. FrameInv'
  BY <1>1, <1>2, <1>3, FrameStays DEF Types
<1>6. PICK d \in {0, 1} : total' = total + d /\ during' = during + d
  <2>1. total \in Nat /\ during \in Nat
    BY DEF Types
  <2>2. CASE CountTotal(g)
    BY <2>2 DEF CountTotal
  <2>3. CASE ~CountTotal(g)
    <3>1. total' = total /\ during' = during
      BY <2>3 DEF Serve, Accept, Chaos, Handle, WatchRefused, Open, Close, CountKind, Ingest,
                  atomVars
    <3> QED
      BY <2>1, <3>1
  <2> QED
    BY <2>2, <2>3
<1>7. SnapInv'
  <2>1. snap \in [pc : {"idle", "errors", "lock"}, at : Nat, total : Nat, errors : Nat]
    BY <1>1 DEF SnapInv
  <2>2. total \in Nat /\ during \in Nat /\ Cardinality(Gs) \in Nat
    BY TelemetryAssumption, FS_CardinalityType DEF Types
  <2>3. ASSUME snap.pc # "idle"
        PROVE  total' = snap.total + during' /\ snap.total <= Len(done') + Cardinality(Gs)
               /\ snap.at <= now /\ (frames > 0 => frame.at <= snap.at)
    <3>1. /\ snap.at <= now /\ (frames > 0 => frame.at <= snap.at)
          /\ total = snap.total + during /\ snap.total <= Len(done) + Cardinality(Gs)
      BY <1>1, <2>3 DEF SnapInv
    <3>2. snap.total \in Nat
      BY <2>1
    <3>3. total' = snap.total + during'
      BY <1>6, <2>2, <3>1, <3>2
    <3>4. snap.total <= Len(done') + Cardinality(Gs)
      BY <1>3, <2>2, <3>1, <3>2
    <3> QED
      BY <3>1, <3>3, <3>4
  <2>4. ASSUME snap.pc = "lock"
        PROVE  snap.errors <= snap.total + during'
    BY <1>1, <1>6, <2>1, <2>2, <2>4 DEF SnapInv
  <2> QED
    BY <1>2, <2>1, <2>3, <2>4 DEF SnapInv
<1> QED
  BY <1>4, <1>5, <1>7 DEF ViewInv

\* The clock moves on and a frame stays what it is.
LEMMA TickView ==
    ASSUME Types, ViewInv, Tick \/ UNCHANGED vars
    PROVE  ViewInv'
<1>1. RecentInv /\ WindowInv /\ SnapInv /\ FrameInv
  BY DEF ViewInv
<1>2. UNCHANGED <<total, done, window, recent, recNext, recFull, snap, frame, frames, during>>
  BY DEF Tick, vars, atomVars, lockVars, snapVars
<1>3. now \in Nat /\ now' \in Nat /\ now <= now'
  BY DEF Tick, vars, Types
<1>4. Len(done) \in Nat
  BY DEF Types
<1>5. FrameInv'
  BY <1>1, <1>2, <1>3, <1>4, FrameStays
<1>6. SnapInv'
  BY <1>1, <1>2, <1>3 DEF SnapInv
<1>7. RecentInv' /\ WindowInv'
  BY <1>1, <1>2 DEF RecentInv, WindowInv
<1> QED
  BY <1>5, <1>6, <1>7 DEF ViewInv

\* The counters are loaded one after the other.
LEMMA LoadView ==
    ASSUME Types, Counted, ViewInv, SnapTotal \/ SnapErrors
    PROVE  ViewInv'
<1>1. RecentInv /\ WindowInv /\ SnapInv /\ FrameInv
  BY DEF ViewInv
<1>2. UNCHANGED <<now, total, done, window, recent, recNext, recFull, frame, frames>>
  BY DEF SnapTotal, SnapErrors, atomVars, lockVars
<1>3. FrameInv' /\ RecentInv' /\ WindowInv'
  BY <1>1, <1>2, FrameStays DEF Types, RecentInv, WindowInv
<1>4. now \in Nat /\ total \in Nat /\ errors \in Nat /\ during \in Nat
  BY DEF Types
<1>5. SnapInv'
  <2>1. CASE SnapTotal
    <3>1. snap' = [pc |-> "errors", at |-> now, total |-> total, errors |-> 0] /\ during' = 0
      BY <2>1 DEF SnapTotal, NoSnap
    <3>2. frames > 0 => frame.at <= now
      BY <1>1 DEF FrameInv
    <3>3. total <= Len(done) + Cardinality(Gs)
      BY CountsAreNear
    <3> QED
      BY <1>2, <1>4, <3>1, <3>2, <3>3 DEF SnapInv
  <2>2. CASE SnapErrors
    <3>1. snap' = [snap EXCEPT !.pc = "lock", !.errors = errors] /\ during' = during
          /\ snap.pc = "errors"
      BY <2>2 DEF SnapErrors
    <3>2. /\ snap \in [pc : {"idle", "errors", "lock"}, at : Nat, total : Nat, errors : Nat]
          /\ snap.at <= now /\ (frames > 0 => frame.at <= snap.at)
          /\ total = snap.total + during /\ snap.total <= Len(done) + Cardinality(Gs)
      BY <1>1, <3>1 DEF SnapInv
    <3>3. errors <= total
      BY CountsAreNear
    <3>4. /\ snap' \in [pc : {"idle", "errors", "lock"}, at : Nat, total : Nat, errors : Nat]
          /\ snap'.pc = "lock" /\ snap'.errors = errors
          /\ snap'.at = snap.at /\ snap'.total = snap.total
      BY <1>4, <3>1, <3>2
    <3> QED
      BY <1>2, <1>4, <3>1, <3>2, <3>3, <3>4 DEF SnapInv
  <2> QED
    BY <2>1, <2>2
<1> QED
  BY <1>3, <1>5 DEF ViewInv

\* The inductive invariant of the frames.
LEMMA ViewStays == Spec => []ViewInv
<1>1. Init => ViewInv
  BY InitView
<1>2. RecordInv /\ ViewInv /\ [Next]_vars => ViewInv'
  BY ServeView, TickView, LoadView, LockedView DEF RecordInv, Next, Snapshot
<1> QED
  BY <1>1, <1>2, RecordStays, PTL DEF Spec

\* However many requests are served while a frame is taken, its recent requests
\* are the last ones, its rate misses no fresh one, and its counters are off by
\* no more than what was counted meanwhile (metrics.go:202-300).
THEOREM FramesAreNearlyConsistent == Spec => []FrameIsNearlyConsistent
<1>1. ViewInv => FrameIsNearlyConsistent
  BY DEF ViewInv, FrameInv, FrameIsNearlyConsistent
<1> QED
  BY <1>1, ViewStays, PTL

-----------------------------------------------------------------------------
(* The paths of kinds.                                                     *)

\* A part of a path that is left out.
Blank(x) == x = ""

\* b is a, of n segments, and x behind it.
Longer(a, n, x, b) ==
    Len(b) = n + 1 /\ b[n + 1] = x /\ \A i \in 1 .. n : b[i] = a[i]

\* A path with one more segment.
LEMMA OneSegment ==
    ASSUME NEW S, NEW a \in Seq(S), NEW n \in Nat, Len(a) = n, NEW x \in S
    PROVE  a \o <<x>> \in Seq(S) /\ Longer(a, n, x, a \o <<x>>)
<1> PICK t : t = <<x>>
  OBVIOUS
<1>1. t \in Seq(S) /\ Len(t) = 1 /\ t[1] = x
  OBVIOUS
<1>2. a \o t \in Seq(S) /\ Len(a \o t) = n + 1 /\ \A i \in 1 .. n : (a \o t)[i] = a[i]
  BY <1>1
<1>3. (a \o t)[n + 1] = x
  BY <1>1
<1>4. Longer(a, n, x, a \o t)
  BY <1>2, <1>3 DEF Longer
<1> QED
  BY <1>2, <1>4

\* One more, or none.
Maybe(a, n, x, b) == IF Blank(x) THEN b = a ELSE Longer(a, n, x, b)

\* A segment, or none, keeps a path a path.
LEMMA SegmentOrNot ==
    ASSUME NEW S, NEW a \in Seq(S), NEW n \in Nat, Len(a) = n, NEW x \in S,
           NEW b, Blank(x) => b = a, ~ Blank(x) => b = a \o <<x>>
    PROVE  b \in Seq(S) /\ Maybe(a, n, x, b)
<1>1. CASE Blank(x)
  BY <1>1 DEF Maybe
<1>2. CASE ~ Blank(x)
  <2>1. b = a \o <<x>>
    BY <1>2
  <2> QED
    BY <1>2, <2>1, OneSegment DEF Maybe
<1> QED
  BY <1>1, <1>2

\* Two segments more.
LEMMA TwoSegments ==
    ASSUME NEW S, NEW a \in Seq(S), NEW n \in Nat, Len(a) = n, NEW x \in S, NEW y \in S
    PROVE  /\ a \o <<x, y>> \in Seq(S) /\ Len(a \o <<x, y>>) = n + 2
           /\ \A i \in 1 .. n : (a \o <<x, y>>)[i] = a[i]
           /\ (a \o <<x, y>>)[n + 1] = x /\ (a \o <<x, y>>)[n + 2] = y
<1> PICK t : t = <<x, y>>
  OBVIOUS
<1>1. t \in Seq(S) /\ Len(t) = 2 /\ t[1] = x /\ t[2] = y
  OBVIOUS
<1>2. a \o t \in Seq(S) /\ Len(a \o t) = n + 2 /\ \A i \in 1 .. n : (a \o t)[i] = a[i]
  BY <1>1
<1>3. (a \o t)[n + 1] = x /\ (a \o t)[n + 2] = y
  BY <1>1
<1> QED
  BY <1>2, <1>3

\* Where a path's group ends, its scope, and the path.
Start(k) == IF Blank(k.group) THEN 2 ELSE 3
Scope(k, ns) == IF Blank(ns) THEN Start(k) ELSE Start(k) + 2
Length(k, ns, name, sub) ==
    IF Blank(name) THEN Scope(k, ns) + 1
    ELSE IF Blank(sub) THEN Scope(k, ns) + 2 ELSE Scope(k, ns) + 3

\* The scope is behind the group, by two segments if there is a namespace.
LEMMA ScopeIsNat ==
    ASSUME NEW k, NEW ns
    PROVE  /\ Start(k) \in {2, 3} /\ Scope(k, ns) \in Nat
           /\ IF Blank(ns) THEN Scope(k, ns) = Start(k) ELSE Scope(k, ns) = Start(k) + 2
<1>1. Start(k) \in {2, 3}
  BY DEF Start
<1>2. IF Blank(ns) THEN Scope(k, ns) = Start(k) ELSE Scope(k, ns) = Start(k) + 2
  BY Zenon DEF Scope
<1> QED
  BY <1>1, <1>2

Begins(p, k) ==
    IF Blank(k.group) THEN p[1] = "api" /\ p[2] = k.version
    ELSE p[1] = "apis" /\ p[2] = k.group /\ p[3] = k.version

\* p is the path of an object, or of a collection, of kind k.
IsPath(p, k, ns, name, sub) ==
    /\ DOMAIN p = 1 .. Length(k, ns, name, sub) /\ Len(p) = Length(k, ns, name, sub)
    /\ Begins(p, k)
    /\ ~ Blank(ns) => p[Start(k) + 1] = "namespaces" /\ p[Start(k) + 2] = ns
    /\ p[Scope(k, ns) + 1] = k.resource
    /\ ~ Blank(name) => p[Scope(k, ns) + 2] = name
    /\ ~ Blank(name) /\ ~ Blank(sub) => p[Scope(k, ns) + 3] = sub

\* Tuples of segments.
LEMMA Tuples ==
    ASSUME NEW S, NEW x \in S, NEW y \in S, NEW z \in S
    PROVE  /\ <<x, y>> \in Seq(S) /\ Len(<<x, y>>) = 2 /\ <<x, y>>[1] = x /\ <<x, y>>[2] = y
           /\ <<x, y, z>> \in Seq(S) /\ Len(<<x, y, z>>) = 3
           /\ <<x, y, z>>[1] = x /\ <<x, y, z>>[2] = y /\ <<x, y, z>>[3] = z
  OBVIOUS

\* How it begins.
LEMMA HeadIs ==
    ASSUME NEW S, "api" \in S, "apis" \in S, NEW k, k.group \in S, k.version \in S,
           NEW a,
           Blank(k.group) => a = <<"api", k.version>>,
           ~ Blank(k.group) => a = <<"apis", k.group, k.version>>
    PROVE  a \in Seq(S) /\ Len(a) = Start(k) /\ Begins(a, k)
<1> PICK g \in S : g = k.group
  OBVIOUS
<1> PICK v \in S : v = k.version
  OBVIOUS
<1>1. CASE Blank(g)
  <2> PICK t : t = <<"api", v>>
    OBVIOUS
  <2>1. t \in Seq(S) /\ Len(t) = 2 /\ t[1] = "api" /\ t[2] = v
    BY Tuples, Zenon
  <2>2. a = t
    BY <1>1
  <2> QED
    BY <1>1, <2>1, <2>2 DEF Start, Begins
<1>2. CASE ~ Blank(g)
  <2> PICK t : t = <<"apis", g, v>>
    OBVIOUS
  <2>1. t \in Seq(S) /\ Len(t) = 3 /\ t[1] = "apis" /\ t[2] = g /\ t[3] = v
    BY Tuples, Zenon
  <2>2. a = t
    BY <1>2
  <2> QED
    BY <1>2, <2>1, <2>2 DEF Start, Begins
<1> QED
  BY <1>1, <1>2

\* The name and the subresource end it.
EndsIn(b, m, r, c, x, d, y, p) ==
    /\ Longer(b, m, r, c) /\ Maybe(c, m + 1, x, d)
    /\ IF Blank(x) THEN p = d ELSE Maybe(d, m + 2, y, p)

\* Where the segments of such an end are.
LEMMA EndsWith ==
    ASSUME NEW m \in Nat, NEW b, NEW r, NEW c, NEW x, NEW d, NEW y, NEW p,
           EndsIn(b, m, r, c, x, d, y, p)
    PROVE  /\ \A i \in 1 .. m : p[i] = b[i]
           /\ p[m + 1] = r /\ (~ Blank(x) => p[m + 2] = x) /\ (~ Blank(x) /\ ~ Blank(y) => p[m + 3] = y)
           /\ Len(p) = IF Blank(x) THEN m + 1 ELSE IF Blank(y) THEN m + 2 ELSE m + 3
<1>0. /\ Longer(b, m, r, c) /\ Maybe(c, m + 1, x, d)
      /\ IF Blank(x) THEN p = d ELSE Maybe(d, m + 2, y, p)
  BY DEF EndsIn
<1>1. Len(c) = m + 1 /\ c[m + 1] = r /\ \A i \in 1 .. m : c[i] = b[i]
  BY <1>0 DEF Longer
<1>2. CASE Blank(x)
  BY <1>0, <1>1, <1>2 DEF Maybe
<1>3. CASE ~ Blank(x)
  <2>1. /\ Len(d) = m + 2 /\ d[m + 2] = x /\ d[m + 1] = r
        /\ \A i \in 1 .. m : d[i] = b[i]
    BY <1>0, <1>1, <1>3 DEF Longer, Maybe
  <2>2. CASE Blank(y)
    BY <1>0, <1>3, <2>1, <2>2 DEF Maybe
  <2>3. CASE ~ Blank(y)
    <3>1. Len(p) = m + 3 /\ p[m + 3] = y /\ \A i \in 1 .. m + 2 : p[i] = d[i]
      BY <1>0, <1>3, <2>3 DEF Longer, Maybe
    <3>2. p[m + 2] = x /\ p[m + 1] = r /\ \A i \in 1 .. m : p[i] = b[i]
      BY <2>1, <3>1
    <3> QED
      BY <1>3, <2>3, <3>1, <3>2
  <2> QED
    BY <2>2, <2>3
<1> QED
  BY <1>2, <1>3

\* What is between.
Scoped(b, k, ns) ==
    /\ Len(b) = Scope(k, ns) /\ Begins(b, k)
    /\ ~ Blank(ns) => b[Start(k) + 1] = "namespaces" /\ b[Start(k) + 2] = ns

\* A client's scope is a scope.
LEMMA ScopeIs ==
    ASSUME NEW S, "namespaces" \in S, NEW k, NEW a \in Seq(S), Len(a) = Start(k), Begins(a, k),
           NEW ns \in S, NEW b, Blank(ns) => b = a, ~ Blank(ns) => b = a \o <<"namespaces", ns>>
    PROVE  b \in Seq(S) /\ Scoped(b, k, ns)
<1> PICK h \in {2, 3} : h = Start(k)
  BY DEF Start
<1>1. CASE Blank(ns)
  <2>1. Scope(k, ns) = Start(k)
    BY <1>1, ScopeIsNat
  <2> QED
    BY <1>1, <2>1 DEF Scoped
<1>2. CASE ~ Blank(ns)
  <2>1. Scope(k, ns) = h + 2
    BY <1>2, ScopeIsNat
  <2>2. b = a \o <<"namespaces", ns>>
    BY <1>2
  <2>3. /\ b \in Seq(S) /\ Len(b) = h + 2 /\ \A i \in 1 .. h : b[i] = a[i]
        /\ b[h + 1] = "namespaces" /\ b[h + 2] = ns
    <3>1. Len(a) = h /\ h \in Nat
      OBVIOUS
    <3> QED
      BY <2>2, <3>1, TwoSegments
  <2>4. Begins(b, k)
    BY <2>3 DEF Begins, Start
  <2> QED
    BY <2>1, <2>3, <2>4 DEF Scoped
<1> QED
  BY <1>1, <1>2

\* All of it.
LEMMA WholeIs ==
    ASSUME NEW k, NEW ns, NEW name, NEW sub, NEW b, Scoped(b, k, ns),
           NEW c, NEW d, NEW S, NEW p \in Seq(S),
           EndsIn(b, Scope(k, ns), k.resource, c, name, d, sub, p)
    PROVE  IsPath(p, k, ns, name, sub)
<1> PICK h \in {2, 3} : h = Start(k)
  BY DEF Start
<1> PICK m \in Nat : m = Scope(k, ns)
  BY ScopeIsNat
<1> PICK r : r = k.resource
  OBVIOUS
<1>5. /\ \A i \in 1 .. m : p[i] = b[i]
      /\ p[m + 1] = r /\ (~ Blank(name) => p[m + 2] = name)
      /\ ~ Blank(name) /\ ~ Blank(sub) => p[m + 3] = sub
      /\ Len(p) = IF Blank(name) THEN m + 1 ELSE IF Blank(sub) THEN m + 2 ELSE m + 3
  <2>1. EndsIn(b, m, r, c, name, d, sub, p)
    OBVIOUS
  <2> QED
    BY <2>1, EndsWith
<1>6. h <= m /\ (~ Blank(ns) => m = h + 2)
  BY ScopeIsNat
<1>7. Begins(p, k)
  BY <1>5, <1>6 DEF Scoped, Begins, Start
<1>8. ~ Blank(ns) => p[h + 1] = "namespaces" /\ p[h + 2] = ns
  <2> SUFFICES ASSUME ~ Blank(ns) PROVE p[h + 1] = "namespaces" /\ p[h + 2] = ns
    OBVIOUS
  <2>1. h + 1 \in 1 .. m /\ h + 2 \in 1 .. m
    BY <1>6
  <2> QED
    BY <1>5, <2>1 DEF Scoped
<1>9. Len(p) = Length(k, ns, name, sub) /\ DOMAIN p = 1 .. Length(k, ns, name, sub)
  <2>1. Len(p) = Length(k, ns, name, sub)
    BY <1>5 DEF Length
  <2> QED
    BY <2>1
<1> QED
  BY <1>5, <1>7, <1>8, <1>9 DEF IsPath

\* A client's path is a path.
LEMMA PathIs ==
    ASSUME NEW k, NEW ns, NEW name, NEW sub, NEW p, p = PathTo(k, ns, name, sub)
    PROVE  IsPath(p, k, ns, name, sub)
<1> DEFINE S == {"api", "apis", "namespaces", k.group, k.version, k.resource, ns, name, sub}
<1>s. /\ "api" \in S /\ "apis" \in S /\ "namespaces" \in S /\ k.group \in S /\ k.version \in S
      /\ k.resource \in S /\ ns \in S /\ name \in S /\ sub \in S
  OBVIOUS
<1> DEFINE a == IF Blank(k.group) THEN <<"api", k.version>> ELSE <<"apis", k.group, k.version>>
           b == a \o (IF Blank(ns) THEN <<>> ELSE <<"namespaces", ns>>)
           c == b \o <<k.resource>>
           d == c \o (IF Blank(name) THEN <<>> ELSE <<name>>)
<1>p. p = d \o (IF Blank(name) \/ Blank(sub) THEN <<>> ELSE <<sub>>)
  BY Zenon DEF PathTo, Blank, Core
<1> HIDE DEF S
<1> PICK m \in Nat : m = Scope(k, ns)
  BY ScopeIsNat
<1>1. a \in Seq(S) /\ Len(a) = Start(k) /\ Begins(a, k)
  <2>1. (Blank(k.group) => a = <<"api", k.version>>)
            /\ (~ Blank(k.group) => a = <<"apis", k.group, k.version>>)
    BY Zenon
  <2> HIDE DEF a
  <2> QED
    BY <1>s, <2>1, HeadIs
<1> HIDE DEF a
<1>a. a \o <<>> = a
  BY <1>1
<1>2. b \in Seq(S) /\ Scoped(b, k, ns)
  <2>1. (Blank(ns) => b = a) /\ (~ Blank(ns) => b = a \o <<"namespaces", ns>>)
    BY <1>a, Zenon
  <2> HIDE DEF b
  <2> QED
    BY <1>s, <1>1, <2>1, ScopeIs
<1> HIDE DEF b
<1>3. c \in Seq(S) /\ Longer(b, m, k.resource, c)
  <2>1. Len(b) = m
    BY <1>2 DEF Scoped
  <2> QED
    BY <1>s, <1>2, <2>1, OneSegment
<1>n. c \o <<>> = c
  BY <1>3
<1>d. (Blank(name) => d = c) /\ (~ Blank(name) => d = c \o <<name>>)
  <2> HIDE DEF c
  <2> QED
    BY <1>n, Zenon
<1> HIDE DEF c, d
<1>4. d \in Seq(S) /\ Maybe(c, m + 1, name, d)
  <2>1. Len(c) = m + 1
    BY <1>3 DEF Longer
  <2> QED
    BY <1>s, <1>3, <1>d, <2>1, SegmentOrNot
<1>5. d \o <<>> = d
  BY <1>4
<1>6. p \in Seq(S) /\ IF Blank(name) THEN p = d ELSE Maybe(d, m + 2, sub, p)
  <2>1. CASE Blank(name)
    <3>1. p = d
      BY <1>p, <1>5, <2>1, Zenon
    <3> QED
      BY <1>4, <2>1, <3>1
  <2>2. CASE ~ Blank(name)
    <3>1. Len(d) = m + 2
      BY <1>4, <2>2 DEF Maybe, Longer
    <3>2. (Blank(sub) => p = d) /\ (~ Blank(sub) => p = d \o <<sub>>)
      BY <1>p, <1>5, <2>2, Zenon
    <3>3. p \in Seq(S) /\ Maybe(d, m + 2, sub, p)
      BY <1>s, <1>4, <3>1, <3>2, SegmentOrNot
    <3> QED
      BY <2>2, <3>3
  <2> QED
    BY <2>1, <2>2
<1>7. EndsIn(b, Scope(k, ns), k.resource, c, name, d, sub, p)
  BY <1>3, <1>4, <1>6, Zenon DEF EndsIn
<1> QED
  BY <1>2, <1>6, <1>7, WholeIs

\* What a client's path means: what it was built from, but for the status of a
\* namespace.
Meant(k, ns, name, sub) ==
    [group |-> k.group, version |-> k.version, namespace |-> ns, resource |-> k.resource,
     name |-> name, subresource |-> sub, ok |-> TRUE]

\* The segments behind the scope.
LEMMA FromScope ==
    ASSUME NEW k, NEW ns, NEW name, NEW sub, NEW p, IsPath(p, k, ns, name, sub),
           ~ Blank(k.resource), Blank(name) => Blank(sub)
    PROVE  ParseFrom(p, Scope(k, ns) + 1, ns, k.group, k.version) = Meant(k, ns, name, sub)
<1> PICK m \in Nat : m = Scope(k, ns)
  BY ScopeIsNat
<1>1. /\ DOMAIN p = 1 .. (IF Blank(name) THEN m + 1 ELSE IF Blank(sub) THEN m + 2 ELSE m + 3)
      /\ p[m + 1] = k.resource /\ (~ Blank(name) => p[m + 2] = name)
      /\ ~ Blank(name) /\ ~ Blank(sub) => p[m + 3] = sub
  BY DEF IsPath, Length
<1>2. Segment(p, m + 1) = k.resource
  <2>1. m + 1 \in DOMAIN p
    BY <1>1
  <2> QED
    BY <1>1, <2>1, Zenon DEF Segment
<1>3. Segment(p, m + 2) = name
  <2>1. CASE Blank(name)
    <3>1. m + 2 \notin DOMAIN p
      BY <1>1, <2>1
    <3> QED
      BY <2>1, <3>1, Zenon DEF Segment, Blank
  <2>2. CASE ~ Blank(name)
    <3>1. m + 2 \in DOMAIN p
      BY <1>1, <2>2
    <3> QED
      BY <1>1, <2>2, <3>1, Zenon DEF Segment
  <2> QED
    BY <2>1, <2>2
<1>4. Segment(p, m + 3) = sub
  <2>1. CASE Blank(sub)
    <3>1. m + 3 \notin DOMAIN p
      BY <1>1, <2>1
    <3> QED
      BY <2>1, <3>1, Zenon DEF Segment, Blank
  <2>2. CASE ~ Blank(sub)
    <3>1. m + 3 \in DOMAIN p
      BY <1>1, <2>2
    <3> QED
      BY <1>1, <2>2, <3>1, Zenon DEF Segment
  <2> QED
    BY <2>1, <2>2
<1>5. (m + 1) + 1 = m + 2 /\ (m + 1) + 2 = m + 3
  OBVIOUS
<1>6. (Segment(p, m + 1) # "") = TRUE
  BY <1>2, Zenon DEF Blank
<1>7. ParseFrom(p, m + 1, ns, k.group, k.version) =
          [group |-> k.group, version |-> k.version, namespace |-> ns,
           resource |-> Segment(p, m + 1), name |-> Segment(p, m + 2),
           subresource |-> Segment(p, m + 3), ok |-> (Segment(p, m + 1) # "")]
  BY <1>5, Zenon DEF ParseFrom
<1> QED
  BY <1>2, <1>3, <1>4, <1>6, <1>7, Zenon DEF Meant

\* What ParsePath makes of its head.
LEMMA HeadParses ==
    ASSUME NEW k, NEW ns, NEW name, NEW sub, NEW p, IsPath(p, k, ns, name, sub)
    PROVE  ParsePath(p) = ParseRest(p, Start(k) + 1, k.group, k.version)
<1>1. /\ Start(k) \in {2, 3} /\ Scope(k, ns) \in Nat /\ Scope(k, ns) >= Start(k)
  BY ScopeIsNat
<1> PICK n \in Nat : n = Length(k, ns, name, sub)
  BY <1>1 DEF Length
<1>2. DOMAIN p = 1 .. n /\ Len(p) = n /\ n > Start(k) /\ Begins(p, k)
  BY <1>1 DEF IsPath, Length
<1>3. 1 \in DOMAIN p
  BY <1>1, <1>2
<1>4. CASE Blank(k.group)
  <2>1. p[1] = "api" /\ p[2] = k.version /\ Start(k) + 1 = 3
    BY <1>2, <1>4 DEF Begins, Start
  <2>2. Len(p) >= 2
    BY <1>1, <1>2
  <2>3. k.group = ""
    BY <1>4, Zenon DEF Blank
  <2>4. Segment(p, 1) = "api"
    BY <1>3, <2>1, Zenon DEF Segment
  <2>5. ParsePath(p) = ParseRest(p, 3, "", p[2])
    BY <2>2, <2>4 DEF ParsePath
  <2> QED
    BY <2>1, <2>3, <2>5, Zenon
<1>5. CASE ~ Blank(k.group)
  <2>1. p[1] = "apis" /\ p[2] = k.group /\ p[3] = k.version /\ Start(k) + 1 = 4
    BY <1>2, <1>5 DEF Begins, Start
  <2>2. Len(p) >= 3
    BY <1>1, <1>2, <1>5 DEF Start
  <2>4. Segment(p, 1) = "apis"
    BY <1>3, <2>1, Zenon DEF Segment
  <2>5. ParsePath(p) = ParseRest(p, 4, p[2], p[3])
    BY <2>2, <2>4 DEF ParsePath
  <2> QED
    BY <2>1, <2>5, Zenon
<1> QED
  BY <1>4, <1>5

\* It is understood.
LEMMA PathParses ==
    ASSUME NEW k, NEW ns, NEW name, NEW sub, NEW p, IsPath(p, k, ns, name, sub),
           ~ Blank(k.resource), Blank(name) => Blank(sub),
           ~ (k.resource = "namespaces" /\ Blank(ns) /\ ~ Blank(sub))
    PROVE  ParsePath(p) = Meant(k, ns, name, sub)
<1> PICK h \in {2, 3} : h = Start(k)
  BY ScopeIsNat
<1>1. ParsePath(p) = ParseRest(p, h + 1, k.group, k.version)
  BY HeadParses
<1>2. CASE ~ Blank(ns)
  <2>1. Scope(k, ns) = h + 2
    BY <1>2, ScopeIsNat
  <2>2. DOMAIN p = 1 .. Len(p) /\ Len(p) > (h + 1) + 1 /\ p[h + 1] = "namespaces" /\ p[(h + 1) + 1] = ns
    BY <1>2, <2>1 DEF IsPath, Length
  <2>3. h + 1 \in DOMAIN p
    BY <2>2, <2>1 DEF IsPath, Length
  <2>4. Segment(p, h + 1) = "namespaces"
    BY <2>2, <2>3, Zenon DEF Segment
  <2>5. ParseRest(p, h + 1, k.group, k.version) = ParseFrom(p, (h + 1) + 2, ns, k.group, k.version)
    BY <2>2, <2>4, Zenon DEF ParseRest
  <2>6. (h + 1) + 2 = Scope(k, ns) + 1
    BY <2>1
  <2> QED
    BY <1>1, <2>5, <2>6, FromScope, Zenon
<1>3. CASE Blank(ns)
  <2>1. Scope(k, ns) = h
    BY <1>3, ScopeIsNat
  <2>2. DOMAIN p = 1 .. Len(p) /\ p[h + 1] = k.resource /\ Len(p) \in Nat /\ Len(p) >= h + 1
    BY <2>1 DEF IsPath, Length
  <2>3. h + 1 \in DOMAIN p
    BY <2>2
  <2>4. Segment(p, h + 1) = k.resource
    BY <2>2, <2>3, Zenon DEF Segment
  <2>5. Blank(sub) => ~ (Len(p) > (h + 1) + 1)
    BY <2>1 DEF IsPath, Length
  <2>6. ~ (Segment(p, h + 1) = "namespaces" /\ Len(p) > (h + 1) + 1)
    BY <1>3, <2>4, <2>5, Zenon
  <2>7. ParseRest(p, h + 1, k.group, k.version) = ParseFrom(p, h + 1, "", k.group, k.version)
    BY <2>6, Zenon DEF ParseRest
  <2>8. ns = ""
    BY <1>3, Zenon DEF Blank
  <2> QED
    BY <1>1, <2>1, <2>7, <2>8, FromScope, Zenon
<1> QED
  BY <1>2, <1>3

\* The status of a namespace is not.
OfNamespaces(k) == k.resource = "namespaces"

\* It is taken for an object called sub.
LEMMA StatusParses ==
    ASSUME NEW k, NEW ns, NEW name, NEW sub, NEW p, IsPath(p, k, ns, name, sub),
           OfNamespaces(k), Blank(ns), ~ Blank(name), ~ Blank(sub)
    PROVE  ParsePath(p).resource = sub
<1> PICK h \in {2, 3} : h = Start(k)
  BY ScopeIsNat
<1>1. ParsePath(p) = ParseRest(p, h + 1, k.group, k.version)
  BY HeadParses
<1>2. Scope(k, ns) = h
  BY ScopeIsNat
<1>3. DOMAIN p = 1 .. h + 3 /\ Len(p) = h + 3
  BY <1>2 DEF IsPath, Length
<1>m. p[h + 1] = "namespaces" /\ p[h + 3] = sub
  BY <1>2, Zenon DEF IsPath, OfNamespaces
<1>4. Segment(p, h + 1) = "namespaces"
  <2>1. h + 1 \in DOMAIN p
    BY <1>3
  <2> QED
    BY <1>m, <2>1, Zenon DEF Segment
<1>5. Segment(p, h + 3) = sub
  <2>1. h + 3 \in DOMAIN p
    BY <1>3
  <2> QED
    BY <1>m, <2>1, Zenon DEF Segment
<1>6. Len(p) > (h + 1) + 1 /\ (h + 1) + 2 = h + 3
  BY <1>3
<1>7. ParseRest(p, h + 1, k.group, k.version) =
          ParseFrom(p, (h + 1) + 2, p[(h + 1) + 1], k.group, k.version)
  BY <1>4, <1>6, Zenon DEF ParseRest
<1>8. ParseFrom(p, h + 3, p[(h + 1) + 1], k.group, k.version).resource = Segment(p, h + 3)
  BY DEF ParseFrom
<1> QED
  BY <1>1, <1>5, <1>6, <1>7, <1>8, Zenon

-----------------------------------------------------------------------------
(* What is served.                                                         *)

\* The kinds that are served.
IsView(k) ==
    /\ k.version = "v1" /\ k.group \in {Core, "apps", "batch"}
    /\ k.resource = "namespaces" \/ k.resource \in Collapsed
    /\ IF k.resource \in {"nodes", "namespaces"} THEN k.namespaced = FALSE ELSE k.namespaced = TRUE

\* What registerViews registers is such a kind.
LEMMA ViewIs ==
    ASSUME NEW k \in Views
    PROVE  IsView(k)
<1>1. ASSUME NEW x \in Kind(Core, "v1", {"pods", "services", "configmaps", "secrets", "events"}, TRUE)
      PROVE  IsView(x)
  <2>1. /\ x.group = Core /\ x.version = "v1" /\ x.namespaced = TRUE
        /\ x.resource \in {"pods", "services", "configmaps", "secrets", "events"}
    BY DEF Kind
  <2>2. x.resource = "namespaces" \/ x.resource \in Collapsed
    BY <2>1 DEF Collapsed
  <2>3. x.resource \notin {"nodes", "namespaces"}
    BY <2>1
  <2> QED
    BY <2>1, <2>2, <2>3, Zenon DEF IsView
<1>2. ASSUME NEW x \in Kind(Core, "v1", {"nodes", "namespaces"}, FALSE)
      PROVE  IsView(x)
  <2>1. /\ x.group = Core /\ x.version = "v1" /\ x.namespaced = FALSE
        /\ x.resource \in {"nodes", "namespaces"}
    BY DEF Kind
  <2>2. x.resource = "namespaces" \/ x.resource \in Collapsed
    BY <2>1 DEF Collapsed
  <2>3. x.resource \in {"nodes", "namespaces"}
    BY <2>1
  <2> QED
    BY <2>1, <2>2, <2>3, Zenon DEF IsView
<1>3. ASSUME NEW x \in Kind("apps", "v1", {"deployments", "replicasets"}, TRUE)
      PROVE  IsView(x)
  <2>1. /\ x.group = "apps" /\ x.version = "v1" /\ x.namespaced = TRUE
        /\ x.resource \in {"deployments", "replicasets"}
    BY DEF Kind
  <2>2. x.resource = "namespaces" \/ x.resource \in Collapsed
    BY <2>1 DEF Collapsed
  <2>3. x.resource \notin {"nodes", "namespaces"}
    BY <2>1
  <2> QED
    BY <2>1, <2>2, <2>3, Zenon DEF IsView
<1>4. ASSUME NEW x \in Kind("batch", "v1", {"jobs", "cronjobs"}, TRUE)
      PROVE  IsView(x)
  <2>1. /\ x.group = "batch" /\ x.version = "v1" /\ x.namespaced = TRUE
        /\ x.resource \in {"jobs", "cronjobs"}
    BY DEF Kind
  <2>2. x.resource = "namespaces" \/ x.resource \in Collapsed
    BY <2>1 DEF Collapsed
  <2>3. x.resource \notin {"nodes", "namespaces"}
    BY <2>1
  <2> QED
    BY <2>1, <2>2, <2>3, Zenon DEF IsView
<1> QED
  BY <1>1, <1>2, <1>3, <1>4, Zenon DEF Views

\* One is known by its group, version and resource.
LEMMA ViewIsKnown ==
    ASSUME NEW k \in Views, NEW q \in Views,
           k.group = q.group, k.version = q.version, k.resource = q.resource
    PROVE  k = q
<1>1. ASSUME NEW g, NEW v, NEW R, NEW x \in Kind(g, v, R, TRUE) \cup Kind(g, v, R, FALSE)
      PROVE  x = [group |-> x.group, version |-> x.version, resource |-> x.resource,
                  namespaced |-> x.namespaced]
  BY DEF Kind
<1>2. ASSUME NEW x \in Views
      PROVE  x = [group |-> x.group, version |-> x.version, resource |-> x.resource,
                  namespaced |-> x.namespaced]
  BY <1>1, Zenon DEF Views
<1>3. k.namespaced = q.namespaced
  BY ViewIs, Zenon DEF IsView
<1>4. /\ k = [group |-> k.group, version |-> k.version, resource |-> k.resource,
              namespaced |-> k.namespaced]
      /\ q = [group |-> q.group, version |-> q.version, resource |-> q.resource,
              namespaced |-> q.namespaced]
  BY <1>2
<1> QED
  BY <1>3, <1>4

\* No kind has no name.
LEMMA ResourceIsNamed ==
    ASSUME NEW k \in Views \cup Extras
    PROVE  ~ Blank(k.resource)
<1>1. ASSUME NEW x \in Views
      PROVE  ~ Blank(x.resource)
  BY ViewIs DEF IsView, Blank, Collapsed
<1>2. ASSUME NEW g, NEW v, NEW R, NEW x \in Kind(g, v, R, TRUE), "" \notin R
      PROVE  ~ Blank(x.resource)
  <2>1. PICK r \in R : x = [group |-> g, version |-> v, resource |-> r, namespaced |-> TRUE]
    BY Zenon DEF Kind
  <2>2. x.resource = r
    BY <2>1
  <2> QED
    BY <1>2, <2>2, Zenon DEF Blank
<1>3. ASSUME NEW g, NEW v, NEW R, NEW x \in Kind(g, v, R, FALSE), "" \notin R
      PROVE  ~ Blank(x.resource)
  <2>1. PICK r \in R : x = [group |-> g, version |-> v, resource |-> r, namespaced |-> FALSE]
    BY Zenon DEF Kind
  <2>2. x.resource = r
    BY <2>1
  <2> QED
    BY <1>3, <2>2, Zenon DEF Blank
<1>4. CASE k \in Extras
  BY <1>2, <1>3, <1>4, Zenon DEF Extras
<1> QED
  BY <1>1, <1>4

\* A GET of what a client's path means reaches a handler.
LEMMA GetIsServed ==
    ASSUME NEW k \in Views \cup Extras, NEW ns, NEW name, NEW sub \in {"", "status"}, NEW path,
           ParsePath(path) = Meant(k, ns, name, sub), NEW on
    PROVE  Route("GET", path, FALSE, on) \notin {"unknown", "refused"}
<1> PICK ri : ri = Meant(k, ns, name, sub)
  OBVIOUS
<1>1. /\ ri.ok = TRUE /\ ri.group = k.group /\ ri.version = k.version /\ ri.resource = k.resource
      /\ ri.subresource = sub
  BY DEF Meant
<1>2. CASE Served(ri)
  <2>1. Route("GET", path, FALSE, on) = RouteView("GET", ri, FALSE)
    BY <1>2, Zenon DEF Route
  <2>2. ri.subresource # "log"
    BY <1>1
  <2>3. RouteView("GET", ri, FALSE) \in {"scale", "get", "list"}
    BY <2>2 DEF RouteView
  <2> QED
    BY <2>1, <2>3
<1>3. CASE ~ Served(ri)
  <2>1. Route("GET", path, FALSE, on) = RouteUnserved(path, ri, FALSE, on)
    BY <1>3, Zenon DEF Route
  <2>2. k \notin Views
    BY <1>1, <1>3, Zenon DEF Served, LookupView, Has
  <2>3. EmptyKind(ri)
    BY <1>1, <2>2, Zenon DEF EmptyKind, Has
  <2>4. RouteUnserved(path, ri, FALSE, on) \in {"discovery", "static", "authz", "metrics", "empty"}
    BY <1>1, <2>3 DEF RouteUnserved
  <2> QED
    BY <2>1, <2>4
<1> QED
  BY <1>2, <1>3

\* What is misread is the status of namespaces, nothing else.
LEMMA OnlyStatusIsMisread ==
    ASSUME NEW k \in Views \cup Extras, NEW ns, NEW name, NEW sub \in {"", "status"},
           Blank(name) => Blank(sub), NEW path, path = PathTo(k, ns, name, sub),
           k.resource # "namespaces" \/ ~ Blank(ns) \/ Blank(sub)
    PROVE  /\ ParsePath(path) = Meant(k, ns, name, sub)
           /\ \A on : Route("GET", path, FALSE, on) \notin {"unknown", "refused"}
<1>1. IsPath(path, k, ns, name, sub)
  BY PathIs
<1>2. ~ Blank(k.resource)
  BY ResourceIsNamed
<1>3. ParsePath(path) = Meant(k, ns, name, sub)
  BY <1>1, <1>2, PathParses, Zenon
<1> QED
  BY <1>3, GetIsServed, Zenon

\* A probe, taken apart.
IsProbe(k, ns, name, sub) ==
    /\ k \in Views \cup Extras /\ ns \in {""} \cup Namespaces /\ name \in {""} \cup Names
    /\ sub \in {"", "status"} /\ (k.namespaced \/ Blank(ns)) /\ (Blank(name) => Blank(sub))

\* A member of a product of four sets.
LEMMA Quadruple ==
    ASSUME NEW A, NEW B, NEW C, NEW D, NEW x \in A \X B \X C \X D
    PROVE  \E k \in A, ns \in B, name \in C, sub \in D : x = <<k, ns, name, sub>>
  OBVIOUS

\* Every probe is one.
LEMMA ProbeIs ==
    ASSUME NEW x \in Probed
    PROVE  \E k, ns, name, sub : x = <<k, ns, name, sub>> /\ IsProbe(k, ns, name, sub)
<1>0. x \in (Views \cup Extras) \X ({""} \cup Namespaces) \X ({""} \cup Names) \X {"", "status"}
  BY Zenon DEF Probed
<1>1. PICK k \in Views \cup Extras, ns \in {""} \cup Namespaces, name \in {""} \cup Names,
           sub \in {"", "status"} : x = <<k, ns, name, sub>>
  <2> DEFINE A == Views \cup Extras
             B == {""} \cup Namespaces
             C == {""} \cup Names
             D == {"", "status"}
  <2>1. x \in A \X B \X C \X D
    BY <1>0
  <2> HIDE DEF A, B, C, D
  <2>2. \E k \in A, ns \in B, name \in C, sub \in D : x = <<k, ns, name, sub>>
    BY <2>1, Quadruple
  <2> QED
    BY <2>2, Zenon DEF A, B, C, D
<1>2. (x[1].namespaced \/ Blank(x[2])) /\ (Blank(x[3]) => Blank(x[4]))
  <2>1. (x[1].namespaced \/ x[2] = "") /\ (x[3] # "" \/ x[4] = "")
    BY Zenon DEF Probed
  <2> QED
    BY <2>1, Zenon DEF Blank
<1>3. x[1] = k /\ x[2] = ns /\ x[3] = name /\ x[4] = sub
  BY <1>1
<1>4. IsProbe(k, ns, name, sub)
  BY <1>2, <1>3, Zenon DEF IsProbe
<1> QED
  BY <1>1, <1>4

\* Namespaces are in no namespace.
LEMMA NamespacesAreNot ==
    ASSUME NEW k \in Views \cup Extras, k.resource = "namespaces"
    PROVE  ~ k.namespaced
<1>1. ASSUME NEW g, NEW v, NEW R, NEW x \in Kind(g, v, R, TRUE), "namespaces" \notin R
      PROVE  x.resource # "namespaces"
  BY <1>1 DEF Kind
<1>2. ASSUME NEW g, NEW v, NEW R, NEW x \in Kind(g, v, R, FALSE), "namespaces" \notin R
      PROVE  x.resource # "namespaces"
  BY <1>2 DEF Kind
<1>3. CASE k \in Extras
  BY <1>1, <1>2, <1>3, Zenon DEF Extras
<1>4. CASE k \in Views
  <2>1. k.namespaced = FALSE
    BY <1>4, ViewIs DEF IsView
  <2> QED
    BY <2>1
<1> QED
  BY <1>3, <1>4

\* What the path of a probe is read as.
ReadAs(k, ns, name, sub, path) ==
    LET ri == ParsePath(path)
    IN \/ <<ri.resource, ri.namespace, ri.name>> # <<k.resource, ns, name>>
       \/ \E on \in BOOLEAN :
             /\ k \in Advertised(k.group, k.version, on)
             /\ Route("GET", path, FALSE, on) \in {"unknown", "refused"}

\* It is misread exactly if it is the status of a namespace.
LEMMA ReadAsOther ==
    ASSUME NEW k, NEW ns, NEW name, NEW sub, IsProbe(k, ns, name, sub)
    PROVE  ReadAs(k, ns, name, sub, PathTo(k, ns, name, sub))
               <=> k.resource = "namespaces" /\ ~ Blank(sub)
<1> PICK path : path = PathTo(k, ns, name, sub)
  OBVIOUS
<1>0. k \in Views \cup Extras /\ sub \in {"", "status"} /\ (k.namespaced \/ Blank(ns))
          /\ (Blank(name) => Blank(sub))
  BY Zenon DEF IsProbe
<1>1. CASE k.resource = "namespaces" /\ ~ Blank(sub)
  <2>1. Blank(ns) /\ ~ Blank(name)
    BY <1>0, <1>1, NamespacesAreNot, Zenon
  <2>2. ParsePath(path).resource = sub
    BY <1>1, <2>1, PathIs, StatusParses, Zenon DEF OfNamespaces
  <2>3. sub = "status"
    BY <1>0, <1>1, Zenon DEF Blank
  <2>4. ParsePath(path).resource # k.resource
    BY <1>1, <2>2, <2>3
  <2>5. <<ParsePath(path).resource, ParsePath(path).namespace, ParsePath(path).name>>
            # <<k.resource, ns, name>>
    BY <2>4
  <2> QED
    BY <1>1, <2>5, Zenon DEF ReadAs
<1>2. CASE ~ (k.resource = "namespaces" /\ ~ Blank(sub))
  <2>1. /\ ParsePath(path) = Meant(k, ns, name, sub)
        /\ \A on : Route("GET", path, FALSE, on) \notin {"unknown", "refused"}
    BY <1>0, <1>2, OnlyStatusIsMisread, Zenon
  <2>2. /\ ParsePath(path).resource = k.resource /\ ParsePath(path).namespace = ns
        /\ ParsePath(path).name = name
    BY <2>1 DEF Meant
  <2>3. <<ParsePath(path).resource, ParsePath(path).namespace, ParsePath(path).name>>
            = <<k.resource, ns, name>>
    BY <2>2, Zenon
  <2>4. ~ ReadAs(k, ns, name, sub, path)
    BY <2>1, <2>3, Zenon DEF ReadAs
  <2> QED
    BY <1>2, <2>4, Zenon
<1> QED
  BY <1>1, <1>2

\* So the misread probes are those.
LEMMA MisreadIs == Misread = NamespaceStatus
<1>1. ASSUME NEW x \in Probed
      PROVE  x \in Misread <=> x \in NamespaceStatus
  <2>1. PICK k, ns, name, sub : x = <<k, ns, name, sub>> /\ IsProbe(k, ns, name, sub)
    BY ProbeIs
  <2>2. x[1] = k /\ x[2] = ns /\ x[3] = name /\ x[4] = sub
    BY <2>1
  <2>3. x \in Misread <=> ReadAs(x[1], x[2], x[3], x[4], PathTo(x[1], x[2], x[3], x[4]))
    BY Zenon DEF Misread, ReadAs
  <2>4. x \in Misread <=> k.resource = "namespaces" /\ ~ Blank(sub)
    BY <2>1, <2>2, <2>3, ReadAsOther, Zenon
  <2>5. Blank(sub) \/ sub = "status"
    BY <2>1, Zenon DEF IsProbe, Blank
  <2>6. ~ Blank("status")
    BY DEF Blank
  <2>7. x \in NamespaceStatus <=> k.resource = "namespaces" /\ sub = "status"
    BY <2>2, Zenon DEF NamespaceStatus
  <2> QED
    BY <2>4, <2>5, <2>6, <2>7, Zenon
<1>2. Misread \subseteq Probed /\ NamespaceStatus \subseteq Probed
  BY Zenon DEF Misread, NamespaceStatus
<1> QED
  BY <1>1, <1>2, Zenon

-----------------------------------------------------------------------------
(* Rows of the hot-path table.                                             *)

\* What holds of 0, and of a number when it holds of the one before, holds up to n.
LEMMA UpTo ==
    ASSUME NEW n \in Nat, NEW T, 0 \in T,
           \A m \in 0 .. n : m # 0 /\ m - 1 \in T => m \in T
    PROVE  \A m \in 0 .. n : m \in T
<1> DEFINE U == {m \in 0 .. n : m \notin T}
<1>1. SUFFICES ASSUME U # {} PROVE FALSE
  OBVIOUS
<1>2. U \in SUBSET Nat
  OBVIOUS
<1>3. PICK m \in U : \A k \in U : m <= k
  <2> HIDE DEF U
  <2> QED
    BY <1>1, <1>2, LeastElement
<1>4. m \in 0 .. n /\ m # 0 /\ m \notin T
  OBVIOUS
<1>5. m - 1 \in 0 .. n /\ ~ (m <= m - 1)
  BY <1>4
<1>6. m - 1 \in T
  BY <1>3, <1>5
<1> QED
  BY <1>4, <1>6

\* What stands for the name of a namespace, and of an object.
OfNamespace == "{ns}"
OfObject    == "{name}"

\* What normalize makes of the segment i of p, of n, behind x.
Out(x, p, n, i) ==
    IF x = "namespaces" /\ i < n THEN OfNamespace
    ELSE IF x \in Collapsed THEN OfObject ELSE p[i]

\* Its loop, up to the segment m.
Outs(f, p, n, m) == f = [i \in 0 .. m |-> IF i = 0 THEN Core ELSE Out(f[i - 1], p, n, i)]

\* The loop has a result.
LEMMA OutsExist ==
    ASSUME NEW p, NEW n \in Nat
    PROVE  \E f : Outs(f, p, n, n)
<1> DEFINE T == {m \in Nat : \E f : Outs(f, p, n, m)}
<1>1. 0 \in T
  <2>1. Outs([i \in 0 .. 0 |-> Core], p, n, 0)
    BY DEF Outs
  <2> QED
    BY <2>1
<1>2. ASSUME NEW m \in 0 .. n, m # 0, m - 1 \in T
      PROVE  m \in T
  <2>1. PICK f : Outs(f, p, n, m - 1)
    BY <1>2
  <2> DEFINE g == [i \in 0 .. m |-> IF i = 0 THEN Core ELSE Out(f[i - 1], p, n, i)]
  <2>2. \A i \in 0 .. m - 1 : g[i] = f[i]
    BY <1>2, <2>1 DEF Outs
  <2>3. ASSUME NEW i \in 0 .. m, i # 0
        PROVE  g[i] = Out(g[i - 1], p, n, i)
    <3>1. g[i] = Out(f[i - 1], p, n, i)
      BY <2>3
    <3>2. i - 1 \in 0 .. m - 1
      BY <1>2, <2>3
    <3>3. g[i - 1] = f[i - 1]
      BY <2>2, <3>2
    <3> HIDE DEF g
    <3> QED
      BY <3>1, <3>3, Zenon
  <2>4. g[0] = Core
    BY <1>2
  <2>5. g = [i \in 0 .. m |-> g[i]]
    BY Zenon
  <2> HIDE DEF g
  <2>6. \A i \in 0 .. m : g[i] = IF i = 0 THEN Core ELSE Out(g[i - 1], p, n, i)
    BY <2>3, <2>4, Zenon
  <2>7. Outs(g, p, n, m)
    BY <2>5, <2>6, Zenon DEF Outs
  <2> QED
    BY <1>2, <2>7
<1> HIDE DEF T
<1>3. n \in T
  BY <1>1, <1>2, UpTo
<1> QED
  BY <1>3 DEF T

\* Which is the path it returns.
LEMMA NormalUnfolds ==
    ASSUME NEW p
    PROVE  Normalize(p) = [i \in DOMAIN p |-> (CHOOSE f : Outs(f, p, Len(p), Len(p)))[i]]
  BY Zenon DEF Normalize, Outs, Out, Core, OfNamespace, OfObject

\* Each segment depends on what was made of the one before.
LEMMA NormalSteps ==
    ASSUME NEW p, NEW n \in Nat, DOMAIN p = 1 .. n, Len(p) = n, NEW q, q = Normalize(p)
    PROVE  /\ q = [i \in 1 .. n |-> q[i]] /\ Len(q) = n
           /\ n > 0 => q[1] = Out(Core, p, n, 1)
           /\ \A i \in 2 .. n : q[i] = Out(q[i - 1], p, n, i)
<1> DEFINE F == CHOOSE f : Outs(f, p, n, n)
<1>1. q = [i \in 1 .. n |-> F[i]]
  BY NormalUnfolds
<1>2. Outs(F, p, n, n)
  BY OutsExist, Zenon
<1>3. \A i \in 0 .. n : F[i] = IF i = 0 THEN Core ELSE Out(F[i - 1], p, n, i)
  <2> HIDE DEF F
  <2> QED
    BY <1>2, Zenon DEF Outs
<1> HIDE DEF F
<1>4. F[0] = Core /\ \A i \in 1 .. n : F[i] = Out(F[i - 1], p, n, i)
  BY <1>3
<1>5. \A i \in 1 .. n : q[i] = F[i]
  BY <1>1
<1>6. n > 0 => q[1] = Out(Core, p, n, 1)
  <2> SUFFICES ASSUME n > 0 PROVE q[1] = Out(Core, p, n, 1)
    OBVIOUS
  <2>1. 1 \in 1 .. n /\ 1 - 1 = 0
    OBVIOUS
  <2> QED
    BY <1>4, <1>5, <2>1, Zenon
<1>7. ASSUME NEW i \in 2 .. n
      PROVE  q[i] = Out(q[i - 1], p, n, i)
  <2>1. i \in 1 .. n /\ i - 1 \in 1 .. n
    OBVIOUS
  <2> QED
    BY <1>4, <1>5, <2>1, Zenon
<1>8. q \in Seq({q[i] : i \in 1 .. n}) /\ Len(q) = n
  BY <1>1
<1> QED
  BY <1>1, <1>6, <1>7, <1>8, Zenon

\* A segment that says nothing of the next.
Plain(x) == x # "namespaces" /\ x \notin Collapsed

\* Behind such a segment, a segment stays.
LEMMA OutPlain ==
    ASSUME NEW x, Plain(x), NEW p, NEW n, NEW i
    PROVE  Out(x, p, n, i) = p[i]
  BY Zenon DEF Plain, Out

\* Behind namespaces, something stands for the name.
LEMMA OutScope ==
    ASSUME NEW p, NEW n, NEW i, i < n
    PROVE  Out("namespaces", p, n, i) = OfNamespace
  BY Zenon DEF Out

\* And behind a resource.
LEMMA OutName ==
    ASSUME NEW x \in Collapsed, NEW p, NEW n, NEW i
    PROVE  Out(x, p, n, i) = OfObject
<1>1. x # "namespaces"
  BY DEF Collapsed
<1> QED
  BY <1>1, Zenon DEF Out

\* The segments of a served kind's head are plain, and what stands for a name.
LEMMA PlainIs ==
    /\ Plain(Core) /\ Plain("api") /\ Plain("apis") /\ Plain("apps") /\ Plain("batch")
    /\ Plain("v1") /\ Plain(OfNamespace) /\ Plain(OfObject)
    /\ ~ Blank(OfNamespace) /\ ~ Blank(OfObject)
<1>1. Plain("api") /\ Plain("apis") /\ Plain("apps") /\ Plain("batch") /\ Plain("v1")
  BY DEF Plain, Collapsed
<1>2. Plain(Core)
  BY DEF Plain, Collapsed, Core
<1>3. Plain(OfNamespace) /\ Plain(OfObject)
  BY Zenon DEF Plain, Collapsed, OfNamespace, OfObject
<1>4. ~ Blank(OfNamespace) /\ ~ Blank(OfObject)
  BY Zenon DEF Blank, OfNamespace, OfObject
<1> QED
  BY <1>1, <1>2, <1>3, <1>4, Zenon

\* q is p, normalized: each segment but the first is made behind the one before.
Steps(q, p, n) ==
    \A i \in 2 .. n : q[i] = Out(q[i - 1], p, n, i)

Norm(q, p, n) ==
    Len(q) = n /\ DOMAIN q = 1 .. n /\ q[1] = p[1] /\ Steps(q, p, n)

\* Normalize returns that.
LEMMA NormalIs ==
    ASSUME NEW p, NEW n \in Nat, n > 0, DOMAIN p = 1 .. n, Len(p) = n, NEW q, q = Normalize(p)
    PROVE  q = [i \in 1 .. n |-> q[i]] /\ Norm(q, p, n)
<1>1. /\ q = [i \in 1 .. n |-> q[i]] /\ Len(q) = n
      /\ q[1] = Out(Core, p, n, 1) /\ Steps(q, p, n)
  BY NormalSteps DEF Steps
<1>2. DOMAIN q = 1 .. n
  BY <1>1
<1>3. q[1] = p[1]
  <2>1. Out(Core, p, n, 1) = p[1]
    BY OutPlain, PlainIs
  <2> QED
    BY <1>1, <2>1
<1> QED
  BY <1>1, <1>2, <1>3 DEF Norm

\* What is behind a segment of q.
LEMMA Behind ==
    ASSUME NEW q, NEW p, NEW n \in Nat, Norm(q, p, n), NEW i \in 1 .. n - 1
    PROVE  /\ Plain(q[i]) => q[i + 1] = p[i + 1]
           /\ q[i] = "namespaces" /\ i + 1 < n => q[i + 1] = OfNamespace
           /\ q[i] \in Collapsed => q[i + 1] = OfObject
<1> PICK j \in 2 .. n : j = i + 1
  OBVIOUS
<1> PICK x : x = q[i]
  OBVIOUS
<1>1. q[j] = Out(x, p, n, j)
  <2>1. j - 1 = i
    OBVIOUS
  <2>2. q[j] = Out(q[j - 1], p, n, j)
    BY Zenon DEF Norm, Steps
  <2> QED
    BY <2>1, <2>2
<1>2. Plain(x) => q[j] = p[j]
  BY <1>1, OutPlain
<1>3. x = "namespaces" /\ j < n => q[j] = OfNamespace
  BY <1>1, OutScope
<1>4. x \in Collapsed => q[j] = OfObject
  BY <1>1, OutName
<1> QED
  BY <1>2, <1>3, <1>4

\* The head stays, and the segment behind it.
LEMMA HeadStays ==
    ASSUME NEW k, IsView(k), NEW h \in {2, 3}, h = Start(k),
           NEW p, NEW n \in Nat, n > h, Begins(p, k), NEW q, Norm(q, p, n)
    PROVE  Begins(q, k) /\ q[h + 1] = p[h + 1]
<1>v. k.version = "v1" /\ k.group \in {Core, "apps", "batch"}
  BY Zenon DEF IsView
<1>1. q[1] = p[1]
  BY Zenon DEF Norm
<1>2. q[2] = p[2]
  <2>1. Plain(p[1])
    BY PlainIs DEF Begins
  <2>2. 1 \in 1 .. n - 1
    OBVIOUS
  <2>3. q[1 + 1] = p[1 + 1]
    BY <1>1, <2>1, <2>2, Behind
  <2> QED
    BY <2>3
<1>3. CASE Blank(k.group)
  <2>1. h = 2
    BY <1>3 DEF Start
  <2>2. p[2] = "v1" /\ p[1] = "api"
    BY <1>v, <1>3 DEF Begins
  <2>3. 2 \in 1 .. n - 1
    BY <2>1
  <2>4. q[2 + 1] = p[2 + 1]
    BY <1>2, <2>2, <2>3, Behind, PlainIs
  <2> QED
    BY <1>1, <1>2, <1>3, <1>v, <2>1, <2>2, <2>4 DEF Begins
<1>4. CASE ~ Blank(k.group)
  <2>1. h = 3
    BY <1>4 DEF Start
  <2>2. p[1] = "apis" /\ p[2] = k.group /\ p[3] = "v1"
    BY <1>v, <1>4 DEF Begins
  <2>3. 2 \in 1 .. n - 1 /\ 3 \in 1 .. n - 1
    BY <2>1
  <2>4. q[2 + 1] = p[2 + 1]
    <3>1. Plain(k.group)
      BY <1>v, PlainIs
    <3> QED
      BY <1>2, <2>2, <2>3, <3>1, Behind
  <2>5. q[3 + 1] = p[3 + 1]
    BY <2>2, <2>3, <2>4, Behind, PlainIs
  <2> QED
    BY <1>1, <1>2, <1>4, <1>v, <2>1, <2>2, <2>4, <2>5 DEF Begins
<1> QED
  BY <1>3, <1>4

\* So does the resource, behind what stands for the namespace.
LEMMA ScopeStays ==
    ASSUME NEW k, IsView(k), NEW h \in {2, 3}, NEW m \in Nat, NEW b \in BOOLEAN,
           m = IF b THEN h ELSE h + 2,
           NEW p, ~ b => p[h + 1] = "namespaces", NEW n \in Nat, n > m,
           NEW q, Norm(q, p, n), q[h + 1] = p[h + 1]
    PROVE  q[m + 1] = p[m + 1] /\ (~ b => q[h + 2] = OfNamespace)
<1>1. CASE b
  BY <1>1
<1>2. CASE ~ b
  <2>1. m = h + 2 /\ h + 1 \in 1 .. n - 1 /\ h + 2 \in 1 .. n - 1 /\ (h + 1) + 1 < n
    BY <1>2
  <2>2. q[(h + 1) + 1] = OfNamespace
    BY <1>2, <2>1, Behind
  <2>3. q[h + 2] = OfNamespace
    BY <2>2
  <2>4. q[(h + 2) + 1] = p[(h + 2) + 1]
    BY <2>1, <2>3, Behind, PlainIs
  <2> QED
    BY <2>1, <2>3, <2>4
<1> QED
  BY <1>1, <1>2

\* Behind the resource, something stands for the name.
LEMMA NameStays ==
    ASSUME NEW m \in Nat, NEW b \in BOOLEAN, NEW c \in BOOLEAN,
           NEW n \in Nat, n = IF b THEN m + 1 ELSE IF c THEN m + 2 ELSE m + 3,
           NEW p, NEW q, Norm(q, p, n), q[m + 1] \in Collapsed
    PROVE  (~ b => q[m + 2] = OfObject) /\ (~ b /\ ~ c => q[m + 3] = p[m + 3])
<1>1. CASE b
  BY <1>1
<1>2. CASE ~ b
  <2>1. m + 1 \in 1 .. n - 1
    BY <1>2
  <2>2. q[(m + 1) + 1] = OfObject
    BY <2>1, Behind
  <2>3. q[m + 2] = OfObject
    BY <2>2
  <2>4. ~ c => q[m + 3] = p[m + 3]
    <3> SUFFICES ASSUME ~ c PROVE q[m + 3] = p[m + 3]
      OBVIOUS
    <3>1. m + 2 \in 1 .. n - 1
      BY <1>2
    <3>2. q[(m + 2) + 1] = p[(m + 2) + 1]
      BY <2>3, <3>1, Behind, PlainIs
    <3> QED
      BY <3>2
  <2> QED
    BY <2>3, <2>4
<1> QED
  BY <1>1, <1>2

\* What stands for a name.
Hide(x, y) == IF Blank(x) THEN x ELSE y

\* The row of a path is the path of its kind, with both names hidden.
LEMMA NormalPath ==
    ASSUME NEW k, IsView(k), ~ OfNamespaces(k), NEW ns, NEW name, NEW sub,
           Blank(name) => Blank(sub),
           NEW p, IsPath(p, k, ns, name, sub), NEW q, q = Normalize(p)
    PROVE  /\ q = [i \in 1 .. Len(q) |-> q[i]]
           /\ IsPath(q, k, Hide(ns, OfNamespace), Hide(name, OfObject), sub)
<1> PICK h \in {2, 3} : h = Start(k)
  BY ScopeIsNat
<1> PICK m \in Nat : m = Scope(k, ns)
  BY ScopeIsNat
<1>m. m = IF Blank(ns) THEN h ELSE h + 2
  BY ScopeIsNat
<1> PICK n \in Nat : n = Length(k, ns, name, sub)
  BY DEF Length
<1>n. n = IF Blank(name) THEN m + 1 ELSE IF Blank(sub) THEN m + 2 ELSE m + 3
  BY DEF Length
<1>b. Blank(ns) \in BOOLEAN /\ Blank(name) \in BOOLEAN /\ Blank(sub) \in BOOLEAN
  BY Zenon DEF Blank
<1>d. DOMAIN p = 1 .. n /\ Len(p) = n
  BY Zenon DEF IsPath
<1>p. /\ Begins(p, k)
      /\ ~ Blank(ns) => p[h + 1] = "namespaces"
      /\ p[m + 1] = k.resource
      /\ ~ Blank(name) /\ ~ Blank(sub) => p[m + 3] = sub
  BY Zenon DEF IsPath
<1>l. n > m /\ m >= h /\ n > 0
  BY <1>m, <1>n
<1>f. q = [i \in 1 .. n |-> q[i]] /\ Norm(q, p, n)
  BY <1>d, <1>l, NormalIs
<1>q. Norm(q, p, n)
  BY <1>f
<1>e. DOMAIN q = 1 .. n /\ Len(q) = n
  BY <1>q, Zenon DEF Norm
<1>1. Begins(q, k) /\ q[h + 1] = p[h + 1]
  <2>1. n > h
    BY <1>l
  <2> QED
    BY <1>p, <1>q, <2>1, HeadStays
<1>2. q[m + 1] = k.resource /\ (~ Blank(ns) => q[h + 2] = OfNamespace)
  BY <1>1, <1>b, <1>l, <1>m, <1>p, <1>q, ScopeStays
<1>3. /\ ~ Blank(name) => q[m + 2] = OfObject
      /\ ~ Blank(name) /\ ~ Blank(sub) => q[m + 3] = sub
  <2>1. k.resource \in Collapsed
    BY Zenon DEF IsView, OfNamespaces
  <2> QED
    BY <1>2, <1>b, <1>n, <1>p, <1>q, <2>1, NameStays
<1>4. ~ Blank(ns) => q[h + 1] = "namespaces"
  BY <1>1, <1>p
<1>5. /\ Blank(Hide(ns, OfNamespace)) <=> Blank(ns)
      /\ Blank(Hide(name, OfObject)) <=> Blank(name)
      /\ ~ Blank(ns) => Hide(ns, OfNamespace) = OfNamespace
      /\ ~ Blank(name) => Hide(name, OfObject) = OfObject
  BY PlainIs, Zenon DEF Hide
<1>6. Scope(k, Hide(ns, OfNamespace)) = m
  BY <1>5, Zenon DEF Scope
<1>7. Length(k, Hide(ns, OfNamespace), Hide(name, OfObject), sub) = n
  BY <1>5, <1>6, Zenon DEF Length
<1>8. IsPath(q, k, Hide(ns, OfNamespace), Hide(name, OfObject), sub)
  BY <1>1, <1>2, <1>3, <1>4, <1>5, <1>6, <1>7, <1>e DEF IsPath
<1>9. q = [i \in 1 .. Len(q) |-> q[i]]
  BY <1>e, <1>f, Zenon
<1> QED
  BY <1>8, <1>9

\* Equal paths are of equal objects, up to what stands for their names.
LEMMA SamePath ==
    ASSUME NEW k, NEW ns, NEW name, NEW sub, NEW p, IsPath(p, k, ns, name, sub),
           NEW q, IsPath(q, k, ns, name, sub), NEW i \in 1 .. Len(p)
    PROVE  p[i] = q[i]
<1> PICK h \in {2, 3} : h = Start(k)
  BY ScopeIsNat
<1> PICK m \in Nat : m = Scope(k, ns)
  BY ScopeIsNat
<1>m. m = IF Blank(ns) THEN h ELSE h + 2
  BY ScopeIsNat
<1>n. Len(p) = IF Blank(name) THEN m + 1 ELSE IF Blank(sub) THEN m + 2 ELSE m + 3
  BY DEF IsPath, Length
<1>p. /\ \A j \in 1 .. h : p[j] = q[j]
      /\ ~ Blank(ns) => p[h + 1] = q[h + 1] /\ p[h + 2] = q[h + 2]
      /\ p[m + 1] = q[m + 1]
      /\ ~ Blank(name) => p[m + 2] = q[m + 2]
      /\ ~ Blank(name) /\ ~ Blank(sub) => p[m + 3] = q[m + 3]
  <2>1. \A j \in 1 .. h : p[j] = q[j]
    BY DEF IsPath, Begins, Start
  <2>2. /\ ~ Blank(ns) => p[h + 1] = q[h + 1] /\ p[h + 2] = q[h + 2]
        /\ p[m + 1] = q[m + 1]
        /\ ~ Blank(name) => p[m + 2] = q[m + 2]
        /\ ~ Blank(name) /\ ~ Blank(sub) => p[m + 3] = q[m + 3]
    BY DEF IsPath
  <2> QED
    BY <2>1, <2>2
<1>1. \/ i \in 1 .. h
      \/ ~ Blank(ns) /\ (i = h + 1 \/ i = h + 2)
      \/ i = m + 1
      \/ ~ Blank(name) /\ i = m + 2
      \/ ~ Blank(name) /\ ~ Blank(sub) /\ i = m + 3
  <2> PICK b \in BOOLEAN : b = Blank(ns)
    BY Zenon DEF Blank
  <2> PICK c \in BOOLEAN : c = Blank(name)
    BY Zenon DEF Blank
  <2> PICK d \in BOOLEAN : d = Blank(sub)
    BY Zenon DEF Blank
  <2> PICK n \in Nat : n = Len(p)
    BY <1>n
  <2>1. (b => m = h) /\ (~ b => m = h + 2)
    BY <1>m
  <2>2. (c => n = m + 1) /\ (~ c /\ d => n = m + 2) /\ (~ c /\ ~ d => n = m + 3)
    BY <1>n
  <2> QED
    BY <2>1, <2>2
<1> QED
  BY <1>1, <1>p

\* p is the path of something that is served, not of namespaces.
PathOf(p, k, ns, name, sub) ==
    k \in Views /\ ~ OfNamespaces(k) /\ (Blank(name) => Blank(sub)) /\ IsPath(p, k, ns, name, sub)

SameEndpoint(k, ns, name, sub, c, as, nm, sb) ==
    k = c /\ (Blank(ns) <=> Blank(as)) /\ (Blank(name) <=> Blank(nm)) /\ sub = sb

\* A path is of one endpoint.
LEMMA EqualPath ==
    ASSUME NEW p, NEW k, NEW ns, NEW name, NEW sub, PathOf(p, k, ns, name, sub),
           NEW c, NEW as, NEW nm, NEW sb, PathOf(p, c, as, nm, sb)
    PROVE  SameEndpoint(k, ns, name, sub, c, as, nm, sb)
<1>0. /\ k \in Views /\ ~ OfNamespaces(k) /\ (Blank(name) => Blank(sub))
      /\ IsPath(p, k, ns, name, sub)
      /\ c \in Views /\ ~ OfNamespaces(c) /\ (Blank(nm) => Blank(sb))
      /\ IsPath(p, c, as, nm, sb)
  BY DEF PathOf
<1> PICK h \in {2, 3} : h = Start(k)
  BY ScopeIsNat
<1> PICK m \in Nat : m = Scope(k, ns)
  BY ScopeIsNat
<1>m. m = IF Blank(ns) THEN h ELSE h + 2
  BY ScopeIsNat
<1>1. (Blank(k.group) <=> Blank(c.group)) /\ k.group = c.group /\ k.version = c.version
  <2>1. Begins(p, k) /\ Begins(p, c)
    BY <1>0, Zenon DEF IsPath
  <2>2. IsView(k) /\ IsView(c)
    BY <1>0, ViewIs
  <2>3. k.version = "v1" /\ c.version = "v1"
    BY <2>2, Zenon DEF IsView
  <2>4. Blank(k.group) <=> Blank(c.group)
    BY <2>1 DEF Begins
  <2>5. CASE Blank(k.group)
    BY <2>3, <2>4, <2>5, Zenon DEF Blank
  <2>6. CASE ~ Blank(k.group)
    <3>1. p[2] = k.group /\ p[2] = c.group
      BY <2>1, <2>4, <2>6 DEF Begins
    <3> QED
      BY <2>3, <2>4, <3>1
  <2> QED
    BY <2>5, <2>6
<1>2. Start(c) = h
  BY <1>1, Zenon DEF Start
<1>3. Blank(ns) <=> Blank(as)
  <2>1. ASSUME NEW x, ~ OfNamespaces(x), Start(x) = h, NEW y, NEW z, NEW w, IsPath(p, x, y, z, w)
        PROVE  Blank(y) <=> p[h + 1] # "namespaces"
    <3>1. CASE Blank(y)
      <4>1. Scope(x, y) = h
        BY <2>1, <3>1, ScopeIsNat
      <4> QED
        BY <2>1, <3>1, <4>1 DEF IsPath, OfNamespaces
    <3>2. CASE ~ Blank(y)
      BY <2>1, <3>2 DEF IsPath
    <3> QED
      BY <3>1, <3>2
  <2> QED
    BY <1>0, <1>2, <2>1, Zenon
<1>4. Scope(c, as) = m
  BY <1>2, <1>3, Zenon DEF Scope
<1>5. p[m + 1] = k.resource /\ p[m + 1] = c.resource
  BY <1>0, <1>4, Zenon DEF IsPath
<1>6. k = c
  BY <1>0, <1>1, <1>5, ViewIsKnown, Zenon
<1>7. /\ Len(p) = IF Blank(name) THEN m + 1 ELSE IF Blank(sub) THEN m + 2 ELSE m + 3
      /\ Len(p) = IF Blank(nm) THEN m + 1 ELSE IF Blank(sb) THEN m + 2 ELSE m + 3
  BY <1>0, <1>4 DEF IsPath, Length
<1>8. (Blank(name) <=> Blank(nm)) /\ (Blank(sub) <=> Blank(sb))
  BY <1>0, <1>7
<1>9. ~ Blank(sub) => sub = sb
  <2> SUFFICES ASSUME ~ Blank(sub) PROVE sub = sb
    OBVIOUS
  <2>1. p[m + 3] = sub /\ p[m + 3] = sb
    BY <1>0, <1>4, <1>8, Zenon DEF IsPath
  <2> QED
    BY <2>1
<1>10. Blank(sub) => sub = sb
  BY <1>8, Zenon DEF Blank
<1> QED
  BY <1>3, <1>6, <1>8, <1>9, <1>10, Zenon DEF SameEndpoint

\* q is the row of the probes on an endpoint.
RowOf(q, k, ns, name, sub) ==
    /\ q = [i \in 1 .. Len(q) |-> q[i]]
    /\ PathOf(q, k, Hide(ns, OfNamespace), Hide(name, OfObject), sub)

\* Hiding keeps whether there is a name, and nothing else.
LEMMA HideIs ==
    ASSUME NEW x, NEW y, ~ Blank(y)
    PROVE  /\ Blank(Hide(x, y)) <=> Blank(x)
           /\ \A z : (Blank(x) <=> Blank(z)) => Hide(x, y) = Hide(z, y)
  BY Zenon DEF Hide, Blank

\* Every row of the table is one.
LEMMA RowIs ==
    ASSUME NEW k \in Views, ~ OfNamespaces(k), NEW ns, NEW name, NEW sub,
           IsProbe(k, ns, name, sub)
    PROVE  RowOf(Normalize(PathTo(k, ns, name, sub)), k, ns, name, sub)
<1>1. Blank(name) => Blank(sub)
  BY Zenon DEF IsProbe
<1> PICK p : p = PathTo(k, ns, name, sub)
  OBVIOUS
<1> PICK q : q = Normalize(p)
  OBVIOUS
<1>2. IsPath(p, k, ns, name, sub)
  BY PathIs
<1>3. IsView(k)
  BY ViewIs
<1>4. /\ q = [i \in 1 .. Len(q) |-> q[i]]
      /\ IsPath(q, k, Hide(ns, OfNamespace), Hide(name, OfObject), sub)
  BY <1>1, <1>2, <1>3, NormalPath
<1>5. Blank(Hide(name, OfObject)) => Blank(sub)
  BY <1>1, PlainIs, HideIs
<1>6. RowOf(q, k, ns, name, sub)
  BY <1>4, <1>5 DEF RowOf, PathOf
<1> QED
  BY <1>6

\* It is of its endpoint, and of no other.
LEMMA RowIsEndpoint ==
    ASSUME NEW p, NEW k, NEW ns, NEW name, NEW sub, RowOf(p, k, ns, name, sub),
           NEW q, NEW c, NEW as, NEW nm, NEW sb, RowOf(q, c, as, nm, sb)
    PROVE  p = q <=> SameEndpoint(k, ns, name, sub, c, as, nm, sb)
<1> DEFINE n1 == Hide(ns, OfNamespace)
           n2 == Hide(name, OfObject)
           a1 == Hide(as, OfNamespace)
           a2 == Hide(nm, OfObject)
<1>1. /\ Blank(n1) <=> Blank(ns)
      /\ Blank(n2) <=> Blank(name)
      /\ Blank(a1) <=> Blank(as)
      /\ Blank(a2) <=> Blank(nm)
  BY HideIs, PlainIs, Zenon
<1>2. /\ (Blank(ns) <=> Blank(as)) => n1 = a1
      /\ (Blank(name) <=> Blank(nm)) => n2 = a2
  BY HideIs, PlainIs, Zenon
<1>3. p = [i \in 1 .. Len(p) |-> p[i]] /\ PathOf(p, k, n1, n2, sub)
  BY DEF RowOf
<1>4. q = [i \in 1 .. Len(q) |-> q[i]] /\ PathOf(q, c, a1, a2, sb)
  BY DEF RowOf
<1> HIDE DEF n1, n2, a1, a2
<1>5. ASSUME p = q
      PROVE  SameEndpoint(k, ns, name, sub, c, as, nm, sb)
  <2>1. PathOf(p, c, a1, a2, sb)
    BY <1>4, <1>5
  <2>2. SameEndpoint(k, n1, n2, sub, c, a1, a2, sb)
    BY <1>3, <2>1, EqualPath
  <2> QED
    BY <1>1, <2>2 DEF SameEndpoint
<1>6. ASSUME SameEndpoint(k, ns, name, sub, c, as, nm, sb)
      PROVE  p = q
  <2>1. k = c /\ n1 = a1 /\ n2 = a2 /\ sub = sb
    BY <1>2, <1>6 DEF SameEndpoint
  <2>2. IsPath(p, k, n1, n2, sub) /\ IsPath(q, k, n1, n2, sub)
    BY <1>3, <1>4, <2>1 DEF PathOf
  <2>3. Len(p) = Len(q)
    BY <2>2, Zenon DEF IsPath
  <2>4. \A i \in 1 .. Len(p) : p[i] = q[i]
    BY <2>2, SamePath
  <2> QED
    BY <1>3, <1>4, <2>3, <2>4, Zenon
<1> QED
  BY <1>5, <1>6

\* Quadruples are equal if their parts are.
LEMMA EqualQuadruples ==
    ASSUME NEW x, NEW y, NEW z, NEW w, NEW a, NEW b, NEW c, NEW d, NEW s, NEW t,
           s = <<x, y, z, w>>, t = <<a, b, c, d>>
    PROVE  s = t <=> x = a /\ y = b /\ z = c /\ w = d
  OBVIOUS

\* So no row is shared by two endpoints, and no endpoint has two.
LEMMA NothingIsMisfiled == Misfiled = {}
<1> DEFINE row      == [x \in Probed |-> Normalize(PathTo(x[1], x[2], x[3], x[4]))]
           endpoint == [x \in Probed |-> <<x[1], x[2] = "", x[3] = "", x[4]>>]
           served   == {x \in Probed : x[1] \in Views /\ x[1].resource # "namespaces"}
<1>1. ASSUME NEW x \in served, NEW y \in served
      PROVE  row[x] = row[y] <=> endpoint[x] = endpoint[y]
  <2>0. x \in Probed /\ y \in Probed
    OBVIOUS
  <2>1. PICK k, ns, name, sub : x = <<k, ns, name, sub>> /\ IsProbe(k, ns, name, sub)
    BY <2>0, ProbeIs
  <2>2. PICK c, as, nm, sb : y = <<c, as, nm, sb>> /\ IsProbe(c, as, nm, sb)
    BY <2>0, ProbeIs
  <2>3. x[1] = k /\ x[2] = ns /\ x[3] = name /\ x[4] = sub
    BY <2>1
  <2>4. y[1] = c /\ y[2] = as /\ y[3] = nm /\ y[4] = sb
    BY <2>2
  <2>5. k \in Views /\ ~ OfNamespaces(k) /\ c \in Views /\ ~ OfNamespaces(c)
    BY <2>3, <2>4, Zenon DEF OfNamespaces
  <2>6. /\ row[x] = Normalize(PathTo(k, ns, name, sub))
        /\ row[y] = Normalize(PathTo(c, as, nm, sb))
    BY <2>0, <2>3, <2>4, Zenon
  <2>7. /\ endpoint[x] = <<k, Blank(ns), Blank(name), sub>>
        /\ endpoint[y] = <<c, Blank(as), Blank(nm), sb>>
    BY <2>0, <2>3, <2>4, Zenon DEF Blank
  <2> HIDE DEF endpoint, served
  <2>8. /\ RowOf(row[x], k, ns, name, sub)
        /\ RowOf(row[y], c, as, nm, sb)
    BY <2>1, <2>2, <2>5, <2>6, RowIs, Zenon
  <2> HIDE DEF row
  <2>9. row[x] = row[y] <=> SameEndpoint(k, ns, name, sub, c, as, nm, sb)
    BY <2>8, RowIsEndpoint
  <2>10. endpoint[x] = endpoint[y] <=> SameEndpoint(k, ns, name, sub, c, as, nm, sb)
    <3> DEFINE e1 == Blank(ns)
               e2 == Blank(name)
               d1 == Blank(as)
               d2 == Blank(nm)
    <3>1. e1 \in BOOLEAN /\ e2 \in BOOLEAN /\ d1 \in BOOLEAN /\ d2 \in BOOLEAN
      BY Zenon DEF Blank
    <3>2. SameEndpoint(k, ns, name, sub, c, as, nm, sb)
              <=> k = c /\ (e1 <=> d1) /\ (e2 <=> d2) /\ sub = sb
      BY Zenon DEF SameEndpoint
    <3>3. endpoint[x] = <<k, e1, e2, sub>> /\ endpoint[y] = <<c, d1, d2, sb>>
      BY <2>7
    <3> HIDE DEF e1, e2, d1, d2
    <3>4. endpoint[x] = endpoint[y] <=> k = c /\ e1 = d1 /\ e2 = d2 /\ sub = sb
      BY <3>3, EqualQuadruples
    <3>5. (e1 = d1 <=> (e1 <=> d1)) /\ (e2 = d2 <=> (e2 <=> d2))
      BY <3>1, Zenon
    <3> QED
      BY <3>2, <3>4, <3>5, Zenon
  <2> QED
    BY <2>9, <2>10
<1>2. Misfiled = {x \in served \X served : (row[x[1]] = row[x[2]]) # (endpoint[x[1]] = endpoint[x[2]])}
  BY Zenon DEF Misfiled
<1> HIDE DEF row, endpoint, served
<1>3. ASSUME NEW x \in served \X served
      PROVE  ~ ((row[x[1]] = row[x[2]]) # (endpoint[x[1]] = endpoint[x[2]]))
  <2>1. x[1] \in served /\ x[2] \in served
    OBVIOUS
  <2> QED
    BY <1>1, <2>1
<1> QED
  BY <1>2, <1>3

\* Whatever the objects are called: a client's path means what it was built
\* from, and a GET on what discovery advertises reaches its handler, but for the
\* status of namespaces; and a row of the hot-path table is one endpoint
\* (server.go:66-99, metrics.go:178-180).
THEOREM PathsAreAlwaysUnderstood == Spec => []PathsAreUnderstood
<1>1. PathsAreUnderstood
  BY MisreadIs, NothingIsMisfiled DEF PathsAreUnderstood
<1> QED
  BY <1>1, PTL

=============================================================================
