------------------------------ MODULE WatchStream ------------------------------
(***************************************************************************)
(* From a write transaction to a client's view of one resource kind:       *)
(* Cluster.Write (internal/cluster/cluster.go), the WatchHub, the watch    *)
(* handler (internal/apiserver/watch.go) and the client behind it.         *)
(*                                                                         *)
(* A write transaction runs under the cluster lock, takes resourceVersions *)
(* and queues its notices; they are broadcast after the lock is released,  *)
(* one hub section each.  Every goroutine that writes (the simulation      *)
(* tick, each API request) is a writer of its own.                         *)
(*                                                                         *)
(* A client is what the wire lets it be: it LISTs, or it resumes a watch   *)
(* from the last version it was sent, and falls back to LIST on 410 Gone.  *)
(***************************************************************************)
EXTENDS WatchHub

CONSTANTS
    Writers,        \* goroutines calling Cluster.Write
    MaxTx,          \* notices of this kind one transaction may emit
    Clients,
    AllowBookmarks, \* the client asked for allowWatchBookmarks=true
    AllowInitial    \* the client may ask for sendInitialEvents=true

ASSUME WatchStreamAssumption ==
    MaxTx \in Nat \ {0} /\ AllowBookmarks \in BOOLEAN /\ AllowInitial \in BOOLEAN

VARIABLES
    txq,     \* txq[w]: notices w has committed but not yet broadcast
    loop,    \* loop[s]: where the handler is: sending the "initial" events,
             \* their final bookmark ("mark"), or in its loops, "select", "drain"
    conn,    \* conn[c]: the subscription behind c's open watch, or NoSub
    pos,     \* pos[c]: the version c would resume from; 0 before any LIST
    have,    \* have[c]: versions whose change c has seen, by LIST or by watch
    excused  \* history: clients that, since their last LIST or initial events,
             \* were on a stream that dropped a notice, or were sent a bookmark
             \* ahead of one

streamVars == <<txq, loop, conn, pos, have, excused>>
allVars    == <<vars, streamVars>>

StreamInit ==
    /\ Init
    /\ txq = [w \in Writers |-> <<>>]
    /\ loop = [s \in Subs |-> "select"]
    /\ conn = [c \in Clients |-> NoSub]
    /\ pos = [c \in Clients |-> 0]
    /\ have = [c \in Clients |-> {}]
    /\ excused = {}

\* Versions committed to the store: broadcast, or still in a transaction.
Pending   == UNION {{txq[w][i] : i \in 1 .. Len(txq[w])} : w \in Writers}
Committed == {log[i] : i \in 1 .. Len(log)} \cup Pending

-----------------------------------------------------------------------------
(* Writers.                                                                *)

\* Clients on a stream that has no room for one more notice.
Full == {c \in Clients : conn[c] \in subs /\ Len(chan[conn[c]]) >= ChanCap}

\* c.mu.Lock(); fn(tx); c.mu.Unlock(): k notices of this kind are queued.
Commit(w) ==
    /\ txq[w] = <<>>
    /\ \E k \in 1 .. MaxTx :
        /\ rv + k <= MaxRV
        /\ rv' = rv + k
        /\ txq' = [txq EXCEPT ![w] = [i \in 1 .. k |-> rv + i]]
    /\ UNCHANGED <<hubVars, loop, conn, pos, have, excused>>

\* Fault: the transaction's notices go out last first.
PublishLast(w) ==
    /\ txq[w] # <<>>
    /\ Broadcast(txq[w][Len(txq[w])])
    /\ txq' = [txq EXCEPT ![w] = SubSeq(@, 1, Len(@) - 1)]
    /\ excused' = excused \cup Full
    /\ UNCHANGED <<rv, loop, conn, pos, have>>

\* for _, q := range tx.notices { q.hub.Broadcast(q.notice) }
PublishNext(w) ==
    /\ txq[w] # <<>>
    /\ Broadcast(Head(txq[w]))
    /\ txq' = [txq EXCEPT ![w] = Tail(@)]
    /\ excused' = excused \cup Full
    /\ UNCHANGED <<rv, loop, conn, pos, have>>

-----------------------------------------------------------------------------
(* Clients and their requests.                                             *)

Elems(q) == {q[i] : i \in 1 .. Len(q)}
Last(q)  == q[Len(q)]

\* LIST: the list's resourceVersion is the counter, the items are whatever is
\* committed, broadcast or not.
List(c) ==
    /\ conn[c] = NoSub
    /\ pos' = [pos EXCEPT ![c] = rv]
    /\ have' = [have EXCEPT ![c] = @ \cup Committed]
    /\ excused' = excused \ {c}
    /\ UNCHANGED <<vars, txq, loop, conn>>

\* WATCH from the last version seen; the replay is written out first.  When
\* the hub answers 410 Gone the client can only LIST.
Watch(c, s) ==
    /\ conn[c] = NoSub
    /\ pos[c] # 0
    /\ Subscribe(s, pos[c])
    /\ conn' = [conn EXCEPT ![c] = s]
    /\ loop' = [loop EXCEPT ![s] = "select"]
    /\ have' = [have EXCEPT ![c] = @ \cup Elems(got'[s])]
    /\ pos' = [pos EXCEPT ![c] = IF got'[s] = <<>> THEN @ ELSE Last(got'[s])]
    /\ UNCHANGED <<rv, txq, excused>>

\* WATCH with sendInitialEvents: subscribed from now on, nothing replayed.
WatchInitial(c, s) ==
    /\ AllowInitial
    /\ conn[c] = NoSub
    /\ Subscribe(s, 0)
    /\ conn' = [conn EXCEPT ![c] = s]
    /\ loop' = [loop EXCEPT ![s] = "initial"]
    /\ UNCHANGED <<rv, txq, pos, have, excused>>

\* streamInitial: the current state of the store.
InitialEvents(c) ==
    /\ conn[c] # NoSub /\ loop[conn[c]] = "initial"
    /\ loop' = [loop EXCEPT ![conn[c]] = "mark"]
    /\ have' = [have EXCEPT ![c] = @ \cup Committed]
    /\ excused' = excused \ {c}
    /\ UNCHANGED <<vars, txq, conn, pos>>

\* bookmarkObject(v, s.c.RVString(), ...): the cluster's current version.
SendBookmark(c) ==
    /\ pos' = [pos EXCEPT ![c] = rv]
    /\ excused' = IF Committed \subseteq have[c] THEN excused
                   ELSE excused \cup {c}
    /\ UNCHANGED <<vars, txq, conn, have>>

\* The bookmark that ends the initial events.
InitialMark(c) ==
    /\ conn[c] # NoSub /\ loop[conn[c]] = "mark"
    /\ loop' = [loop EXCEPT ![conn[c]] = "select"]
    /\ SendBookmark(c)

\* The handler is in its select or its drain loop.
Looping(c) == conn[c] # NoSub /\ loop[conn[c]] \in {"select", "drain"}

\* case n, open := <-sub.C(): the notice is written to the client.
Deliver(c) ==
    /\ Looping(c)
    /\ Receive(conn[c])
    /\ loop' = [loop EXCEPT ![conn[c]] = "drain"]
    /\ pos' = [pos EXCEPT ![c] = Head(chan[conn[c]])]
    /\ have' = [have EXCEPT ![c] = @ \cup {Head(chan[conn[c]])}]
    /\ UNCHANGED <<rv, txq, conn, excused>>

\* The handler returns and the client sees the stream end.
EndStream(c) ==
    /\ conn[c] # NoSub
    /\ Leave(conn[c])
    /\ conn' = [conn EXCEPT ![c] = NoSub]
    /\ loop' = [loop EXCEPT ![conn[c]] = "select"]
    /\ UNCHANGED <<rv, txq, pos, have, excused>>

\* Receive from a closed, drained channel: the subscription was torn down.
SeeClosed(c) ==
    /\ Looping(c) /\ chan[conn[c]] = <<>> /\ chClosed[conn[c]]
    /\ EndStream(c)

\* Fault: the overflow flag is not looked at.
DrainedRegardless(c) ==
    /\ conn[c] # NoSub
    /\ LET s == conn[c] IN
        /\ loop[s] = "drain"
        /\ chan[s] = <<>> /\ ~chClosed[s]
        /\ loop' = [loop EXCEPT ![s] = "select"]
    /\ UNCHANGED <<vars, txq, conn, pos, have, excused>>

\* Nothing left to drain: flush, and end the stream if notices were dropped.
Drained(c) ==
    /\ conn[c] # NoSub
    /\ LET s == conn[c] IN
        /\ loop[s] = "drain"
        /\ chan[s] = <<>> /\ ~chClosed[s]
        /\ IF overflow[s]
           THEN EndStream(c)
           ELSE /\ loop' = [loop EXCEPT ![s] = "select"]
                /\ UNCHANGED <<vars, txq, conn, pos, have, excused>>

\* The request's context ends (timeoutSeconds), or the client hangs up and the
\* next write fails, in either loop.
HangUp(c) == conn[c] # NoSub /\ EndStream(c)

\* case <-ticker.C: a bookmark carries the cluster's current version.
Bookmark(c) ==
    /\ AllowBookmarks
    /\ conn[c] # NoSub /\ loop[conn[c]] = "select"
    /\ SendBookmark(c)
    /\ UNCHANGED loop

\* The watch-churn goroutine and the deferred Close of each handler.
TearDown ==
    /\ \/ DisconnectAll
       \/ \E s \in Subs : Cut(s)
       \/ \E a \in Agents, s \in Subs : Unsubscribe(a, s)
    /\ UNCHANGED <<rv, streamVars>>

Handle(c) ==
    InitialEvents(c) \/ InitialMark(c) \/ Deliver(c) \/ SeeClosed(c) \/ Drained(c)

Connect(c) == List(c) \/ \E s \in Subs : Watch(c, s) \/ WatchInitial(c, s)

StreamNext ==
    \/ \E w \in Writers : Commit(w)
    \/ \E w \in Writers : PublishNext(w)
    \/ \E c \in Clients : List(c)
    \/ \E c \in Clients, s \in Subs : Watch(c, s)
    \/ \E c \in Clients, s \in Subs : WatchInitial(c, s)
    \/ \E c \in Clients : InitialEvents(c)
    \/ \E c \in Clients : InitialMark(c)
    \/ \E c \in Clients : Deliver(c)
    \/ \E c \in Clients : SeeClosed(c)
    \/ \E c \in Clients : Drained(c)
    \/ \E c \in Clients : HangUp(c)
    \/ \E c \in Clients : Bookmark(c)
    \/ TearDown

\* Goroutines that are not waiting for input get on: a writer broadcasts what
\* it committed, a handler reads its channel, unsubscribe runs to its end.
\* A client whose stream ended comes back, with a LIST or with a WATCH, and does
\* not hang up on every stream before its initial events are sent.
StreamFairness ==
    /\ \A w \in Writers : WF_allVars(PublishNext(w))
    /\ \A c \in Clients : WF_allVars(Handle(c))
    /\ \A c \in Clients : WF_allVars(Connect(c)) /\ SF_allVars(InitialEvents(c))
    /\ \A a \in Agents, s \in Subs :
        WF_allVars(Unsubscribe(a, s) /\ UNCHANGED <<rv, streamVars>>)
    /\ \A s \in Subs : WF_allVars(Cut(s) /\ UNCHANGED <<rv, streamVars>>)

StreamSpec == StreamInit /\ [][StreamNext]_allVars
StreamFairSpec == StreamSpec /\ StreamFairness

-----------------------------------------------------------------------------
(* Properties.                                                             *)

\* What is already buffered for c's open stream.
Coming(c) == IF conn[c] = NoSub THEN {} ELSE Elems(chan[conn[c]])

\* Notices a client will never be sent: broadcast at or below the version it
\* would resume from, not seen, and not buffered on its open stream.
Missed(c) == {n \in Elems(log) : n <= pos[c]} \ (have[c] \cup Coming(c))

\* README 38-40: a watch that resumes from an old version gets the events it
\* missed, or 410 Gone.
NothingLost == \A c \in Clients : Missed(c) = {}

\* Under one writer, only a full channel or a bookmark loses a notice, and the
\* loss ends with the client's next LIST or initial events.
LossIsExplained == \A c \in Clients \ excused : Missed(c) = {}

\* The notices one stream sends are in version order (one writer only).
InOrder ==
    \A s \in Subs : \A i, j \in 1 .. Len(got[s]) :
        i < j => got[s][i] < got[s][j]

\* watch.go 26-28: a stream that lost notices is terminated.
OverflowEndsStream ==
    \A c \in Clients :
        (conn[c] # NoSub /\ overflow[conn[c]]) ~> conn[c] = NoSub

\* Every committed change reaches every client, whatever streams break, unless
\* a full channel or a bookmark stands in the way.
EverythingArrives ==
    \A c \in Clients, n \in 1 .. MaxRV :
        (n \in Committed) ~> (n \in have[c] \/ c \in excused)
=============================================================================
