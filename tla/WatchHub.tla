------------------------------- MODULE WatchHub -------------------------------
(***************************************************************************)
(* The watch hub of one resource kind (internal/cluster/watch.go): a       *)
(* bounded replay ring, the set of live subscriptions with their buffered  *)
(* channels, and the two goroutines that may tear a subscription down: the *)
(* request handler that owns it (its deferred Close) and the watch-churn   *)
(* goroutine (DisconnectAll).                                              *)
(*                                                                         *)
(* A notice is abstracted to its resourceVersion.  Every section under     *)
(* Hub.mu is one step; unsubscribe is three, because it swaps the atomic   *)
(* flag before it takes the lock and closes the channel after it.          *)
(*                                                                         *)
(* Spec is the hub under one writer, that is, with notices arriving in     *)
(* resourceVersion order; WatchStream drives the same actions with several *)
(* writers.                                                                *)
(***************************************************************************)
EXTENDS Integers, Sequences, FiniteSets

CONSTANTS
    RingSize,   \* len(h.ring)
    ChanCap,    \* capacity of a subscription's channel
    Subs,       \* identities of *Subscription values, recycled once dropped
    NoSub,      \* "no subscription"
    SealRV,     \* the resourceVersion the cluster was sealed at
    MaxRV       \* bound on the resourceVersions of one behaviour

ASSUME WatchHubAssumption ==
    /\ RingSize \in Nat \ {0}
    /\ ChanCap \in Nat \ {0}
    /\ SealRV \in Nat \ {0}
    /\ MaxRV \in Nat
    /\ NoSub \notin Subs

Handler == "handler"
Churner == "churner"
Agents  == {Handler, Churner}

VARIABLES
    ring,      \* the replay ring, slots 0 .. RingSize-1; 0 is the zero Notice
    next,      \* next write slot
    full,      \* the ring has wrapped
    floor,     \* oldest version served before the ring wraps
    subs,      \* registered subscriptions
    chan,      \* buffered, not yet received notices of each subscription
    chClosed,  \* close(s.ch) has run
    closed,    \* s.closed, the atomic flag
    overflow,  \* s.overflow, the atomic flag
    owner,     \* what the request handler does with s: "none", "open", "left"
    unsub,     \* unsub[a][s]: how far agent a is inside unsubscribe(s)
    victims,   \* DisconnectAll: snapshot of the subscriptions still to cut
    cutting,   \* DisconnectAll: the subscription being cut
    rv,        \* the cluster's resourceVersion counter
    log,       \* history: every notice broadcast, in broadcast order
    since,     \* history: the version s was asked to resume from, 0 for "now"
    at,        \* history: Len(log) when s subscribed
    got        \* history: replay, then everything received, of s

ringVars == <<ring, next, full, floor>>
chanVars == <<chan, chClosed, overflow>>
tearVars == <<closed, owner, unsub, victims, cutting>>
histVars == <<since, at, got>>
hubVars  == <<ringVars, subs, chanVars, tearVars, log, histVars>>
vars     == <<hubVars, rv>>

-----------------------------------------------------------------------------
(* The ring.                                                               *)

\* Fault: reads the ring from slot 0 even after it has wrapped.
StartAtZero == 0

Start == IF full THEN next ELSE 0
Count == IF full THEN RingSize ELSE next

\* The live notices, oldest first.
Window == [i \in 1 .. Count |-> ring[(Start + i - 1) % RingSize]]

\* Fault: the floor stays at the seal although the ring evicts notices.
FloorNeverMoves == floor

\* floorLocked: the oldest version this hub can serve.
FloorLocked ==
    IF ~full \/ ring[next] = 0 THEN floor ELSE ring[next] - 1

\* The elements of q that are newer than v, in their order: the k-th of them is
\* the one with k of them up to it.
Newer(q, v) ==
    LET new == {i \in DOMAIN q : q[i] > v}
    IN [k \in 1 .. Cardinality(new) |->
            q[CHOOSE i \in new : Cardinality({j \in new : j <= i}) = k]]

\* Fault: replays the notice the client already has.
ReplayInclusive(sinceRV) == Newer(Window, sinceRV - 1)

\* replayLocked
Replay(sinceRV) == Newer(Window, sinceRV)

-----------------------------------------------------------------------------
Init ==
    /\ ring = [i \in 0 .. RingSize - 1 |-> 0]
    /\ next = 0
    /\ full = FALSE
    /\ floor = SealRV
    /\ subs = {}
    /\ chan = [s \in Subs |-> <<>>]
    /\ chClosed = [s \in Subs |-> FALSE]
    /\ closed = [s \in Subs |-> FALSE]
    /\ overflow = [s \in Subs |-> FALSE]
    /\ owner = [s \in Subs |-> "none"]
    /\ unsub = [a \in Agents |-> [s \in Subs |-> "out"]]
    /\ victims = {}
    /\ cutting = NoSub
    /\ rv = SealRV
    /\ log = <<>>
    /\ since = [s \in Subs |-> 0]
    /\ at = [s \in Subs |-> 0]
    /\ got = [s \in Subs |-> <<>>]

\* Nothing refers to the identity s: it can stand for a new *Subscription.
Fresh(s) ==
    /\ owner[s] = "none"
    /\ \A a \in Agents : unsub[a][s] = "out"
    /\ s \notin victims
    /\ s # cutting

\* Subscribe answers ErrTooOld (and registers nothing) exactly when
\* sinceRV > 0 /\ sinceRV < FloorLocked.
Accepts(sinceRV) == sinceRV > 0 => sinceRV >= FloorLocked

Subscribe(s, sinceRV) ==
    /\ Fresh(s)
    /\ Accepts(sinceRV)
    /\ subs' = subs \cup {s}
    /\ chan' = [chan EXCEPT ![s] = <<>>]
    /\ chClosed' = [chClosed EXCEPT ![s] = FALSE]
    /\ closed' = [closed EXCEPT ![s] = FALSE]
    /\ overflow' = [overflow EXCEPT ![s] = FALSE]
    /\ owner' = [owner EXCEPT ![s] = "open"]
    /\ since' = [since EXCEPT ![s] = sinceRV]
    /\ at' = [at EXCEPT ![s] = Len(log)]
    /\ got' = [got EXCEPT ![s] = IF sinceRV > 0 THEN Replay(sinceRV) ELSE <<>>]
    /\ UNCHANGED <<ringVars, unsub, victims, cutting, log>>

\* Fault: the write slot does not wrap.
NextSlotUnwrapped == next + 1

NextSlot == IF next + 1 = RingSize THEN 0 ELSE next + 1

\* Broadcast: write the ring, then a non-blocking send to every subscriber.
Broadcast(n) ==
    /\ ring' = [ring EXCEPT ![next] = n]
    /\ next' = NextSlot
    /\ full' = (full \/ next + 1 = RingSize)
    /\ chan' = [s \in Subs |-> IF s \in subs /\ Len(chan[s]) < ChanCap
                               THEN Append(chan[s], n) ELSE chan[s]]
    /\ overflow' = [s \in Subs |-> overflow[s]
                               \/ (s \in subs /\ Len(chan[s]) >= ChanCap)]
    /\ log' = Append(log, n)
    /\ UNCHANGED <<floor, subs, chClosed, tearVars, histVars>>

\* The handler receives from s.C(): buffered notices first, even after close.
Receive(s) ==
    /\ owner[s] = "open"
    /\ chan[s] # <<>>
    /\ got' = [got EXCEPT ![s] = Append(@, Head(chan[s]))]
    /\ chan' = [chan EXCEPT ![s] = Tail(@)]
    /\ UNCHANGED <<ringVars, subs, chClosed, overflow, tearVars, log,
                   since, at>>

\* The handler returns; its deferred Close enters unsubscribe.
Leave(s) ==
    /\ owner[s] = "open"
    /\ owner' = [owner EXCEPT ![s] = "left"]
    /\ UNCHANGED <<ringVars, subs, chanVars, closed, unsub, victims, cutting,
                   log, histVars>>

\* Agent a has called unsubscribe(s) and has not returned from it.
Calls(a, s) == IF a = Handler THEN owner[s] = "left" ELSE cutting = s

\* Agent a is done with s.
Return(a, s) ==
    IF a = Handler
    THEN owner' = [owner EXCEPT ![s] = "none"] /\ UNCHANGED cutting
    ELSE cutting' = NoSub /\ UNCHANGED owner

\* Fault: the flag is stored, not swapped, so a second caller goes on too.
SwapIgnored(a, s) ==
    /\ Calls(a, s)
    /\ unsub[a][s] = "out"
    /\ closed' = [closed EXCEPT ![s] = TRUE]
    /\ unsub' = [unsub EXCEPT ![a][s] = "swapped"]
    /\ UNCHANGED <<ringVars, subs, chanVars, owner, cutting, victims, log,
                   histVars>>

\* Fault: the first caller takes the early return.
SwapInverted(a, s) ==
    /\ Calls(a, s)
    /\ unsub[a][s] = "out"
    /\ closed' = [closed EXCEPT ![s] = TRUE]
    /\ Return(a, s)
    /\ UNCHANGED <<ringVars, subs, chanVars, unsub, victims, log, histVars>>

\* if s.closed.Swap(true) { return }
Swap(a, s) ==
    /\ Calls(a, s)
    /\ unsub[a][s] = "out"
    /\ IF closed[s]
       THEN Return(a, s) /\ UNCHANGED <<closed, unsub>>
       ELSE /\ closed' = [closed EXCEPT ![s] = TRUE]
            /\ unsub' = [unsub EXCEPT ![a][s] = "swapped"]
            /\ UNCHANGED <<owner, cutting>>
    /\ UNCHANGED <<ringVars, subs, chanVars, victims, log, histVars>>

\* h.mu.Lock(); delete(h.subs, s); h.mu.Unlock()
Remove(a, s) ==
    /\ unsub[a][s] = "swapped"
    /\ unsub' = [unsub EXCEPT ![a][s] = "removed"]
    /\ subs' = subs \ {s}
    /\ UNCHANGED <<ringVars, chanVars, closed, owner, victims, cutting, log,
                   histVars>>

\* close(s.ch)
CloseChan(a, s) ==
    /\ unsub[a][s] = "removed"
    /\ unsub' = [unsub EXCEPT ![a][s] = "out"]
    /\ chClosed' = [chClosed EXCEPT ![s] = TRUE]
    /\ Return(a, s)
    /\ UNCHANGED <<ringVars, subs, chan, overflow, closed, victims, log,
                   histVars>>

\* DisconnectAll, first half: copy the registered subscriptions.
DisconnectAll ==
    /\ victims = {} /\ cutting = NoSub
    /\ subs # {}
    /\ victims' = subs
    /\ UNCHANGED <<ringVars, subs, chanVars, closed, owner, unsub, cutting,
                   log, histVars>>

\* DisconnectAll, loop body: mark one of them and enter unsubscribe.
Cut(s) ==
    /\ s \in victims /\ cutting = NoSub
    /\ victims' = victims \ {s}
    /\ cutting' = s
    /\ overflow' = [overflow EXCEPT ![s] = TRUE]
    /\ UNCHANGED <<ringVars, subs, chan, chClosed, closed, owner, unsub, log,
                   histVars>>

Unsubscribe(a, s) == Swap(a, s) \/ Remove(a, s) \/ CloseChan(a, s)

-----------------------------------------------------------------------------
\* One writer: each version is broadcast before the next one is assigned.
Publish ==
    /\ rv < MaxRV
    /\ rv' = rv + 1
    /\ Broadcast(rv + 1)

\* A write to another resource kind takes a version this hub never sees.
OtherKind ==
    /\ rv < MaxRV
    /\ rv' = rv + 1
    /\ UNCHANGED hubVars

Next ==
    \/ Publish
    \/ OtherKind
    \/ /\ \/ \E s \in Subs, sinceRV \in 0 .. rv : Subscribe(s, sinceRV)
          \/ \E s \in Subs : Receive(s)
          \/ \E s \in Subs : Leave(s)
          \/ DisconnectAll
          \/ \E s \in Subs : Cut(s)
          \/ \E a \in Agents, s \in Subs : Unsubscribe(a, s)
       /\ UNCHANGED rv

Spec == Init /\ [][Next]_vars

-----------------------------------------------------------------------------
(* Properties.                                                             *)

\* Types of the variables (got is a history built from the others).
TypeOK ==
    /\ ring \in [0 .. RingSize - 1 -> Nat]
    /\ next \in 0 .. RingSize - 1
    /\ full \in BOOLEAN
    /\ floor \in Nat
    /\ subs \subseteq Subs
    /\ chan \in [Subs -> Seq(Nat)]
    /\ chClosed \in [Subs -> BOOLEAN]
    /\ closed \in [Subs -> BOOLEAN]
    /\ overflow \in [Subs -> BOOLEAN]
    /\ owner \in [Subs -> {"none", "open", "left"}]
    /\ unsub \in [Agents -> [Subs -> {"out", "swapped", "removed"}]]
    /\ victims \subseteq Subs
    /\ cutting \in Subs \cup {NoSub}
    /\ rv \in Nat
    /\ log \in Seq(Nat)
    /\ since \in [Subs -> Nat]
    /\ at \in [Subs -> Nat]

\* The ring always holds the last notices broadcast, at the slots next and
\* full say, across any number of wraps.
RingIsLogTail ==
    /\ Count <= Len(log)
    /\ full \/ Count = Len(log)
    /\ \A i \in 1 .. Count : Window[i] = log[Len(log) - Count + i]

\* The replay guarantee (watch.go 35-36, README 38-40): whenever Subscribe
\* accepts a version, every notice ever broadcast that is newer than it is
\* still in the ring, so the replay misses nothing.
ResumeCovered ==
    \A r \in 1 .. rv : Accepts(r) =>
        \A i \in 1 .. Len(log) : log[i] > r =>
            \E j \in 1 .. Count : Window[j] = log[i]

\* What the hub owes s: the notices newer than the version it resumed from,
\* then every notice broadcast since it subscribed.
Owed(s) ==
    (IF since[s] = 0 THEN <<>>
     ELSE Newer(SubSeq(log, 1, at[s]), since[s]))
    \o SubSeq(log, at[s] + 1, Len(log))

\* A registered subscription whose overflow flag is down has been handed, or
\* has buffered, exactly what it is owed: in order, once each, none missing.
NoSilentGap ==
    \A s \in subs : ~overflow[s] => got[s] \o chan[s] = Owed(s)

\* Broadcast sends to every registered subscription: none of them may have a
\* closed channel (Go panics on a send to a closed channel, watch.go:147-154).
NoSendOnClosed == \A s \in subs : ~chClosed[s]

\* Two goroutines may race to unsubscribe the same subscription: at most one
\* gets to close(s.ch), and only while it is open (a second close panics).
NoDoubleClose ==
    \A s \in Subs :
        /\ \A a \in Agents : unsub[a][s] # "out" => ~chClosed[s]
        /\ ~ \A a \in Agents : unsub[a][s] # "out"

\* Whatever the interleaving of a broadcast, the handler that leaves and watch
\* churn (watch.go:126-180), neither of the two panics is reached.
TearDownIsSafe == NoSendOnClosed /\ NoDoubleClose

\* Once an agent has won the closed flag of a subscription, the subscription
\* leaves the hub and its channel is closed, so the reader cannot hang.
ClosedIsTornDown ==
    \A s \in Subs : closed[s] ~> (s \notin subs /\ chClosed[s])

Feed == INSTANCE WatchFeed WITH
    Streams  <- Subs,
    Versions <- 0 .. SealRV + MaxRV,
    on       <- subs,
    due      <- chan,
    sent     <- got,
    broken   <- overflow

\* The replay guarantee (watch.go:35-36, README.md:38-40) and the rest of what
\* the hub promises: with its ring that forgets, its channels that fill up and
\* its tear-downs, it is one log that every stream is handed from the version it
\* asked for on, whenever that version is accepted, until its overflow flag is
\* raised.
ImplementsFeed == Feed!FeedSpec
=============================================================================
