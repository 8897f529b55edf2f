---------------------------- MODULE WatchHubProofs ----------------------------
(***************************************************************************)
(* Proofs about WatchHub, for every ring size, channel capacity and set of *)
(* subscriptions: its types, the contents of the replay ring, the replay   *)
(* guarantee under one writer, and that no two goroutines can make Go      *)
(* panic on a subscription's channel.                                      *)
(***************************************************************************)
EXTENDS WatchHub, FiniteSetTheorems, SequenceTheorems, WellFoundedInduction, TLAPS

-----------------------------------------------------------------------------
(* The inductive invariant, in named parts.                                *)

\* Slot i of the ring, counted from the end of the log without the modulo.
RingInv ==
    /\ ~full => /\ Len(log) = next
                /\ \A i \in 0 .. next - 1 : ring[i] = log[i + 1]
    /\ full => /\ Len(log) >= RingSize
               /\ \A i \in 0 .. RingSize - 1 :
                    ring[i] = IF i < next
                              THEN log[Len(log) - next + i + 1]
                              ELSE log[Len(log) - next - RingSize + i + 1]

\* The log is in version order and past the seal.
LogInv ==
    /\ floor = SealRV
    /\ \A i \in 1 .. Len(log) : SealRV < log[i]
    /\ \A i, j \in 1 .. Len(log) : i < j => log[i] < log[j]

\* Under one writer it is, and the counter is never behind it.
OrderInv ==
    /\ LogInv
    /\ SealRV <= rv
    /\ \A i \in 1 .. Len(log) : log[i] <= rv

\* What a subscription was handed is a sequence of versions, and what it is
\* owed is counted from a place in the log.
GotInv == got \in [Subs -> Seq(Nat)] /\ \A s \in Subs : at[s] <= Len(log)

\* Who may still touch the channel of a subscription.
TearInv ==
    \A s \in Subs :
        /\ s \in subs => ~chClosed[s]
        /\ chClosed[s] => closed[s]
        /\ \A a \in Agents :
            /\ unsub[a][s] # "out" => closed[s] /\ ~chClosed[s]
            /\ unsub[a][s] = "removed" => s \notin subs
        /\ unsub[Handler][s] = "out" \/ unsub[Churner][s] = "out"

-----------------------------------------------------------------------------
(* Lemmas.                                                                 *)

\* A slot number below twice the ring size wraps at most once.
LEMMA WrapOnce ==
    ASSUME NEW N \in Nat \ {0}, NEW a \in 0 .. 2 * N - 1
    PROVE  a % N = IF a < N THEN a ELSE a - N
  OBVIOUS

\* The window, read from its start, is the tail of the log.
LEMMA WindowIsTail ==
    ASSUME TypeOK, RingInv, NEW i \in 1 .. Count
    PROVE  /\ Count <= Len(log)
           /\ Window[i] = log[Len(log) - Count + i]
<1>1. RingSize \in Nat \ {0} /\ next \in 0 .. RingSize - 1 /\ full \in BOOLEAN
  BY WatchHubAssumption DEF TypeOK
<1>2. Len(log) \in Nat
  BY DEF TypeOK
<1>3. Window[i] = ring[(Start + i - 1) % RingSize]
  BY DEF Window
<1>4. CASE ~full
  <2>1. Start = 0 /\ Count = next
    BY <1>4 DEF Start, Count
  <2>2. i - 1 \in 0 .. next - 1 /\ i - 1 \in 0 .. 2 * RingSize - 1
    BY <1>1, <2>1
  <2>3. (Start + i - 1) % RingSize = i - 1
    <3> DEFINE k == i - 1
    <3>1. k \in 0 .. 2 * RingSize - 1 /\ k < RingSize
      BY <1>1, <2>2
    <3> HIDE DEF k
    <3>2. k % RingSize = k
      BY <1>1, <3>1, WrapOnce
    <3>3. Start + i - 1 = k
      BY <2>1, <2>2 DEF k
    <3> QED
      BY <3>2, <3>3 DEF k
  <2> QED
    BY <1>1, <1>2, <1>3, <1>4, <2>1, <2>2, <2>3 DEF RingInv
<1>5. CASE full
  <2>1. Start = next /\ Count = RingSize
    BY <1>5 DEF Start, Count
  <2>2. next + i - 1 \in 0 .. 2 * RingSize - 1
    BY <1>1, <2>1
  <2>3. (Start + i - 1) % RingSize
          = IF next + i - 1 < RingSize THEN next + i - 1
            ELSE next + i - 1 - RingSize
    <3>1. PICK k \in 0 .. 2 * RingSize - 1 : k = next + i - 1
      BY <2>2
    <3>2. k % RingSize = IF k < RingSize THEN k ELSE k - RingSize
      BY <1>1, WrapOnce
    <3>3. (Start + i - 1) % RingSize = k % RingSize
      BY <2>1, <3>1
    <3> QED
      BY <1>1, <2>1, <3>1, <3>2, <3>3
  <2>4. /\ Len(log) >= RingSize
        /\ \A k \in 0 .. RingSize - 1 :
             ring[k] = IF k < next THEN log[Len(log) - next + k + 1]
                       ELSE log[Len(log) - next - RingSize + k + 1]
    BY <1>5 DEF RingInv
  <2>5. CASE next + i - 1 < RingSize
    BY <1>1, <1>2, <1>3, <2>1, <2>2, <2>3, <2>4, <2>5
  <2>6. CASE ~(next + i - 1 < RingSize)
    BY <1>1, <1>2, <1>3, <2>1, <2>2, <2>3, <2>4, <2>6
  <2> QED
    BY <2>5, <2>6
<1> QED
  BY <1>1, <1>4, <1>5

\* RingInv says what RingIsLogTail says.
LEMMA RingInvSuffices ==
    ASSUME TypeOK, RingInv
    PROVE  RingIsLogTail
<1>1. Count <= Len(log)
  BY WatchHubAssumption DEF TypeOK, RingInv, Count
<1>2. full \/ Count = Len(log)
  BY DEF RingInv, Count
<1> QED
  BY <1>1, <1>2, WindowIsTail DEF RingIsLogTail

\* In version order, an accepted version reaches back to the window's start.
LEMMA AcceptedReachesBack ==
    ASSUME TypeOK, RingInv, LogInv, NEW r \in Nat \ {0}, Accepts(r),
           NEW i \in 1 .. Len(log), log[i] > r
    PROVE  i > Len(log) - Count
<1>1. /\ RingSize \in Nat \ {0} /\ next \in 0 .. RingSize - 1
      /\ full \in BOOLEAN /\ Len(log) \in Nat /\ SealRV \in Nat
      /\ \A k \in 1 .. Len(log) : log[k] \in Nat
  BY WatchHubAssumption DEF TypeOK
<1>2. CASE ~full
  BY <1>1, <1>2 DEF RingInv, Count
<1>3. CASE full
  <2>1. /\ Count = RingSize /\ Len(log) >= RingSize
        /\ ring[next] = log[Len(log) - RingSize + 1]
    BY <1>1, <1>3 DEF RingInv, Count
  <2>2. Len(log) - RingSize + 1 \in 1 .. Len(log)
    BY <1>1, <2>1
  <2>3. ring[next] \in Nat /\ ring[next] > SealRV
    BY <1>1, <2>1, <2>2 DEF LogInv
  <2>4. r >= ring[next] - 1
    BY <1>1, <1>3, <2>3 DEF Accepts, FloorLocked
  <2>5. log[i] >= log[Len(log) - RingSize + 1]
    BY <1>1, <2>1, <2>3, <2>4
  <2>6. i >= Len(log) - RingSize + 1
    BY <1>1, <2>2, <2>5 DEF LogInv
  <2> QED
    BY <1>1, <2>1, <2>6
<1> QED
  BY <1>1, <1>2, <1>3

\* So it has every newer notice.
LEMMA AcceptedIsCovered ==
    ASSUME TypeOK, RingInv, LogInv
    PROVE  ResumeCovered
<1> SUFFICES ASSUME NEW r \in 1 .. rv, Accepts(r),
                    NEW i \in 1 .. Len(log), log[i] > r
             PROVE  \E j \in 1 .. Count : Window[j] = log[i]
  BY DEF ResumeCovered
<1>1. Len(log) \in Nat /\ Count \in Nat /\ Count <= Len(log) /\ r \in Nat \ {0}
  BY WatchHubAssumption DEF TypeOK, RingInv, Count
<1>2. i > Len(log) - Count
  BY <1>1, AcceptedReachesBack
<1>3. i - (Len(log) - Count) \in 1 .. Count
  BY <1>1, <1>2
<1>4. Window[i - (Len(log) - Count)] = log[i]
  BY <1>1, <1>3, WindowIsTail
<1> QED
  BY <1>3, <1>4

-----------------------------------------------------------------------------
(* Types.                                                                  *)

\* The initial values have their types.
LEMMA InitTypes == Init => TypeOK
<1> SUFFICES ASSUME Init PROVE TypeOK
  OBVIOUS
<1>1. ring \in [0 .. RingSize - 1 -> Nat] /\ next \in 0 .. RingSize - 1
  BY WatchHubAssumption DEF Init
<1>2. unsub \in [Agents -> [Subs -> {"out", "swapped", "removed"}]]
  BY DEF Init
<1>3. floor \in Nat /\ rv \in Nat /\ log \in Seq(Nat)
  BY WatchHubAssumption DEF Init
<1> QED
  BY <1>1, <1>2, <1>3 DEF Init, TypeOK

\* Broadcasting a version keeps the types.
LEMMA BroadcastTypes ==
    ASSUME TypeOK, NEW n \in Nat, Broadcast(n), rv' \in Nat
    PROVE  TypeOK'
<1> USE WatchHubAssumption
<1>1. ring' \in [0 .. RingSize - 1 -> Nat] /\ next' \in 0 .. RingSize - 1
  BY DEF TypeOK, Broadcast, NextSlot
<1>2. full' \in BOOLEAN /\ floor' \in Nat /\ subs' \subseteq Subs
  BY DEF TypeOK, Broadcast
<1>3. chan' \in [Subs -> Seq(Nat)]
  BY DEF TypeOK, Broadcast
<1>4. overflow' \in [Subs -> BOOLEAN]
  BY DEF TypeOK, Broadcast
<1>5. log' \in Seq(Nat)
  BY DEF TypeOK, Broadcast
<1> QED
  BY <1>1, <1>2, <1>3, <1>4, <1>5
  DEF TypeOK, Broadcast, tearVars, histVars

\* No step takes a variable out of its type.
LEMMA NextTypes == TypeOK /\ [Next]_vars => TypeOK'
<1> SUFFICES ASSUME TypeOK, [Next]_vars
             PROVE  TypeOK'
  OBVIOUS
<1> USE WatchHubAssumption DEF TypeOK, ringVars, chanVars, tearVars, histVars
<1>1. CASE Publish
  <2>1. rv' \in Nat /\ rv + 1 \in Nat /\ Broadcast(rv + 1)
    BY <1>1 DEF Publish
  <2> HIDE DEF TypeOK
  <2> QED
    BY <2>1, BroadcastTypes
<1>2. CASE OtherKind
  BY <1>2 DEF OtherKind, hubVars
<1>3. ASSUME NEW s \in Subs, NEW r \in 0 .. rv, Subscribe(s, r), rv' = rv
      PROVE  TypeOK'
  BY <1>3 DEF Subscribe
<1>4. ASSUME NEW s \in Subs, Receive(s), rv' = rv
      PROVE  TypeOK'
  <2>1. chan'[s] \in Seq(Nat) /\ chan' = [chan EXCEPT ![s] = Tail(chan[s])]
    BY <1>4, chan[s] \in Seq(Nat), chan[s] # <<>> DEF Receive
  <2>2. chan' \in [Subs -> Seq(Nat)]
    BY <2>1
  <2> QED
    BY <1>4, <2>2 DEF Receive
<1>5. ASSUME NEW s \in Subs, Leave(s), rv' = rv
      PROVE  TypeOK'
  BY <1>5 DEF Leave
<1>6. CASE DisconnectAll /\ rv' = rv
  BY <1>6 DEF DisconnectAll
<1>7. ASSUME NEW s \in Subs, Cut(s), rv' = rv
      PROVE  TypeOK'
  BY <1>7 DEF Cut
<1>8. ASSUME NEW a \in Agents, NEW s \in Subs, Swap(a, s), rv' = rv
      PROVE  TypeOK'
  <2>1. owner' \in [Subs -> {"none", "open", "left"}]
    BY <1>8 DEF Swap, Return
  <2>2. cutting' \in Subs \cup {NoSub}
    BY <1>8 DEF Swap, Return
  <2>3. closed' \in [Subs -> BOOLEAN]
    BY <1>8 DEF Swap
  <2>4. unsub' \in [Agents -> [Subs -> {"out", "swapped", "removed"}]]
    <3>1. CASE unsub' = unsub
      BY <3>1
    <3>2. CASE unsub' = [unsub EXCEPT ![a][s] = "swapped"]
      BY <3>2
    <3> QED
      BY <1>8, <3>1, <3>2 DEF Swap
  <2> QED
    BY <1>8, <2>1, <2>2, <2>3, <2>4 DEF Swap
<1>9. ASSUME NEW a \in Agents, NEW s \in Subs, Remove(a, s), rv' = rv
      PROVE  TypeOK'
  BY <1>9 DEF Remove
<1>10. ASSUME NEW a \in Agents, NEW s \in Subs, CloseChan(a, s), rv' = rv
       PROVE  TypeOK'
  BY <1>10 DEF CloseChan, Return
<1>11. CASE UNCHANGED vars
  BY <1>11 DEF vars, hubVars
<1> QED
  BY <1>1, <1>2, <1>3, <1>4, <1>5, <1>6, <1>7, <1>8, <1>9, <1>10, <1>11
  DEF Next, Unsubscribe

\* The variables keep their types.
THEOREM TypeCorrect == Spec => []TypeOK
  BY InitTypes, NextTypes, PTL DEF Spec

-----------------------------------------------------------------------------
(* The ring and the log.                                                   *)

\* Broadcast is the only writer of the ring: it keeps the slot arithmetic.
LEMMA BroadcastRing ==
    ASSUME TypeOK, RingInv, NEW n \in Nat, Broadcast(n)
    PROVE  RingInv'
<1>1. /\ RingSize \in Nat \ {0} /\ next \in 0 .. RingSize - 1
      /\ full \in BOOLEAN /\ Len(log) \in Nat /\ log \in Seq(Nat)
      /\ ring \in [0 .. RingSize - 1 -> Nat]
  BY WatchHubAssumption DEF TypeOK
<1>2. /\ ring' = [ring EXCEPT ![next] = n]
      /\ next' = IF next + 1 = RingSize THEN 0 ELSE next + 1
      /\ full' = (full \/ next + 1 = RingSize)
      /\ log' = Append(log, n)
  BY DEF Broadcast, NextSlot
<1>3. /\ Len(log') = Len(log) + 1
      /\ log'[Len(log) + 1] = n
      /\ \A i \in 1 .. Len(log) : log'[i] = log[i]
  BY <1>1, <1>2
<1>4. /\ ring'[next] = n
      /\ \A i \in 0 .. RingSize - 1 : i # next => ring'[i] = ring[i]
  BY <1>1, <1>2
<1>5. CASE ~full /\ next + 1 # RingSize
  BY <1>1, <1>2, <1>3, <1>4, <1>5 DEF RingInv
<1>6. CASE ~full /\ next + 1 = RingSize
  <2>1. full' /\ next' = 0 /\ Len(log) = next /\ Len(log') = RingSize
    BY <1>1, <1>2, <1>3, <1>6 DEF RingInv
  <2>2. \A i \in 0 .. RingSize - 1 : ring'[i] = log'[i + 1]
    BY <1>1, <1>3, <1>4, <1>6, <2>1 DEF RingInv
  <2>3. \A i \in 0 .. RingSize - 1 : Len(log') - 0 - RingSize + i + 1 = i + 1
    BY <1>1, <2>1
  <2>4. \A i \in 0 .. RingSize - 1 :
          ring'[i] = log'[Len(log') - next' - RingSize + i + 1]
    BY <2>1, <2>2, <2>3
  <2>5. \A i \in 0 .. RingSize - 1 : ~(i < next')
    BY <1>1, <2>1
  <2> QED
    BY <1>1, <2>1, <2>4, <2>5 DEF RingInv
<1>7. CASE full /\ next + 1 # RingSize
  <2>1. full' /\ next' = next + 1 /\ Len(log) >= RingSize
    BY <1>1, <1>2, <1>7 DEF RingInv
  <2> SUFFICES ASSUME NEW i \in 0 .. RingSize - 1
               PROVE  ring'[i] = IF i < next + 1
                        THEN log'[Len(log') - (next + 1) + i + 1]
                        ELSE log'[Len(log') - (next + 1) - RingSize + i + 1]
    BY <1>1, <1>3, <2>1 DEF RingInv
  <2>2. ring[i] = IF i < next THEN log[Len(log) - next + i + 1]
                  ELSE log[Len(log) - next - RingSize + i + 1]
    BY <1>7 DEF RingInv
  <2>3. CASE i < next
    <3>1. Len(log) - next + i + 1 \in 1 .. Len(log)
      BY <1>1, <2>1, <2>3
    <3>2. Len(log') - (next + 1) + i + 1 = Len(log) - next + i + 1
      BY <1>1, <1>3
    <3>3. ring'[i] = log[Len(log) - next + i + 1] /\ i < next + 1
      BY <1>1, <1>4, <2>2, <2>3
    <3> QED
      BY <1>3, <3>1, <3>2, <3>3
  <2>4. CASE i = next
    BY <1>1, <1>3, <1>4, <2>1, <2>4
  <2>5. CASE i > next
    <3>1. Len(log) - next - RingSize + i + 1 \in 1 .. Len(log)
      BY <1>1, <2>1, <2>5
    <3>2. Len(log') - (next + 1) - RingSize + i + 1
            = Len(log) - next - RingSize + i + 1
      BY <1>1, <1>3
    <3>3. ring'[i] = log[Len(log) - next - RingSize + i + 1] /\ ~(i < next + 1)
      BY <1>1, <1>4, <2>2, <2>5
    <3> QED
      BY <1>3, <3>1, <3>2, <3>3
  <2> QED
    BY <1>1, <2>3, <2>4, <2>5
<1>8. CASE full /\ next + 1 = RingSize
  <2>1. full' /\ next' = 0 /\ Len(log) >= RingSize
    BY <1>1, <1>2, <1>8 DEF RingInv
  <2> SUFFICES ASSUME NEW i \in 0 .. RingSize - 1
               PROVE  ring'[i] = log'[Len(log') - RingSize + i + 1]
    BY <1>1, <1>3, <2>1 DEF RingInv
  <2>2. ring[i] = IF i < next THEN log[Len(log) - next + i + 1]
                  ELSE log[Len(log) - next - RingSize + i + 1]
    BY <1>8 DEF RingInv
  <2>3. CASE i < next
    <3>1. Len(log) - next + i + 1 \in 1 .. Len(log)
      BY <1>1, <2>1, <2>3
    <3>2. Len(log') - RingSize + i + 1 = Len(log) - next + i + 1
      <4>1. /\ Len(log) \in Nat /\ Len(log') = Len(log) + 1
            /\ next \in Nat /\ RingSize = next + 1
        BY <1>1, <1>3, <1>8
      <4> QED
        BY <4>1
    <3>3. ring'[i] = log[Len(log) - next + i + 1]
      BY <1>1, <1>4, <2>2, <2>3
    <3> QED
      BY <1>3, <3>1, <3>2, <3>3
  <2>4. CASE i = next
    <3>1. i = RingSize - 1
      BY <1>1, <1>8, <2>4
    <3>2. Len(log') - RingSize + i + 1 = Len(log) + 1
      BY <1>1, <1>3, <3>1
    <3> QED
      BY <1>3, <1>4, <2>4, <3>2
  <2> QED
    BY <1>1, <1>8, <2>3, <2>4
<1> QED
  BY <1>1, <1>5, <1>6, <1>7, <1>8

\* A new highest version keeps the log in order.
LEMMA PublishOrder ==
    ASSUME TypeOK, OrderInv, Publish
    PROVE  OrderInv'
<1>1. /\ log \in Seq(Nat) /\ Len(log) \in Nat /\ rv \in Nat /\ SealRV \in Nat
      /\ \A i \in 1 .. Len(log) : log[i] \in Nat
  BY WatchHubAssumption DEF TypeOK
<1>2. rv' = rv + 1 /\ log' = Append(log, rv + 1) /\ floor' = floor
  BY DEF Publish, Broadcast
<1>3. /\ Len(log') = Len(log) + 1
      /\ log'[Len(log) + 1] = rv + 1
      /\ \A i \in 1 .. Len(log) : log'[i] = log[i]
  BY <1>1, <1>2
<1>4. \A i \in 1 .. Len(log') : SealRV < log'[i] /\ log'[i] <= rv'
  BY <1>1, <1>2, <1>3 DEF OrderInv, LogInv
<1>5. ASSUME NEW i \in 1 .. Len(log'), NEW j \in 1 .. Len(log'), i < j
      PROVE  log'[i] < log'[j]
  <2>1. i \in 1 .. Len(log) /\ (j \in 1 .. Len(log) \/ j = Len(log) + 1)
    BY <1>1, <1>3, <1>5
  <2> QED
    BY <1>1, <1>3, <1>5, <2>1 DEF OrderInv, LogInv
<1> QED
  BY <1>1, <1>2, <1>4, <1>5 DEF OrderInv, LogInv

\* Every other step leaves the ring and the log alone.
LEMMA RingUntouched ==
    ASSUME [Next]_vars, ~Publish
    PROVE  UNCHANGED <<ringVars, log>> /\ (rv' = rv \/ OtherKind)
  BY DEF Next, OtherKind, Subscribe, Receive, Leave, DisconnectAll, Cut,
         Unsubscribe, Swap, Remove, CloseChan, vars, hubVars

\* A new hub has an empty ring and an empty log.
LEMMA InitRing == Init => RingInv
  BY DEF Init, RingInv

\* No step breaks the correspondence of ring and log.
LEMMA NextRing == TypeOK /\ RingInv /\ [Next]_vars => RingInv'
<1> SUFFICES ASSUME TypeOK, RingInv, [Next]_vars
             PROVE  RingInv'
  OBVIOUS
<1>1. CASE Publish
  <2>1. rv + 1 \in Nat /\ Broadcast(rv + 1)
    BY <1>1 DEF Publish, TypeOK
  <2> QED
    BY <2>1, BroadcastRing
<1>2. CASE ~Publish
  BY <1>2, RingUntouched DEF RingInv, ringVars
<1> QED
  BY <1>1, <1>2

\* One writer broadcasts every version above all earlier ones.
LEMMA NextOrder == TypeOK /\ OrderInv /\ [Next]_vars => OrderInv'
<1> SUFFICES ASSUME TypeOK, OrderInv, [Next]_vars
             PROVE  OrderInv'
  OBVIOUS
<1>1. CASE Publish
  BY <1>1, PublishOrder
<1>2. CASE ~Publish
  <2>1. UNCHANGED <<ringVars, log>> /\ (rv' = rv \/ rv' = rv + 1)
    BY <1>2, RingUntouched DEF OtherKind
  <2>2. rv \in Nat /\ SealRV \in Nat /\ \A i \in 1 .. Len(log) : log[i] \in Nat
    BY WatchHubAssumption DEF TypeOK
  <2> QED
    BY <2>1, <2>2 DEF OrderInv, LogInv, ringVars
<1> QED
  BY <1>1, <1>2

\* The empty log is ordered.
LEMMA InitOrder == Init => OrderInv
  BY WatchHubAssumption DEF Init, OrderInv, LogInv

\* The ring is the tail of everything broadcast, whatever its size.
THEOREM RingCorrect == Spec => []RingIsLogTail
<1>1. Spec => [](TypeOK /\ RingInv)
  BY InitTypes, NextTypes, InitRing, NextRing, PTL DEF Spec
<1>2. TypeOK /\ RingInv => RingIsLogTail
  BY RingInvSuffices
<1> QED
  BY <1>1, <1>2, PTL

\* The replay guarantee: an accepted resume misses no notice (one writer).
THEOREM ReplayComplete == Spec => []ResumeCovered
<1>1. Spec => [](TypeOK /\ RingInv /\ OrderInv)
  BY InitTypes, NextTypes, InitRing, NextRing, InitOrder, NextOrder, PTL
  DEF Spec
<1>2. TypeOK /\ RingInv /\ OrderInv => ResumeCovered
  BY AcceptedIsCovered DEF OrderInv
<1> QED
  BY <1>1, <1>2, PTL

-----------------------------------------------------------------------------
(* Tearing a subscription down.                                            *)

\* No subscription exists at first.
LEMMA InitTear == Init => TearInv
  BY DEF Init, TearInv, Agents

\* No interleaving of the two agents breaks the tear-down protocol.
LEMMA NextTear == TypeOK /\ TearInv /\ [Next]_vars => TearInv'
<1> SUFFICES ASSUME TypeOK, TearInv, [Next]_vars
             PROVE  TearInv'
  OBVIOUS
<1> DEFINE TearVars == <<subs, chClosed, closed, unsub>>
<1> USE DEF Agents, Handler, Churner
<1>1. CASE UNCHANGED TearVars
  BY <1>1 DEF TearInv
<1>2. ASSUME NEW s \in Subs, NEW r \in 0 .. rv, Subscribe(s, r)
      PROVE  TearInv'
  BY <1>2 DEF Subscribe, Fresh, TearInv, TypeOK
<1>3. ASSUME NEW a \in Agents, NEW s \in Subs, Swap(a, s)
      PROVE  TearInv'
  <2>1. CASE closed[s]
    BY <1>1, <1>3, <2>1 DEF Swap, chanVars
  <2>2. CASE ~closed[s]
    <3>1. /\ closed' = [closed EXCEPT ![s] = TRUE]
          /\ unsub' = [unsub EXCEPT ![a][s] = "swapped"]
          /\ UNCHANGED <<subs, chClosed>>
      BY <1>3, <2>2 DEF Swap, chanVars
    <3> QED
      BY <2>2, <3>1 DEF TearInv, TypeOK
  <2> QED
    BY <2>1, <2>2
<1>4. ASSUME NEW a \in Agents, NEW s \in Subs, Remove(a, s)
      PROVE  TearInv'
  BY <1>4 DEF Remove, TearInv, TypeOK, chanVars
<1>5. ASSUME NEW a \in Agents, NEW s \in Subs, CloseChan(a, s)
      PROVE  TearInv'
  BY <1>5 DEF CloseChan, TearInv, TypeOK
<1>6. CASE Publish \/ OtherKind
  BY <1>1, <1>6 DEF Publish, Broadcast, OtherKind, hubVars, tearVars, chanVars
<1>7. CASE \E s \in Subs : Receive(s) \/ Leave(s) \/ Cut(s)
  BY <1>1, <1>7 DEF Receive, Leave, Cut, tearVars, chanVars
<1>8. CASE DisconnectAll \/ UNCHANGED vars
  BY <1>1, <1>8 DEF DisconnectAll, vars, hubVars, tearVars, chanVars
<1> QED
  BY <1>2, <1>3, <1>4, <1>5, <1>6, <1>7, <1>8 DEF Next, Unsubscribe

\* The tear-down invariant holds in every state.
LEMMA TearAlways == Spec => []TearInv
  BY InitTypes, NextTypes, InitTear, NextTear, PTL DEF Spec

\* A broadcast never sends on a closed channel.
THEOREM SendsAreSafe == Spec => []NoSendOnClosed
<1>1. TearInv => (\A s \in Subs : s \in subs => ~chClosed[s])
  BY DEF TearInv
<1>2. TypeOK /\ TearInv => NoSendOnClosed
  BY <1>1 DEF NoSendOnClosed, TypeOK
<1> QED
  BY <1>2, TypeCorrect, TearAlways, PTL

\* The handler and the churn goroutine never both close a channel.
THEOREM CloseIsOnce == Spec => []NoDoubleClose
<1>1. TearInv => NoDoubleClose
  BY DEF TearInv, NoDoubleClose, Agents
<1> QED
  BY <1>1, TearAlways, PTL

\* No tear-down, by the handler or by churn, reaches either panic of a channel.
THEOREM TearDownAlwaysSafe == Spec => []TearDownIsSafe
<1>1. NoSendOnClosed /\ NoDoubleClose => TearDownIsSafe
  BY DEF TearDownIsSafe
<1> QED
  BY <1>1, SendsAreSafe, CloseIsOnce, PTL

-----------------------------------------------------------------------------
(* No gap in a stream that did not overflow.                               *)

\* A set of naturals that is not empty has a least element.
LEMMA LeastElement ==
    ASSUME NEW T \in SUBSET Nat, T # {}
    PROVE  \E m \in T : \A k \in T : m <= k
<1>1. \E m \in T : \A k \in T : ~ (<<k, m>> \in OpToRel(<, Nat))
  BY NatLessThanWellFounded, WFMin, Zenon
<1>2. PICK m \in T : \A k \in T : ~ (<<k, m>> \in OpToRel(<, Nat))
  BY <1>1
<1>3. ASSUME NEW k \in T
      PROVE  m <= k
  <2>1. ~ (k < m)
    BY <1>2, k \in Nat, m \in Nat DEF OpToRel
  <2> QED
    BY <2>1
<1> QED
  BY <1>3

\* Of an ordered sequence, the elements above v are a suffix.
LEMMA NewerIsSuffix ==
    ASSUME NEW q \in Seq(Nat), NEW v \in Nat,
           \A i, j \in 1 .. Len(q) : i < j => q[i] < q[j]
    PROVE  \E m \in 1 .. Len(q) + 1 :
              /\ \A i \in 1 .. Len(q) : q[i] > v <=> i >= m
              /\ Newer(q, v) = SubSeq(q, m, Len(q))
<1> DEFINE new == {i \in DOMAIN q : q[i] > v}
           Rank(i) == Cardinality({j \in new : j <= i})
<1>1. Len(q) \in Nat /\ DOMAIN q = 1 .. Len(q) /\ \A i \in 1 .. Len(q) : q[i] \in Nat
  OBVIOUS
<1>2. Newer(q, v) = [k \in 1 .. Cardinality(new) |-> q[CHOOSE i \in new : Rank(i) = k]]
  BY DEF Newer
<1>0. new = {i \in 1 .. Len(q) : q[i] > v} /\ new \in SUBSET Nat
  BY <1>1
<1> HIDE DEF new
<1>3. PICK m \in 1 .. Len(q) + 1 : new = m .. Len(q)
  <2>1. CASE new = {}
    <3>1. new = Len(q) + 1 .. Len(q)
      BY <1>0, <1>1, <2>1
    <3> QED
      BY <1>1, <3>1
  <2>2. CASE new # {}
    <3>1. PICK m \in new : \A k \in new : m <= k
      BY <2>2, <1>0, LeastElement
    <3>2. ASSUME NEW i \in m .. Len(q)
          PROVE  i \in new
      <4>1. i \in 1 .. Len(q) /\ m \in 1 .. Len(q) /\ q[m] > v
        BY <1>0, <1>1, <3>1, <3>2
      <4>2. q[m] <= q[i]
        BY <1>1, <3>2, <4>1
      <4> QED
        BY <1>0, <1>1, <4>1, <4>2
    <3>3. m \in 1 .. Len(q) /\ \A i \in new : i \in m .. Len(q)
      BY <1>0, <1>1, <3>1
    <3>4. new = m .. Len(q)
      BY <3>2, <3>3
    <3> QED
      BY <1>1, <3>3, <3>4
  <2> QED
    BY <2>1, <2>2
<1>4. \A i \in 1 .. Len(q) : q[i] > v <=> i >= m
  BY <1>0, <1>1, <1>3
<1>5. Cardinality(new) = Len(q) - m + 1
  <2>1. Cardinality(m .. Len(q)) = IF m > Len(q) THEN 0 ELSE Len(q) - m + 1
    BY <1>1, m \in Int, Len(q) \in Int, FS_Interval
  <2> QED
    BY <1>1, <1>3, <2>1
<1>6. ASSUME NEW k \in 1 .. Cardinality(new)
      PROVE  (CHOOSE i \in new : Rank(i) = k) = m + k - 1
  <2>1. ASSUME NEW i \in new
        PROVE  Rank(i) = i - m + 1
    <3>1. {j \in new : j <= i} = m .. i
      BY <1>1, <1>3
    <3>2. Cardinality(m .. i) = i - m + 1
      BY <1>1, <1>3, FS_Interval
    <3> QED
      BY <3>1, <3>2
  <2>2. m + k - 1 \in new /\ \A i \in new : Rank(i) = k => i = m + k - 1
    <3> HIDE DEF Rank
    <3> QED
      BY <1>1, <1>3, <1>5, <2>1
  <2>3. Rank(m + k - 1) = k
    <3> HIDE DEF Rank
    <3> QED
      BY <1>1, <1>3, <1>5, <2>1, <2>2
  <2> HIDE DEF Rank, new
  <2> QED
    BY <2>2, <2>3
<1>7. Newer(q, v) = [k \in 1 .. Len(q) - m + 1 |-> q[m + k - 1]]
  BY <1>2, <1>5, <1>6
<1>8. SubSeq(q, m, Len(q)) = [k \in 1 .. Len(q) - m + 1 |-> q[m + k - 1]]
  BY <1>1
<1> QED
  BY <1>4, <1>7, <1>8

\* A log in order, restricted to the versions above v, is a sequence.
LEMMA NewerOfLog ==
    ASSUME TypeOK, LogInv, NEW n \in 0 .. Len(log), NEW v \in Nat
    PROVE  Newer(SubSeq(log, 1, n), v) \in Seq(Nat)
<1>1. log \in Seq(Nat) /\ Len(log) \in Nat
  BY DEF TypeOK
<1> DEFINE q == SubSeq(log, 1, n)
<1>2. q \in Seq(Nat) /\ Len(q) = n /\ \A i \in 1 .. n : q[i] = log[i]
  BY <1>1
<1>3. \A i, j \in 1 .. Len(q) : i < j => q[i] < q[j]
  BY <1>1, <1>2 DEF LogInv
<1> HIDE DEF q
<1>4. PICK m \in 1 .. Len(q) + 1 : Newer(q, v) = SubSeq(q, m, Len(q))
  BY <1>2, <1>3, NewerIsSuffix
<1>5. SubSeq(q, m, Len(q)) \in Seq(Nat)
  BY <1>2
<1> QED
  BY <1>4, <1>5 DEF q

\* The replay of an accepted version is every newer notice there ever was.
LEMMA ReplayIsExact ==
    ASSUME TypeOK, RingInv, LogInv, NEW r \in Nat \ {0}, Accepts(r)
    PROVE  /\ Replay(r) = Newer(log, r)
           /\ Replay(r) \in Seq(Nat)
<1>1. /\ log \in Seq(Nat) /\ Len(log) \in Nat /\ \A i \in 1 .. Len(log) : log[i] \in Nat
      /\ Count \in Nat /\ Count <= Len(log)
  BY WatchHubAssumption DEF TypeOK, RingInv, Count
<1> DEFINE d == Len(log) - Count
           w == Window
<1>2. d \in Nat /\ d + Count = Len(log)
  BY <1>1
<1>3. \A i \in 1 .. Count : w[i] = log[d + i]
  BY <1>1, WindowIsTail
<1>4. w \in Seq(Nat) /\ Len(w) = Count
  <2>1. w = [i \in 1 .. Count |-> w[i]]
    BY DEF Window
  <2>2. \A i \in 1 .. Count : w[i] \in Nat
    BY <1>1, <1>2, <1>3
  <2>3. w \in [1 .. Count -> Nat]
    <3> HIDE DEF w
    <3> QED
      BY <2>1, <2>2
  <2> HIDE DEF w
  <2> QED
    BY <1>1, <2>3
<1> HIDE DEF w
<1>5. ASSUME NEW i \in 1 .. Len(w), NEW j \in 1 .. Len(w), i < j
      PROVE  w[i] < w[j]
  <2>1. d + i \in 1 .. Len(log) /\ d + j \in 1 .. Len(log) /\ d + i < d + j
    BY <1>1, <1>2, <1>4, <1>5
  <2>2. log[d + i] < log[d + j]
    BY <2>1 DEF LogInv
  <2> QED
    BY <1>3, <1>4, <2>2
<1>6. PICK m \in 1 .. Len(log) + 1 :
        /\ \A i \in 1 .. Len(log) : log[i] > r <=> i >= m
        /\ Newer(log, r) = SubSeq(log, m, Len(log))
  BY <1>1, NewerIsSuffix DEF LogInv
<1>7. PICK k \in 1 .. Len(w) + 1 :
        /\ \A i \in 1 .. Len(w) : w[i] > r <=> i >= k
        /\ Newer(w, r) = SubSeq(w, k, Len(w))
  BY <1>4, <1>5, NewerIsSuffix
<1>8. m > d
  <2>1. CASE m = Len(log) + 1
    BY <1>1, <1>2, <2>1
  <2>2. CASE m \in 1 .. Len(log)
    BY <1>1, <1>6, <2>2, AcceptedReachesBack
  <2> QED
    BY <1>1, <2>1, <2>2
<1>9. k = m - d
  <2>1. ASSUME NEW i \in 1 .. Count
        PROVE  i >= k <=> d + i >= m
    <3>1. d + i \in 1 .. Len(log)
      BY <1>1, <1>2
    <3> QED
      BY <1>3, <1>4, <1>6, <1>7, <3>1
  <2>2. m - d \in 1 .. Count + 1
    BY <1>1, <1>2, <1>8
  <2>3. k \in 1 .. Count + 1
    BY <1>4
  <2> HIDE DEF d
  <2>4. ASSUME k < m - d
        PROVE  FALSE
    <3>1. k \in 1 .. Count
      BY <1>1, <1>2, <2>2, <2>3, <2>4
    <3>2. d + k >= m
      BY <1>1, <2>1, <3>1
    <3> QED
      BY <1>1, <1>2, <2>3, <2>4, <3>2
  <2>5. ASSUME k > m - d
        PROVE  FALSE
    <3>1. m - d \in 1 .. Count
      BY <1>1, <1>2, <2>2, <2>3, <2>5
    <3>2. ~ (m - d >= k) /\ d + (m - d) >= m
      BY <1>1, <1>2, <2>3, <2>5, <3>1
    <3> QED
      BY <2>1, <3>1, <3>2
  <2> QED
    BY <1>1, <1>2, <2>2, <2>3, <2>4, <2>5
<1>10. SubSeq(w, k, Len(w)) = SubSeq(log, m, Len(log))
  <2>1. SubSeq(w, k, Len(w)) = [i \in 1 .. Len(w) - k + 1 |-> w[k + i - 1]]
    BY <1>4
  <2>2. SubSeq(log, m, Len(log)) = [i \in 1 .. Len(log) - m + 1 |-> log[m + i - 1]]
    BY <1>1
  <2>3. Len(w) - k + 1 = Len(log) - m + 1
    BY <1>1, <1>2, <1>4, <1>9
  <2>4. \A i \in 1 .. Len(w) - k + 1 : w[k + i - 1] = log[m + i - 1]
    <3> TAKE i \in 1 .. Len(w) - k + 1
    <3>1. k + i - 1 \in 1 .. Count /\ d + (k + i - 1) = m + i - 1
      BY <1>1, <1>2, <1>4, <1>9
    <3> QED
      BY <1>3, <3>1
  <2> QED
    BY <2>1, <2>2, <2>3, <2>4
<1>11. SubSeq(log, m, Len(log)) \in Seq(Nat)
  BY <1>1
<1> QED
  BY <1>6, <1>7, <1>10, <1>11 DEF Replay, w

\* Moving the first of Y behind X, or appending behind Y, and then joining them.
LEMMA JoinSequences ==
    ASSUME NEW X \in Seq(Nat), NEW Y \in Seq(Nat), NEW n \in Nat
    PROVE  /\ X \o Append(Y, n) = Append(X \o Y, n)
           /\ Y # <<>> => Append(X, Head(Y)) \o Tail(Y) = X \o Y
<1>1. X \o Append(Y, n) = Append(X \o Y, n)
  OBVIOUS
<1>2. ASSUME Y # <<>>
      PROVE  Append(X, Head(Y)) \o Tail(Y) = X \o Y
  <2>1. Len(Y) \in Nat \ {0} /\ Len(X) \in Nat /\ Head(Y) = Y[1] /\ Head(Y) \in Nat
    BY <1>2
  <2>2. Tail(Y) \in Seq(Nat) /\ Len(Tail(Y)) = Len(Y) - 1
        /\ \A k \in 1 .. Len(Tail(Y)) : Tail(Y)[k] = Y[k + 1]
    BY <1>2, HeadTailProperties
  <2> DEFINE A == Append(X, Head(Y))
             T == Tail(Y)
             L == A \o T
             R == X \o Y
  <2>3. A \in Seq(Nat) /\ Len(A) = Len(X) + 1 /\ A[Len(X) + 1] = Y[1]
        /\ \A k \in 1 .. Len(X) : A[k] = X[k]
    BY <2>1
  <2>4. /\ L \in Seq(Nat) /\ Len(L) = Len(A) + Len(T)
        /\ \A k \in 1 .. Len(A) + Len(T) : L[k] = IF k <= Len(A) THEN A[k] ELSE T[k - Len(A)]
    <3> HIDE DEF A
    <3> QED
      BY <2>2, <2>3, ConcatProperties
  <2>5. /\ R \in Seq(Nat) /\ Len(R) = Len(X) + Len(Y)
        /\ \A k \in 1 .. Len(X) + Len(Y) : R[k] = IF k <= Len(X) THEN X[k] ELSE Y[k - Len(X)]
    BY ConcatProperties
  <2>0. Len(T) = Len(Y) - 1 /\ \A k \in 1 .. Len(T) : T[k] = Y[k + 1]
    BY <2>2
  <2> HIDE DEF A, T, L, R
  <2>6. Len(L) = Len(R)
    BY <2>0, <2>1, <2>3, <2>4, <2>5
  <2>7. ASSUME NEW k \in 1 .. Len(L)
        PROVE  L[k] = R[k]
    <3>0. /\ k \in 1 .. Len(X) + Len(Y) /\ k \in 1 .. Len(A) + Len(T)
          /\ k \in Nat /\ Len(Y) \in Nat /\ Len(A) = Len(X) + 1
      BY <2>1, <2>3, <2>4, <2>5, <2>6
    <3>4. /\ L[k] = IF k <= Len(A) THEN A[k] ELSE T[k - Len(A)]
          /\ R[k] = IF k <= Len(X) THEN X[k] ELSE Y[k - Len(X)]
      BY <2>4, <2>5, <3>0
    <3>1. CASE k <= Len(X)
      <4>1. k \in 1 .. Len(X) /\ k <= Len(A)
        BY <2>1, <3>0, <3>1
      <4> QED
        BY <2>3, <3>1, <3>4, <4>1
    <3>2. CASE k = Len(X) + 1
      <4>1. k <= Len(A) /\ ~ (k <= Len(X)) /\ k - Len(X) = 1 /\ k = Len(X) + 1
        BY <2>1, <3>0, <3>2
      <4> QED
        BY <2>3, <3>4, <4>1
    <3>3. CASE k > Len(X) + 1
      <4>1. ~ (k <= Len(A)) /\ ~ (k <= Len(X))
        BY <2>1, <3>0, <3>3
      <4>2. k - Len(A) \in 1 .. Len(T) /\ (k - Len(A)) + 1 = k - Len(X)
        BY <2>0, <2>1, <3>0, <3>3
      <4>3. T[k - Len(A)] = Y[k - Len(X)]
        BY <2>0, <4>2
      <4> QED
        BY <3>4, <4>1, <4>3
    <3> QED
      BY <2>1, <3>0, <3>1, <3>2, <3>3
  <2>8. L = R
    BY <2>4, <2>5, <2>6, <2>7, SeqEqual
  <2> QED
    BY <2>8 DEF L, A, T, R
<1> QED
  BY <1>1, <1>2

\* A suffix of a sequence that grows at its end.
LEMMA SuffixGrows ==
    ASSUME NEW q \in Seq(Nat), NEW a \in 0 .. Len(q), NEW n \in Nat
    PROVE  SubSeq(Append(q, n), a + 1, Len(Append(q, n)))
                = Append(SubSeq(q, a + 1, Len(q)), n)
<1> DEFINE Q == Append(q, n)
<1>1. /\ Len(q) \in Nat /\ Q \in Seq(Nat) /\ Len(Q) = Len(q) + 1 /\ Q[Len(q) + 1] = n
      /\ \A i \in 1 .. Len(q) : Q[i] = q[i] /\ q[i] \in Nat
  OBVIOUS
<1> HIDE DEF Q
<1>2. SubSeq(Q, a + 1, Len(q) + 1) = SubSeq(Q, a + 1, Len(q)) \o <<n>>
  <2>1. a + 1 \in 1 .. Len(Q) /\ Len(q) + 1 \in a + 1 .. Len(Q)
    BY <1>1
  <2>2. SubSeq(Q, a + 1, Len(q) + 1)
          = SubSeq(Q, a + 1, (Len(q) + 1) - 1) \o <<Q[Len(q) + 1]>>
    BY <1>1, <2>1, SubSeqRecursiveSecond
  <2>3. (Len(q) + 1) - 1 = Len(q)
    BY <1>1
  <2> QED
    BY <1>1, <2>2, <2>3
<1>3. SubSeq(Q, a + 1, Len(q)) = SubSeq(q, a + 1, Len(q))
  <2> DEFINE L == SubSeq(Q, a + 1, Len(q))
             R == SubSeq(q, a + 1, Len(q))
  <2>1. \A i \in a + 1 .. Len(q) : q[i] \in Nat /\ Q[i] \in Nat
    BY <1>1
  <2>2. /\ L \in Seq(Nat) /\ Len(L) = IF a + 1 <= Len(q) THEN Len(q) - (a + 1) + 1 ELSE 0
        /\ \A i \in 1 .. Len(q) - (a + 1) + 1 : L[i] = Q[a + 1 + i - 1]
    BY <1>1, <2>1, SubSeqProperties
  <2>3. /\ R \in Seq(Nat) /\ Len(R) = IF a + 1 <= Len(q) THEN Len(q) - (a + 1) + 1 ELSE 0
        /\ \A i \in 1 .. Len(q) - (a + 1) + 1 : R[i] = q[a + 1 + i - 1]
    BY <1>1, <2>1, SubSeqProperties
  <2> HIDE DEF L, R
  <2>4. ASSUME NEW i \in 1 .. Len(L)
        PROVE  L[i] = R[i]
    <3>1. i \in 1 .. Len(q) - (a + 1) + 1 /\ a + 1 + i - 1 \in 1 .. Len(q)
      BY <1>1, <2>2
    <3> QED
      BY <1>1, <2>2, <2>3, <3>1
  <2>5. L = R
    BY <2>2, <2>3, <2>4, SeqEqual
  <2> QED
    BY <2>5 DEF L, R
<1>4. SubSeq(q, a + 1, Len(q)) \o <<n>> = Append(SubSeq(q, a + 1, Len(q)), n)
  <2>1. SubSeq(q, a + 1, Len(q)) \in Seq(Nat)
    BY <1>1
  <2> QED
    BY <2>1, AppendIsConcat
<1> QED
  BY <1>1, <1>2, <1>3, <1>4 DEF Q

\* What the hub owes is a sequence.
LEMMA OwedIsSequence ==
    ASSUME TypeOK, LogInv, GotInv, NEW s \in Subs
    PROVE  Owed(s) \in Seq(Nat)
<1>1. log \in Seq(Nat) /\ Len(log) \in Nat /\ at[s] \in 0 .. Len(log) /\ since[s] \in Nat
  BY DEF TypeOK, GotInv
<1>2. SubSeq(log, at[s] + 1, Len(log)) \in Seq(Nat)
  BY <1>1
<1>3. Newer(SubSeq(log, 1, at[s]), since[s]) \in Seq(Nat)
  BY <1>1, NewerOfLog
<1> QED
  BY <1>2, <1>3 DEF Owed

\* A broadcast is buffered by whoever has room and flagged to whoever has not.
LEMMA BroadcastGap ==
    ASSUME TypeOK, LogInv, GotInv, NoSilentGap, NEW n \in Nat, Broadcast(n)
    PROVE  GotInv' /\ NoSilentGap'
<1>1. /\ log \in Seq(Nat) /\ Len(log) \in Nat
      /\ log' = Append(log, n) /\ Len(log') = Len(log) + 1
      /\ since' = since /\ at' = at /\ got' = got /\ subs' = subs /\ subs \subseteq Subs
  BY DEF TypeOK, Broadcast, histVars
<1>2. GotInv'
  BY <1>1 DEF GotInv, TypeOK
<1>3. ASSUME NEW s \in subs, ~ overflow'[s]
      PROVE  got'[s] \o chan'[s] = Owed(s)'
  <2>1. s \in Subs /\ ~ overflow[s] /\ chan'[s] = Append(chan[s], n)
    <3>1. s \in Subs
      BY <1>1
    <3>2. overflow'[s] = (overflow[s] \/ (s \in subs /\ Len(chan[s]) >= ChanCap))
      BY <3>1, Zenon DEF Broadcast
    <3>3. chan'[s] = IF s \in subs /\ Len(chan[s]) < ChanCap
                     THEN Append(chan[s], n) ELSE chan[s]
      BY <3>1, Zenon DEF Broadcast
    <3>4. ~ overflow[s] /\ ~ (Len(chan[s]) >= ChanCap)
      BY <1>3, <3>2
    <3>5. Len(chan[s]) \in Nat /\ ChanCap \in Nat
      BY <3>1, WatchHubAssumption DEF TypeOK
    <3> QED
      BY <3>1, <3>3, <3>4, <3>5
  <2>2. got[s] \in Seq(Nat) /\ chan[s] \in Seq(Nat) /\ at[s] \in 0 .. Len(log)
    BY <1>1, <2>1 DEF GotInv, TypeOK
  <2>3. got[s] \o chan[s] = Owed(s)
    BY <2>1 DEF NoSilentGap
  <2> DEFINE Replayed(q) == IF since[s] = 0 THEN <<>>
                            ELSE Newer(SubSeq(q, 1, at[s]), since[s])
             Sent(q) == SubSeq(q, at[s] + 1, Len(q))
  <2>4. Owed(s) = Replayed(log) \o Sent(log)
        /\ Owed(s)' = Replayed(log') \o Sent(log')
    BY <1>1 DEF Owed
  <2>5. SubSeq(log', 1, at[s]) = SubSeq(log, 1, at[s])
    BY <1>1, <2>2
  <2>6. Sent(log') = Append(Sent(log), n)
    BY <1>1, <2>2, SuffixGrows
  <2>7. Replayed(log') = Replayed(log)
    BY <2>5
  <2>8. Sent(log) \in Seq(Nat)
    BY <1>1, <2>2
  <2>9. Replayed(log) \in Seq(Nat)
    <3>1. since[s] \in Nat
      BY <2>1 DEF TypeOK
    <3>2. Newer(SubSeq(log, 1, at[s]), since[s]) \in Seq(Nat)
      BY <2>2, <3>1, NewerOfLog
    <3> QED
      BY <3>2
  <2> HIDE DEF Replayed, Sent
  <2>10. Replayed(log) \o Append(Sent(log), n) = Append(Replayed(log) \o Sent(log), n)
    BY <2>8, <2>9, JoinSequences
  <2>11. got[s] \o Append(chan[s], n) = Append(got[s] \o chan[s], n)
    BY <2>2, JoinSequences
  <2> QED
    BY <1>1, <2>1, <2>3, <2>4, <2>6, <2>7, <2>10, <2>11
<1> QED
  BY <1>1, <1>2, <1>3 DEF NoSilentGap

\* A new subscription starts with its replay, which is all it is owed so far.
LEMMA SubscribeGap ==
    ASSUME TypeOK, RingInv, LogInv, GotInv, NoSilentGap,
           NEW s \in Subs, NEW r \in Nat, Subscribe(s, r)
    PROVE  GotInv' /\ NoSilentGap'
<1>1. /\ log \in Seq(Nat) /\ Len(log) \in Nat /\ log' = log /\ subs \subseteq Subs
      /\ subs' = subs \cup {s}
      /\ \A t \in Subs : chan'[t] = IF t = s THEN <<>> ELSE chan[t]
      /\ \A t \in Subs : overflow'[t] = IF t = s THEN FALSE ELSE overflow[t]
      /\ \A t \in Subs : since'[t] = IF t = s THEN r ELSE since[t]
      /\ \A t \in Subs : at'[t] = IF t = s THEN Len(log) ELSE at[t]
  BY DEF TypeOK, Subscribe
<1>2. /\ got' = [got EXCEPT ![s] = IF r > 0 THEN Replay(r) ELSE <<>>]
      /\ Accepts(r)
  BY DEF Subscribe
<1>3. r > 0 => Replay(r) = Newer(log, r) /\ Replay(r) \in Seq(Nat)
  BY <1>2, ReplayIsExact
<1>4. /\ got' \in [Subs -> Seq(Nat)]
      /\ \A t \in Subs : got'[t] = IF t # s THEN got[t]
                                   ELSE IF r > 0 THEN Replay(r) ELSE <<>>
  BY <1>2, <1>3 DEF GotInv
<1>5. GotInv'
  <2>1. ASSUME NEW t \in Subs
        PROVE  at'[t] <= Len(log')
    <3>1. at[t] <= Len(log)
      BY DEF GotInv
    <3> QED
      BY <1>1, <3>1
  <2> QED
    BY <1>4, <2>1 DEF GotInv
<1>6. ASSUME NEW t \in subs', ~ overflow'[t]
      PROVE  got'[t] \o chan'[t] = Owed(t)'
  <2>1. CASE t # s
    <3>1. t \in subs /\ t \in Subs /\ ~ overflow[t]
      BY <1>1, <1>6, <2>1
    <3>2. Owed(t)' = Owed(t)
      BY <1>1, <2>1, <3>1 DEF Owed
    <3> QED
      BY <1>1, <1>4, <2>1, <3>1, <3>2 DEF NoSilentGap
  <2>2. CASE t = s
    <3>1. SubSeq(log, 1, Len(log)) = log /\ SubSeq(log, Len(log) + 1, Len(log)) = <<>>
      BY <1>1
    <3>2. Owed(t)' = (IF r = 0 THEN <<>> ELSE Newer(log, r)) \o <<>>
      BY <1>1, <2>2, <3>1 DEF Owed
    <3>3. CASE r = 0
      BY <1>1, <1>4, <2>2, <3>2, <3>3
    <3>4. CASE r # 0
      BY <1>1, <1>3, <1>4, <2>2, <3>2, <3>4
    <3> QED
      BY <3>3, <3>4
  <2> QED
    BY <2>1, <2>2
<1> QED
  BY <1>5, <1>6 DEF NoSilentGap

\* A received notice moves from the channel to what the stream was handed.
LEMMA ReceiveGap ==
    ASSUME TypeOK, LogInv, GotInv, NoSilentGap, NEW s \in Subs, Receive(s)
    PROVE  GotInv' /\ NoSilentGap'
<1>1. /\ got[s] \in Seq(Nat) /\ chan[s] \in Seq(Nat) /\ chan[s] # <<>> /\ subs \subseteq Subs
      /\ log' = log /\ since' = since /\ at' = at /\ subs' = subs /\ overflow' = overflow
      /\ got' = [got EXCEPT ![s] = Append(got[s], Head(chan[s]))]
      /\ chan' = [chan EXCEPT ![s] = Tail(chan[s])]
  BY DEF GotInv, TypeOK, Receive
<1>2. Append(got[s], Head(chan[s])) \in Seq(Nat)
  BY <1>1
<1>3. GotInv'
  BY <1>1, <1>2 DEF GotInv
<1>4. Append(got[s], Head(chan[s])) \o Tail(chan[s]) = got[s] \o chan[s]
  BY <1>1, JoinSequences, 0 \in Nat
<1>5. ASSUME NEW t \in subs, ~ overflow[t]
      PROVE  got'[t] \o chan'[t] = Owed(t)'
  <2>1. Owed(t)' = Owed(t) /\ Owed(t) = got[t] \o chan[t]
    BY <1>1, <1>5 DEF Owed, NoSilentGap
  <2>2. CASE t = s
    <3>1. got'[t] = Append(got[s], Head(chan[s])) /\ chan'[t] = Tail(chan[s])
      BY <1>1, <2>2 DEF GotInv, TypeOK
    <3> QED
      BY <1>4, <2>1, <2>2, <3>1
  <2>3. CASE t # s
    BY <1>1, <2>1, <2>3 DEF GotInv, TypeOK
  <2> QED
    BY <2>2, <2>3
<1> QED
  BY <1>1, <1>3, <1>5 DEF NoSilentGap

\* A step that moves no notice, registers nobody and lowers no flag.
LEMMA QuietGap ==
    ASSUME TypeOK, GotInv, NoSilentGap,
           UNCHANGED <<chan, log, histVars>>,
           subs' \subseteq subs, \A s \in Subs : overflow[s] => overflow'[s]
    PROVE  GotInv' /\ NoSilentGap'
<1>1. GotInv'
  BY DEF GotInv, histVars
<1>2. ASSUME NEW s \in subs', ~ overflow'[s]
      PROVE  got'[s] \o chan'[s] = Owed(s)'
  <2>1. s \in subs /\ ~ overflow[s]
    BY <1>2 DEF TypeOK
  <2>2. Owed(s)' = Owed(s)
    BY DEF Owed, histVars
  <2> QED
    BY <2>1, <2>2 DEF NoSilentGap, histVars
<1> QED
  BY <1>1, <1>2 DEF NoSilentGap

\* No tear-down step moves a notice or registers a subscription.
LEMMA TearDownIsQuiet ==
    ASSUME TypeOK,
           \/ \E s \in Subs : Leave(s) \/ Cut(s)
           \/ DisconnectAll
           \/ \E a \in Agents, s \in Subs : Unsubscribe(a, s)
    PROVE  /\ UNCHANGED <<chan, log, histVars, ringVars>>
           /\ subs' \subseteq subs
           /\ \A s \in Subs : overflow[s] => overflow'[s]
<1>1. ASSUME NEW s \in Subs, Leave(s) \/ Cut(s)
      PROVE  /\ UNCHANGED <<chan, log, histVars, ringVars, subs>>
             /\ \A t \in Subs : overflow[t] => overflow'[t]
  BY <1>1 DEF Leave, Cut, TypeOK, chanVars
<1>2. CASE DisconnectAll
  BY <1>2 DEF DisconnectAll, chanVars
<1>3. ASSUME NEW a \in Agents, NEW s \in Subs, Unsubscribe(a, s)
      PROVE  /\ UNCHANGED <<chan, log, histVars, ringVars, overflow>>
             /\ subs' \subseteq subs
  BY <1>3 DEF Unsubscribe, Swap, Remove, CloseChan, chanVars
<1> QED
  BY <1>1, <1>2, <1>3

\* The empty hub owes nothing.
LEMMA InitGap == Init => GotInv /\ NoSilentGap
  BY DEF Init, GotInv, NoSilentGap

\* Every step keeps a stream that has not overflowed complete.
LEMMA NextGap ==
    ASSUME TypeOK, RingInv, OrderInv, GotInv, NoSilentGap, [Next]_vars
    PROVE  GotInv' /\ NoSilentGap'
<1>1. LogInv /\ rv \in Nat
  BY DEF OrderInv, TypeOK
<1>2. CASE Publish
  BY <1>1, <1>2, BroadcastGap DEF Publish
<1>3. CASE OtherKind \/ UNCHANGED vars
  BY <1>3, QuietGap DEF OtherKind, vars, hubVars, chanVars
<1>4. ASSUME NEW s \in Subs, NEW r \in 0 .. rv, Subscribe(s, r)
      PROVE  GotInv' /\ NoSilentGap'
  BY <1>1, <1>4, SubscribeGap
<1>5. ASSUME NEW s \in Subs, Receive(s)
      PROVE  GotInv' /\ NoSilentGap'
  BY <1>1, <1>5, ReceiveGap
<1>6. CASE \/ \E s \in Subs : Leave(s) \/ Cut(s)
           \/ DisconnectAll
           \/ \E a \in Agents, s \in Subs : Unsubscribe(a, s)
  BY <1>6, TearDownIsQuiet, QuietGap
<1> QED
  BY <1>2, <1>3, <1>4, <1>5, <1>6 DEF Next

\* A stream whose overflow flag is down has been handed, or has buffered, every
\* notice it is owed, in order and once.
THEOREM StreamsHaveNoGap == Spec => []NoSilentGap
<1>1. Spec => [](TypeOK /\ RingInv /\ OrderInv)
  BY InitTypes, NextTypes, InitRing, NextRing, InitOrder, NextOrder, PTL
  DEF Spec
<1>2. TypeOK /\ RingInv /\ OrderInv /\ GotInv /\ NoSilentGap /\ [Next]_vars
        => (GotInv /\ NoSilentGap)'
  BY NextGap
<1> QED
  BY <1>1, <1>2, InitGap, PTL DEF Spec

-----------------------------------------------------------------------------
(* The hub implements WatchFeed.                                           *)

\* A registered subscription has a handler, or is being torn down; once its
\* flag is taken, it stays registered only until that agent removes it.
LeftInv ==
    \A s \in subs :
        /\ owner[s] # "none" \/ closed[s]
        /\ closed[s] => \E a \in Agents : unsub[a][s] = "swapped"

\* Versions are within their bound.
BoundInv == rv <= SealRV + MaxRV

\* A broadcast is an announcement: what a full channel drops is lost.
LEMMA BroadcastFeeds ==
    ASSUME TypeOK, NEW n \in Nat, \A i \in 1 .. Len(log) : log[i] < n, Broadcast(n)
    PROVE  Feed!Announce(n)
<1> DEFINE lost == {s \in subs : Len(chan[s]) >= ChanCap}
<1>1. log \in Seq(Nat) /\ subs \subseteq Subs /\ ChanCap \in Nat
      /\ chan \in [Subs -> Seq(Nat)] /\ overflow \in [Subs -> BOOLEAN]
  BY WatchHubAssumption DEF TypeOK
<1>2. \A i \in DOMAIN log : log[i] < n
  BY <1>1
<1>3. log' = Append(log, n) /\ UNCHANGED <<subs, since, got>>
  BY DEF Broadcast, histVars
<1>4. \A s \in subs : Len(chan[s]) \in Nat
  BY <1>1
<1>5. chan' = [s \in Subs |-> IF s \in subs \ lost THEN Append(chan[s], n) ELSE chan[s]]
  <2>1. \A s \in Subs : s \in subs \ lost <=> s \in subs /\ Len(chan[s]) < ChanCap
    BY <1>1, <1>4
  <2> HIDE DEF lost
  <2> QED
    BY <2>1 DEF Broadcast
<1>6. overflow' = [s \in Subs |-> overflow[s] \/ s \in lost]
  BY DEF Broadcast
<1>7. lost \in SUBSET subs
  OBVIOUS
<1> HIDE DEF lost
<1> QED
  BY <1>2, <1>3, <1>5, <1>6, <1>7, Zenon DEF Feed!Announce

\* A subscription that is accepted attaches a stream with all it missed.
LEMMA SubscribeFeeds ==
    ASSUME TypeOK, RingInv, LogInv, LeftInv, NEW s \in Subs, NEW r \in Nat, Subscribe(s, r)
    PROVE  Feed!Attach(s, r)
<1>1. log \in Seq(Nat) /\ Len(log) \in Nat
      /\ \A i, j \in 1 .. Len(log) : i < j => log[i] < log[j]
  BY DEF TypeOK, LogInv
<1>2. s \notin subs
  BY DEF Subscribe, Fresh, LeftInv
<1>3. /\ subs' = subs \cup {s} /\ chan' = [chan EXCEPT ![s] = <<>>]
      /\ overflow' = [overflow EXCEPT ![s] = FALSE] /\ log' = log
      /\ since' = [since EXCEPT ![s] = r]
      /\ Accepts(r)
      /\ got' = [got EXCEPT ![s] = IF r > 0 THEN Replay(r) ELSE <<>>]
  BY DEF Subscribe
<1>4. \E m \in 1 .. Len(log) + 1 :
          /\ IF r = 0 THEN m = Len(log) + 1 ELSE Feed!NewerFrom(r, m)
          /\ (IF r > 0 THEN Replay(r) ELSE <<>>) = SubSeq(log, m, Len(log))
  <2>1. CASE r = 0
    <3>1. SubSeq(log, Len(log) + 1, Len(log)) = <<>> /\ Len(log) + 1 \in 1 .. Len(log) + 1
      BY <1>1
    <3> QED
      BY <2>1, <3>1
  <2>2. CASE r # 0
    <3>1. Replay(r) = Newer(log, r)
      BY <1>3, <2>2, ReplayIsExact
    <3>2. PICK m \in 1 .. Len(log) + 1 :
              /\ \A i \in 1 .. Len(log) : log[i] > r <=> i >= m
              /\ Newer(log, r) = SubSeq(log, m, Len(log))
      BY <1>1, NewerIsSuffix
    <3>3. Feed!NewerFrom(r, m)
      BY <1>1, <3>2 DEF Feed!NewerFrom
    <3>4. r > 0
      BY <2>2
    <3> QED
      BY <2>2, <3>1, <3>2, <3>3, <3>4
  <2> QED
    BY <2>1, <2>2
<1> QED
  BY <1>2, <1>3, <1>4, Zenon DEF Feed!Attach

\* The rest of a stream's life.
LEMMA OthersFeed ==
    ASSUME TypeOK
    PROVE  /\ \A s \in Subs : Receive(s) => Feed!HandOver(s)
           /\ \A s \in Subs : Cut(s) => Feed!Break(s)
           /\ \A a \in Agents, s \in Subs : Remove(a, s) => Feed!Detach(s)
           /\ \A a \in Agents, s \in Subs :
                 Swap(a, s) \/ CloseChan(a, s) => UNCHANGED Feed!feedVars
           /\ \A s \in Subs : Leave(s) => UNCHANGED Feed!feedVars
           /\ DisconnectAll \/ UNCHANGED hubVars => UNCHANGED Feed!feedVars
<1>1. ASSUME NEW s \in Subs, Receive(s)
      PROVE  Feed!HandOver(s)
  BY <1>1 DEF Receive, Feed!HandOver
<1>2. ASSUME NEW s \in Subs, Cut(s)
      PROVE  Feed!Break(s)
  BY <1>2 DEF Cut, Feed!Break, histVars
<1>3. ASSUME NEW a \in Agents, NEW s \in Subs, Remove(a, s)
      PROVE  Feed!Detach(s)
  BY <1>3 DEF Remove, Feed!Detach, histVars, chanVars
<1>4. ASSUME NEW a \in Agents, NEW s \in Subs, Swap(a, s) \/ CloseChan(a, s)
      PROVE  UNCHANGED Feed!feedVars
  BY <1>4 DEF Swap, CloseChan, Feed!feedVars, histVars, chanVars
<1>5. ASSUME NEW s \in Subs, Leave(s)
      PROVE  UNCHANGED Feed!feedVars
  BY <1>5 DEF Leave, Feed!feedVars, histVars, chanVars
<1>6. ASSUME DisconnectAll \/ UNCHANGED hubVars
      PROVE  UNCHANGED Feed!feedVars
  BY <1>6 DEF DisconnectAll, Feed!feedVars, hubVars, histVars, chanVars
<1> QED
  BY <1>1, <1>2, <1>3, <1>4, <1>5, <1>6

\* Nothing is registered at first.
LEMMA InitLeft == Init => LeftInv /\ BoundInv
  BY WatchHubAssumption DEF Init, LeftInv, BoundInv

\* No agent leaves a subscription registered.
LEMMA NextLeft ==
    ASSUME TypeOK, TearInv, LeftInv, BoundInv, [Next]_vars
    PROVE  LeftInv' /\ BoundInv'
<1>0. BoundInv'
  <2>1. rv \in Nat /\ SealRV \in Nat /\ MaxRV \in Nat
    BY WatchHubAssumption DEF TypeOK
  <2>2. rv' = rv \/ (rv < MaxRV /\ rv' = rv + 1)
    BY DEF Next, Publish, OtherKind, vars
  <2> QED
    BY <2>1, <2>2 DEF BoundInv
<1>1. CASE UNCHANGED <<subs, owner, closed, unsub>>
  <2>1. subs' = subs /\ owner' = owner /\ closed' = closed /\ unsub' = unsub
    BY <1>1
  <2> QED
    BY <1>0, <2>1 DEF LeftInv
<1>2. ASSUME NEW s \in Subs, NEW r \in 0 .. rv, Subscribe(s, r)
      PROVE  LeftInv'
  BY <1>2 DEF Subscribe, Fresh, LeftInv, TypeOK
<1>3. ASSUME NEW a \in Agents, NEW s \in Subs, Swap(a, s)
      PROVE  LeftInv'
  <2>1. CASE closed[s]
    <3>1. /\ UNCHANGED <<subs, closed, unsub>>
          /\ owner' = owner \/ owner' = [owner EXCEPT ![s] = "none"]
      BY <1>3, <2>1 DEF Swap, Return, chanVars
    <3> QED
      BY <2>1, <3>1 DEF LeftInv, TypeOK
  <2>2. CASE ~ closed[s]
    <3>1. /\ UNCHANGED <<subs, owner>>
          /\ closed' = [closed EXCEPT ![s] = TRUE]
          /\ unsub' = [unsub EXCEPT ![a][s] = "swapped"]
      BY <1>3, <2>2 DEF Swap, chanVars
    <3>2. ASSUME NEW t \in subs
          PROVE  closed'[t] => \E b \in Agents : unsub'[b][t] = "swapped"
      <4>1. CASE t = s
        BY <3>1, <4>1 DEF TypeOK
      <4>2. CASE t # s
        <5>1. \A b \in Agents : unsub'[b][t] = unsub[b][t]
          BY <3>1, <4>2 DEF TypeOK
        <5> QED
          BY <3>1, <4>2, <5>1 DEF LeftInv, TypeOK
      <4> QED
        BY <4>1, <4>2
    <3>3. ASSUME NEW t \in subs
          PROVE  owner'[t] # "none" \/ closed'[t]
      BY <3>1, <3>3 DEF LeftInv, TypeOK
    <3> QED
      BY <3>1, <3>2, <3>3 DEF LeftInv
  <2> QED
    BY <2>1, <2>2
<1>4. ASSUME NEW a \in Agents, NEW s \in Subs, Remove(a, s)
      PROVE  LeftInv'
  BY <1>4 DEF Remove, LeftInv, TypeOK, chanVars
<1>5. ASSUME NEW a \in Agents, NEW s \in Subs, CloseChan(a, s)
      PROVE  LeftInv'
  BY <1>5 DEF CloseChan, Return, LeftInv, TearInv, TypeOK
<1>6. CASE Publish \/ OtherKind
  BY <1>1, <1>6 DEF Publish, Broadcast, OtherKind, hubVars, tearVars, chanVars
<1>7. ASSUME NEW s \in Subs, Leave(s)
      PROVE  LeftInv'
  BY <1>7 DEF Leave, LeftInv, TypeOK, chanVars
<1>8. CASE \E s \in Subs : Receive(s) \/ Cut(s)
  BY <1>1, <1>8 DEF Receive, Cut, tearVars, chanVars
<1>9. CASE DisconnectAll \/ UNCHANGED vars
  BY <1>1, <1>9 DEF DisconnectAll, vars, hubVars, tearVars, chanVars
<1> QED
  BY <1>0, <1>2, <1>3, <1>4, <1>5, <1>6, <1>7, <1>8, <1>9 DEF Next, Unsubscribe

\* Every step of the hub is a step of the feed, or none.
LEMMA NextFeeds ==
    ASSUME TypeOK, RingInv, OrderInv, LeftInv, BoundInv, [Next]_vars
    PROVE  [Feed!FeedNext]_(Feed!feedVars)
<1>1. LogInv /\ rv \in Nat /\ SealRV \in Nat /\ MaxRV \in Nat
      /\ log \in Seq(Nat) /\ rv <= SealRV + MaxRV
  BY WatchHubAssumption DEF OrderInv, TypeOK, BoundInv
<1>2. CASE Publish
  <2>1. rv + 1 \in 0 .. SealRV + MaxRV /\ Broadcast(rv + 1)
    BY <1>1, <1>2 DEF Publish
  <2>2. \A i \in 1 .. Len(log) : log[i] < rv + 1
    BY <1>1 DEF OrderInv
  <2>3. Feed!Announce(rv + 1)
    BY <2>1, <2>2, BroadcastFeeds
  <2> QED
    BY <2>1, <2>3, Zenon DEF Feed!FeedNext
<1>3. ASSUME NEW s \in Subs, NEW r \in 0 .. rv, Subscribe(s, r)
      PROVE  Feed!FeedNext
  <2>1. Feed!Attach(s, r)
    BY <1>1, <1>3, SubscribeFeeds
  <2>2. r \in 0 .. SealRV + MaxRV
    BY <1>1
  <2> QED
    BY <2>1, <2>2, Zenon DEF Feed!FeedNext
<1>4. CASE \E s \in Subs : Receive(s) \/ Cut(s)
  BY <1>4, OthersFeed, Zenon DEF Feed!FeedNext
<1>5. ASSUME NEW a \in Agents, NEW s \in Subs, Unsubscribe(a, s)
      PROVE  [Feed!FeedNext]_(Feed!feedVars)
  <2>1. CASE Remove(a, s)
    BY <2>1, OthersFeed, Zenon DEF Feed!FeedNext
  <2>2. CASE Swap(a, s) \/ CloseChan(a, s)
    BY <2>2, OthersFeed
  <2> QED
    BY <1>5, <2>1, <2>2 DEF Unsubscribe
<1>6. CASE \E s \in Subs : Leave(s)
  BY <1>6, OthersFeed
<1>7. CASE DisconnectAll \/ OtherKind \/ UNCHANGED vars
  BY <1>7, OthersFeed DEF OtherKind, vars
<1> QED
  BY <1>2, <1>3, <1>4, <1>5, <1>6, <1>7 DEF Next

\* An empty hub is an empty feed.
LEMMA InitFeeds == Init => Feed!FeedInit
  BY DEF Init, Feed!FeedInit

\* With a ring of any size that forgets, channels of any capacity that fill up
\* and tear-downs in every interleaving, the hub is one log, and a stream that
\* resumes from a version it accepts is handed everything newer, in order and
\* once, until its overflow flag is raised (watch.go:34-190).
THEOREM HubImplementsFeed == Spec => ImplementsFeed
<1>1. Spec => [](TypeOK /\ RingInv /\ OrderInv /\ TearInv)
  BY InitTypes, NextTypes, InitRing, NextRing, InitOrder, NextOrder, TearAlways, PTL
  DEF Spec
<1>2. TypeOK /\ TearInv /\ LeftInv /\ BoundInv /\ [Next]_vars => (LeftInv /\ BoundInv)'
  BY NextLeft
<1>3. TypeOK /\ RingInv /\ OrderInv /\ LeftInv /\ BoundInv /\ [Next]_vars
        => [Feed!FeedNext]_(Feed!feedVars)
  BY NextFeeds
<1>4. Spec => [](LeftInv /\ BoundInv)
  BY <1>1, <1>2, InitLeft, PTL DEF Spec
<1>5. Spec => ImplementsFeed
  BY <1>1, <1>3, <1>4, InitFeeds, PTL DEF Spec, ImplementsFeed, Feed!FeedSpec
<1> QED
  BY <1>5

=============================================================================
