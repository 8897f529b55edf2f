------------------------------ MODULE EventLog ------------------------------
(***************************************************************************)
(* The Events a cluster retains (Tx.RecordEvent, Server.deleteGeneric):    *)
(* the store, the queue that says which one is evicted next, and the       *)
(* notices. A log is one record, so that a transaction that records        *)
(* several Events is an iteration. An Event is its name: the name of the object  *)
(* it is about, and a number.                                              *)
(***************************************************************************)
EXTENDS Integers, Sequences

EmptyLog == [seq |-> 0, stored |-> {}, queue |-> <<>>, notices |-> <<>>]

Notice(type, e) == [type |-> type, event |-> e]

\* Tx.emit: Bootstrap is silent.
Emitted(log, type, e, silent) ==
    IF silent THEN log.notices ELSE Append(log.notices, Notice(type, e))

\* Put under a new name, behind everything in the queue.
Put(log, e, silent) ==
    [seq |-> log.seq + 1, stored |-> log.stored \cup {e}, queue |-> Append(log.queue, e),
     notices |-> Emitted(log, "ADDED", e, silent)]

\* Fault: an eviction is announced whether or not the client deleted the Event.
EvictAlways(log, silent) ==
    [log EXCEPT !.queue = Tail(@), !.stored = @ \ {Head(log.queue)},
                !.notices = Emitted(log, "DELETED", Head(log.queue), silent)]

\* One round of the eviction loop: the oldest leaves the queue, and the store if
\* no client has deleted it.
Evict(log, silent) ==
    LET old == Head(log.queue)
    IN [log EXCEPT !.queue = Tail(@), !.stored = @ \ {old},
                   !.notices = IF old \in log.stored
                               THEN Emitted(log, "DELETED", old, silent) ELSE @]

NameOf(ref, seq) == <<ref, seq>>

\* Tx.RecordEvent. The queue is never more than one over its cap.
Record(log, max, ref, silent) ==
    IF max <= 0 THEN log
    ELSE LET e   == NameOf(ref, log.seq + 1)
             new == Put(log, e, silent)
         IN IF Len(new.queue) > max THEN Evict(new, silent) ELSE new

\* n times Record, in one transaction.
RecordMany(log, max, ref, n) ==
    LET logs[i \in 0 .. n] == IF i = 0 THEN log ELSE Record(logs[i - 1], max, ref, FALSE)
    IN logs[n]

\* Fault: a client's delete takes the Event out of the queue.
DeleteEventDequeued(log, e) ==
    [log EXCEPT !.stored = @ \ {e}, !.queue = SelectSeq(@, LAMBDA q : q # e),
                !.notices = Emitted(log, "DELETED", e, FALSE)]

\* deleteGeneric of an Event: it stays in the queue.
DeleteEvent(log, e) ==
    [log EXCEPT !.stored = @ \ {e}, !.notices = Emitted(log, "DELETED", e, FALSE)]
=============================================================================
