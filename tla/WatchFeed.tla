------------------------------ MODULE WatchFeed ------------------------------
(***************************************************************************)
(* What a watch hub (internal/cluster/watch.go) promises its subscribers:  *)
(* one log of notices, and for each stream a queue that begins with the    *)
(* notices newer than the version it resumes from and loses none, unless   *)
(* the hub says so.  There is no ring, no limit and no tear-down here.     *)
(***************************************************************************)
EXTENDS Integers, Sequences

CONSTANTS
    Streams,    \* identities of streams
    Versions    \* the resourceVersions there may be

VARIABLES
    log,      \* every notice, in order
    on,       \* the streams that are attached
    since,    \* the version each stream was asked to resume from, 0 for "now"
    due,      \* what each stream is still to be handed
    sent,     \* what it was handed
    broken    \* the hub has said that it may miss something

feedVars == <<log, on, since, due, sent, broken>>

FeedInit ==
    /\ log = <<>>
    /\ on = {}
    /\ since = [s \in Streams |-> 0]
    /\ due = [s \in Streams |-> <<>>]
    /\ sent = [s \in Streams |-> <<>>]
    /\ broken = [s \in Streams |-> FALSE]

\* A notice newer than all others goes to every stream that is attached: it is
\* still to be handed over, or the stream is broken.
Announce(n) ==
    /\ \A i \in DOMAIN log : log[i] < n
    /\ log' = Append(log, n)
    /\ \E lost \in SUBSET on :
          /\ due' = [s \in Streams |-> IF s \in on \ lost THEN Append(due[s], n) ELSE due[s]]
          /\ broken' = [s \in Streams |-> broken[s] \/ s \in lost]
    /\ UNCHANGED <<on, since, sent>>

\* From m on, the log holds the notices newer than v, and no others.
NewerFrom(v, m) == \A i \in DOMAIN log : log[i] > v <=> i >= m

\* A stream begins, from now if v is 0, or with all it missed since v.
Attach(s, v) ==
    /\ s \notin on
    /\ on' = on \cup {s}
    /\ since' = [since EXCEPT ![s] = v]
    /\ due' = [due EXCEPT ![s] = <<>>]
    /\ broken' = [broken EXCEPT ![s] = FALSE]
    /\ \E m \in 1 .. Len(log) + 1 :
          /\ IF v = 0 THEN m = Len(log) + 1 ELSE NewerFrom(v, m)
          /\ sent' = [sent EXCEPT ![s] = SubSeq(log, m, Len(log))]
    /\ UNCHANGED log

\* The oldest notice that is due is handed over.
HandOver(s) ==
    /\ due[s] # <<>>
    /\ sent' = [sent EXCEPT ![s] = Append(@, Head(due[s]))]
    /\ due' = [due EXCEPT ![s] = Tail(@)]
    /\ UNCHANGED <<log, on, since, broken>>

\* The hub breaks a stream, attached or on its way out.
Break(s) ==
    /\ broken' = [broken EXCEPT ![s] = TRUE]
    /\ UNCHANGED <<log, on, since, due, sent>>

\* A stream ends; what is due to it may still be handed over.
Detach(s) ==
    /\ on' = on \ {s}
    /\ UNCHANGED <<log, since, due, sent, broken>>

FeedNext ==
    \/ \E n \in Versions : Announce(n)
    \/ \E s \in Streams :
          \/ \E v \in Versions : Attach(s, v)
          \/ HandOver(s) \/ Break(s) \/ Detach(s)

FeedSpec == FeedInit /\ [][FeedNext]_feedVars
=============================================================================
