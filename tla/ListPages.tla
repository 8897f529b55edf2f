------------------------------ MODULE ListPages ------------------------------
(***************************************************************************)
(* LIST requests (internal/apiserver/list.go: handleList; the initial      *)
(* events of a watch, streamInitial, walk the same way with no limit) over *)
(* a Store that changes between two acquisitions of the read lock.         *)
(*                                                                         *)
(* A client walks a collection page by page with continue tokens; the      *)
(* server walks each page chunk by chunk.  A cursor is a position in the   *)
(* list of namespaces and a slot in that namespace's bucket.               *)
(***************************************************************************)
EXTENDS Store

CONSTANTS
    Clients,
    Limits,      \* page sizes asked for; 0 is "no limit"
    ListChunk,   \* live objects visited per acquisition of the read lock
    Selected,    \* names the request's selectors match
    MaxWrites    \* bound on writes to the store

ASSUME ListPagesAssumption ==
    /\ Limits \subseteq Nat
    /\ ListChunk \in Nat \ {0}
    /\ Selected \subseteq Names
    /\ 0 \notin Namespaces

VARIABLES
    phase,    \* phase[c]: "idle", "chunk", "token", "done"
    scope,    \* the namespace asked for, 0 for all of them
    limit,    \* items per page
    cursor,   \* <<position, slot>> to go on from
    sent,     \* items of the current page
    seen,     \* history: every <<namespace, name>> received
    twice,    \* history: those received more than once
    stayed,   \* history: <<namespace, name>> that were there all the time
    shifted,  \* history: clients whose cursor was moved off its object
    writes

listVars == <<phase, scope, limit, cursor, sent, seen, twice, stayed, shifted, writes>>
pageVars == <<storeVars, listVars>>

StartCursor == <<1, 1>>

ListInit ==
    /\ StoreInit
    /\ phase = [c \in Clients |-> "idle"]
    /\ scope = [c \in Clients |-> 0]
    /\ limit = [c \in Clients |-> 0]
    /\ cursor = [c \in Clients |-> StartCursor]
    /\ sent = [c \in Clients |-> 0]
    /\ seen = [c \in Clients |-> {}]
    /\ twice = [c \in Clients |-> {}]
    /\ stayed = [c \in Clients |-> {}]
    /\ shifted = {}
    /\ writes = 0

-----------------------------------------------------------------------------
(* Iterate.                                                                *)

\* The namespaces a walk goes through.
NSList(sc) == IF sc = 0 THEN order ELSE IF sc \in Buckets THEN <<sc>> ELSE <<>>

\* Live positions from cursor cur on.
Ahead(list, cur) ==
    {x \in UNION {{<<i, s>> : s \in LiveIn(list[i])} : i \in cur[1] .. Len(list)} :
        x[1] = cur[1] => x[2] >= cur[2]}

Before(x, y) == x[1] < y[1] \/ (x[1] = y[1] /\ x[2] < y[2])

KeyAt(list, x) == <<list[x[1]], slots[list[x[1]]][x[2]].name>>

FirstOf(S) == CHOOSE x \in S : \A y \in S : ~Before(y, x)

\* Fault: a walk its callback stops resumes at the object it stopped at.
ResumeStuck(stop, rest) ==
    IF stop # {} THEN FirstOf(stop)
    ELSE IF rest # {} THEN FirstOf(rest) ELSE StartCursor

\* Fault: a walk that used up its chunk skips the object it stopped before.
ResumeSkips(stop, rest) ==
    LET Past(x) == <<x[1], x[2] + 1>>
    IN IF stop # {} THEN Past(FirstOf(stop))
       ELSE IF rest # {} THEN Past(FirstOf(rest)) ELSE StartCursor

\* The cursor to go on from: past the object the callback stopped at, or at
\* the first of those the chunk had no room for.
Resume(stop, rest) ==
    LET Past(x) == <<x[1], x[2] + 1>>
    IN IF stop # {} THEN Past(FirstOf(stop))
       ELSE IF rest # {} THEN FirstOf(rest) ELSE StartCursor

\* The callback stops at the left-th object that matches (never, for 0).
StopAt(hits, left) ==
    {x \in hits : Cardinality({y \in hits : ~Before(x, y)}) = left}

\* Visits at most ListChunk live objects, and none past the one it stops at.
Iterate(list, cur, left) ==
    LET ahead   == Ahead(list, cur)
        reach   == {x \in ahead :
                      Cardinality({y \in ahead : Before(y, x)}) < ListChunk}
        hits    == {x \in reach : KeyAt(list, x)[2] \in Selected}
        stop    == StopAt(hits, left)
    IN [keys    |-> {KeyAt(list, x) : x \in {y \in hits : \A z \in stop : ~Before(z, y)}},
        stopped |-> stop # {},
        more    |-> stop # {} \/ reach # ahead,
        next    |-> Resume(stop, ahead \ reach)]

-----------------------------------------------------------------------------
(* Requests.                                                               *)

LiveKeys == {x \in Namespaces \X Names : index[x[1]][x[2]] # 0}

\* The first request of a walk: no continue token.
StartList(c, sc, n) ==
    /\ phase[c] \in {"idle", "done"}
    /\ phase' = [phase EXCEPT ![c] = "chunk"]
    /\ scope' = [scope EXCEPT ![c] = sc]
    /\ limit' = [limit EXCEPT ![c] = n]
    /\ cursor' = [cursor EXCEPT ![c] = StartCursor]
    /\ sent' = [sent EXCEPT ![c] = 0]
    /\ seen' = [seen EXCEPT ![c] = {}]
    /\ twice' = [twice EXCEPT ![c] = {}]
    /\ stayed' = [stayed EXCEPT ![c] = LiveKeys]
    /\ shifted' = shifted \ {c}
    /\ UNCHANGED <<storeVars, writes>>

\* One acquisition of the read lock.
Chunk(c) ==
    /\ phase[c] = "chunk"
    /\ \E it \in {Iterate(NSList(scope[c]), cursor[c],
                         IF limit[c] = 0 THEN 0 ELSE limit[c] - sent[c])} :
        /\ phase' = [phase EXCEPT ![c] = IF ~it.more THEN "done"
                                         ELSE IF it.stopped THEN "token"
                                         ELSE "chunk"]
        /\ cursor' = [cursor EXCEPT ![c] = it.next]
        /\ sent' = [sent EXCEPT ![c] = @ + Cardinality(it.keys)]
        /\ seen' = [seen EXCEPT ![c] = @ \cup it.keys]
        /\ twice' = [twice EXCEPT ![c] = @ \cup (seen[c] \cap it.keys)]
    /\ UNCHANGED <<storeVars, scope, limit, stayed, shifted, writes>>

\* The client follows the continue token of the page it got.
NextPage(c) ==
    /\ phase[c] = "token"
    /\ phase' = [phase EXCEPT ![c] = "chunk"]
    /\ sent' = [sent EXCEPT ![c] = 0]
    /\ UNCHANGED <<storeVars, scope, limit, cursor, seen, twice, stayed, shifted, writes>>

-----------------------------------------------------------------------------
(* Writes.                                                                 *)

Walking == {c \in Clients : phase[c] \in {"chunk", "token"}}

\* Clients whose namespace position names another namespace once ns has a
\* bucket, or whose slot then counts in a bucket it was not taken from.
MovedByBucket(ns) ==
    {c \in Walking : /\ scope[c] = 0 /\ ns \notin Buckets
                     /\ \/ PlaceOf(ns) < cursor[c][1]
                        \/ PlaceOf(ns) = cursor[c][1] /\ cursor[c][2] > 1}

\* Clients in the bucket of ns, beyond a tombstone, n's slot included, when
\* deleting n compacts it.
MovedByCompaction(ns, n) ==
    {c \in Walking :
        LET list == NSList(scope[c])
        IN /\ cursor[c][1] \in DOMAIN list /\ list[cursor[c][1]] = ns
           /\ Compacts(dead[ns] + 1, Len(slots[ns]))
           /\ \E i \in DOMAIN slots[ns] :
                i < cursor[c][2] /\ (slots[ns][i] = Tomb \/ i = index[ns][n])}

WritePut(ns, o) ==
    /\ writes < MaxWrites
    /\ writes' = writes + 1
    /\ Put(ns, o)
    /\ shifted' = shifted \cup MovedByBucket(ns)
    /\ UNCHANGED <<phase, scope, limit, cursor, sent, seen, twice, stayed>>

WriteDelete(ns, n) ==
    /\ writes < MaxWrites
    /\ writes' = writes + 1
    /\ Delete(ns, n)
    /\ shifted' = shifted \cup MovedByCompaction(ns, n)
    /\ stayed' = [c \in Clients |-> stayed[c] \ {<<ns, n>>}]
    /\ UNCHANGED <<phase, scope, limit, cursor, sent, seen, twice>>

ListNext ==
    \/ \E c \in Clients, sc \in Namespaces \cup {0}, n \in Limits : StartList(c, sc, n)
    \/ \E c \in Clients : Chunk(c)
    \/ \E c \in Clients : NextPage(c)
    \/ \E ns \in Namespaces, o \in Objects : WritePut(ns, o)
    \/ \E ns \in Namespaces, n \in Names : WriteDelete(ns, n)

\* The handler walks on, and the client asks for the next page.
ListFairness == \A c \in Clients : WF_pageVars(Chunk(c)) /\ WF_pageVars(NextPage(c))

ListSpec == ListInit /\ [][ListNext]_pageVars
ListFairSpec == ListSpec /\ ListFairness

-----------------------------------------------------------------------------
(* Properties.                                                             *)

\* What a walk that has ended should have found.
Expected(c) == {k \in stayed[c] : k[2] \in Selected /\ scope[c] \in {0, k[1]}}

\* store.go 57-58, 102-104, README 37-38: a walk that reaches its end returned
\* every matching object that was there from its first request to its last.
Complete(c) == phase[c] = "done" => Expected(c) \subseteq seen[c]
ListIsComplete == \A c \in Clients : Complete(c)

\* And none of them twice.
Once(c) == twice[c] \cap stayed[c] = {}

\* Only a new namespace sorted before the cursor, or a compaction under it, can
\* make a walk skip an object or return one twice.
GapIsExplained == \A c \in Clients \ shifted : Complete(c) /\ Once(c)

\* Every walk comes to its end.
WalkEnds == \A c \in Clients : phase[c] = "chunk" ~> phase[c] = "done"
=============================================================================
