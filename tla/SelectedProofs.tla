---------------------------- MODULE SelectedProofs ----------------------------
(***************************************************************************)
(* What an informer with a selector holds, for any objects, labels,        *)
(* selectors and ring size, and any number of writes and lost connections. *)
(*                                                                         *)
(* A client is owed an account of an object only once nothing about it is  *)
(* ahead of the place in the log from which it reads on.                   *)
(***************************************************************************)
EXTENDS SelectedWatch, FiniteSetTheorems, SequenceTheorems, WellFoundedInduction, TLAPS

\* An object as it is stored, and as a notice carries it.
IsObject(o, id) ==
    /\ o = [id |-> o.id, rv |-> o.rv, ns |-> o.ns, labels |-> o.labels, fields |-> o.fields]
    /\ o.id = id /\ o.ns = Scope(id)
    /\ o.rv \in Nat \ {0}

\* Notices carry rising versions, all drawn after the build.
Numbered ==
    /\ rv \in Nat /\ SealRV <= rv
    /\ \A i \in DOMAIN log : log[i].rv \in Nat /\ SealRV < log[i].rv /\ log[i].rv <= rv
    /\ \A i, j \in DOMAIN log : i < j => log[i].rv < log[j].rv

Typed ==
    /\ kind \in DOMAIN Queries
    /\ store = [id \in Ids |-> store[id]] /\ cache = [id \in Ids |-> cache[id]]
    /\ IsSequence(log) /\ Numbered
    /\ \A i \in DOMAIN log : \E id \in Ids : IsObject(log[i].obj, id)
    /\ \A i \in DOMAIN log : log[i].obj.rv <= log[i].rv
    /\ \A id \in Ids : store[id] # None => IsObject(store[id], id) /\ store[id].rv <= rv

\* The last notice about an object has its newest version, and says what is
\* stored, or that it is not stored, unless the object came back from the dead.
\* What was built and never spoken of is there.
Told(id) ==
    \E j \in DOMAIN log :
        /\ log[j].obj.id = id
        /\ \A i \in DOMAIN log : log[i].obj.id = id =>
                i <= j /\ log[i].obj.rv <= log[j].obj.rv
        /\ IF log[j].type = "DELETED" THEN store[id] = None
           ELSE store[id] = log[j].obj \/ Resurrected(id)

Silent(id) ==
    /\ \A i \in DOMAIN log : log[i].obj.id # id
    /\ id \in Initial[kind] => store[id] # None

\* The client has dealt with the i-th notice, or would not ask for it.
Seen(i) == IF pc = "on" THEN i <= sent ELSE log[i].rv <= ver

Explained(id) ==
    \/ cache[id] = Listed(id) \/ id \in left \/ Resurrected(id)
    \/ store[id] # None /\ Disputed(store[id])

\* A client that has all notices about an object holds what is to be held of it.
Informed ==
    /\ pc \in {"start", "walk", "resume", "on"}
    /\ ver \in Int /\ reached \in Int /\ (pc # "start" => ver <= rv /\ SealRV <= reached)
    /\ pc = "on" => sent \in 0 .. Len(log) /\ \A i \in DOMAIN log : i > sent => ver < log[i].rv
    /\ pc \in {"resume", "on"} => \A id \in Ids :
            (\A i \in DOMAIN log : log[i].obj.id = id => Seen(i)) => Explained(id)

SelectedInv == Typed /\ (\A id \in Ids : Told(id) \/ Silent(id)) /\ Informed

-----------------------------------------------------------------------------
\* Numbers of the hub.
LEMMA Versions ==
    ASSUME Typed
    PROVE  /\ SealRV \in Nat /\ (Ids # {} => SealRV >= 1)
           /\ Len(log) \in Nat /\ DOMAIN log = 1 .. Len(log)
           /\ rv \in Nat /\ NextRV = rv + 1 /\ NextRV \in Nat \ {0}
<1>1. SealRV \in Nat /\ (Ids # {} => SealRV # 0)
  BY SelectedAssumption, FS_CardinalityType, FS_EmptySet DEF SealRV
<1>2. Len(log) \in Nat /\ DOMAIN log = 1 .. Len(log)
  BY DEF Typed, IsSequence
<1>3. rv \in Nat
  BY DEF Typed, Numbered
<1> QED
  BY <1>1, <1>2, <1>3 DEF NextRV

\* An appended notice is the last.
LEMMA Appended ==
    ASSUME NEW s, NEW e, NEW t, IsSequence(s), t = Append(s, e)
    PROVE  /\ Len(t) = Len(s) + 1 /\ DOMAIN t = 1 .. Len(s) + 1
           /\ \A i \in DOMAIN s : t[i] = s[i]
           /\ t[Len(s) + 1] = e
           /\ IsSequence(t)
<1> DEFINE S == {s[i] : i \in DOMAIN s} \cup {e}
<1>1. s \in Seq(S)
  BY SeqMonotonic DEF S, IsSequence
<1>2. e \in S
  BY DEF S
<1> HIDE DEF S
<1>3. t \in Seq(S) /\ Len(t) = Len(s) + 1 /\ t[Len(s) + 1] = e
      /\ \A i \in 1 .. Len(s) : t[i] = s[i]
  BY <1>1, <1>2, AppendProperties
<1>4. Len(s) \in Nat /\ DOMAIN s = 1 .. Len(s) /\ DOMAIN t = 1 .. Len(s) + 1
  BY <1>1, <1>3, LenProperties
<1>5. PICK n : n = Len(s) + 1
  OBVIOUS
<1>6. n \in Nat /\ t \in [1 .. n -> S]
  BY <1>3, <1>4, <1>5, LenProperties
<1>7. PICK T : T = {t[i] : i \in DOMAIN t}
  OBVIOUS
<1>8. \A i \in 1 .. n : t[i] \in T
  BY <1>6, <1>7
<1>9. t \in [1 .. n -> T]
  BY <1>6, <1>8
<1>10. t \in Seq(T)
  BY <1>6, <1>9, SeqDef
<1>11. IsSequence(t)
  BY <1>7, <1>10 DEF IsSequence
<1> QED
  BY <1>3, <1>4, <1>11

\* Every other object is told of as before.
LEMMA OthersStay ==
    ASSUME Typed, NEW n, NEW id, log' = Append(log, n), n.obj.id = id, kind' = kind,
           NEW x \in Ids, x # id, store'[x] = store[x], Told(x) \/ Silent(x)
    PROVE  (Told(x) \/ Silent(x))' /\ (Resurrected(x) => Resurrected(x)')
<1>1. /\ Len(log) \in Nat /\ DOMAIN log = 1 .. Len(log)
      /\ Len(log') = Len(log) + 1 /\ DOMAIN log' = 1 .. Len(log) + 1
      /\ \A i \in DOMAIN log : log'[i] = log[i]
      /\ log'[Len(log) + 1] = n
  BY Versions, Appended DEF Typed
<1>2. Resurrected(x) => Resurrected(x)'
  BY <1>1 DEF Resurrected
<1>3. ASSUME Silent(x)
      PROVE  Silent(x)'
  BY <1>1, <1>3 DEF Silent
<1>4. ASSUME Told(x)
      PROVE  Told(x)'
  <2>1. PICK j \in DOMAIN log :
          /\ log[j].obj.id = x
          /\ \A i \in DOMAIN log : log[i].obj.id = x => i <= j /\ log[i].obj.rv <= log[j].obj.rv
          /\ IF log[j].type = "DELETED" THEN store[x] = None
             ELSE store[x] = log[j].obj \/ Resurrected(x)
    BY <1>4 DEF Told
  <2>2. /\ j \in DOMAIN log' /\ log'[j].obj.id = x
        /\ \A i \in DOMAIN log' : log'[i].obj.id = x => i <= j /\ log'[i].obj.rv <= log'[j].obj.rv
    BY <1>1, <2>1
  <2>3. IF log'[j].type = "DELETED" THEN store'[x] = None
        ELSE store'[x] = log'[j].obj \/ Resurrected(x)'
    BY <1>1, <1>2, <2>1
  <2> QED
    BY <2>2, <2>3 DEF Told, None
<1> QED
  BY <1>2, <1>3, <1>4

\* A write: a notice n about id goes to the end of the log, with the version of
\* the write or the one the object had.
LEMMA WriteStep ==
    ASSUME SelectedInv, NEW id \in Ids, NEW n,
           log' = Append(log, n), n.rv = NextRV, rv' = NextRV,
           UNCHANGED <<kind, query, filter, clientVars>>,
           IsObject(n.obj, id), n.obj.rv <= NextRV,
           \A i \in DOMAIN log : log[i].obj.id = id => log[i].obj.rv <= n.obj.rv,
           store' = [store EXCEPT ![id] = store'[id]],
           IF n.type = "DELETED" THEN store'[id] = None
           ELSE \/ store'[id] = n.obj
                \/ /\ kind = "nodes" /\ store'[id] = None /\ n.type = "MODIFIED"
                   /\ \E i \in DOMAIN log : log[i].obj.id = id /\ log[i].type = "DELETED"
    PROVE  SelectedInv'
<1>1. /\ SealRV \in Nat /\ Len(log) \in Nat /\ DOMAIN log = 1 .. Len(log)
      /\ rv \in Nat /\ n.rv = rv + 1 /\ rv' = rv + 1 /\ Typed
      /\ Len(log') = Len(log) + 1 /\ DOMAIN log' = 1 .. Len(log) + 1
      /\ \A i \in DOMAIN log : log'[i] = log[i]
      /\ log'[Len(log) + 1] = n /\ SealRV' = SealRV
      /\ IsSequence(log')
  <2>1. Typed
    BY DEF SelectedInv
  <2>2. /\ SealRV \in Nat /\ Len(log) \in Nat /\ DOMAIN log = 1 .. Len(log)
        /\ rv \in Nat /\ NextRV = rv + 1
    BY <2>1, Versions
  <2>3. /\ Len(log') = Len(log) + 1 /\ DOMAIN log' = 1 .. Len(log) + 1
        /\ \A i \in DOMAIN log : log'[i] = log[i]
        /\ log'[Len(log) + 1] = n
        /\ IsSequence(log')
    <3>1. IsSequence(log)
      BY <2>1 DEF Typed
    <3>2. IsSequence(log') /\ DOMAIN log' = 1 .. Len(log) + 1
      BY <3>1, Appended
    <3>3. \A i \in DOMAIN log : log'[i] = log[i]
      BY <3>1, Appended
    <3>4. Len(log') = Len(log) + 1 /\ log'[Len(log) + 1] = n
      BY <3>1, Appended
    <3> QED
      BY <3>2, <3>3, <3>4
  <2>4. SealRV' = SealRV
    BY DEF SealRV
  <2> QED
    BY <2>1, <2>2, <2>3, <2>4
<1>2. /\ store' = [x \in Ids |-> store'[x]]
      /\ \A x \in Ids : x # id => store'[x] = store[x]
  BY <1>1 DEF Typed
<1>4. Typed'
  <2>1. \A i \in DOMAIN log' : \E x \in Ids : IsObject(log'[i].obj, x)
    BY <1>1 DEF Typed
  <2>2. ASSUME NEW i \in DOMAIN log'
        PROVE  log'[i].obj.rv <= log'[i].rv
    <3>1. CASE i \in DOMAIN log
      BY <1>1, <3>1 DEF Typed
    <3>2. CASE i = Len(log) + 1
      BY <1>1, <3>2 DEF NextRV
    <3> QED
      BY <1>1, <3>1, <3>2
  <2>8. Numbered'
    <3>1. SealRV <= rv /\ \A i \in DOMAIN log : /\ log[i].rv \in Nat
                                               /\ SealRV < log[i].rv /\ log[i].rv <= rv
      BY <1>1 DEF Typed, Numbered
    <3>2. ASSUME NEW i \in DOMAIN log'
          PROVE  log'[i].rv \in Nat /\ SealRV < log'[i].rv /\ log'[i].rv <= rv'
      <4>1. CASE i \in DOMAIN log
        BY <1>1, <3>1, <4>1
      <4>2. CASE i = Len(log) + 1
        BY <1>1, <3>1, <4>2
      <4> QED
        BY <1>1, <4>1, <4>2
    <3>3. ASSUME NEW i \in DOMAIN log', NEW j \in DOMAIN log', i < j
          PROVE  log'[i].rv < log'[j].rv
      <4>1. i \in DOMAIN log
        BY <1>1, <3>3
      <4>2. CASE j \in DOMAIN log
        <5>1. log[i].rv < log[j].rv
          BY <1>1, <3>3, <4>1, <4>2 DEF Typed, Numbered
        <5> QED
          BY <1>1, <4>1, <4>2, <5>1
      <4>3. CASE j = Len(log) + 1
        BY <1>1, <3>1, <4>1, <4>3
      <4> QED
        BY <1>1, <4>2, <4>3
    <3>4. rv' \in Nat /\ SealRV <= rv'
      BY <1>1, <3>1
    <3> QED
      BY <1>1, <3>2, <3>3, <3>4 DEF Numbered
  <2>3. \A x \in Ids : store'[x] # None => IsObject(store'[x], x) /\ store'[x].rv <= rv'
    BY <1>1, <1>2 DEF Typed, IsObject
  <2>4. kind' \in DOMAIN Queries /\ cache' = [x \in Ids |-> cache'[x]]
    BY <1>1 DEF Typed, clientVars
  <2>5. (\A i \in DOMAIN log : \E x \in Ids : IsObject(log[i].obj, x))'
    BY <2>1 DEF IsObject, Scope
  <2>6. (\A x \in Ids : store[x] # None => IsObject(store[x], x) /\ store[x].rv <= rv)'
    BY <2>3 DEF IsObject, Scope
  <2>7. (\A i \in DOMAIN log : log[i].obj.rv <= log[i].rv)'
    BY <2>2
  <2> QED
    BY <1>1, <1>2, <2>4, <2>5, <2>6, <2>7, <2>8 DEF Typed
<1>5. n.obj.id = id
  BY DEF IsObject
<1>6. \A x \in Ids : x # id => (Told(x) \/ Silent(x))' /\ (Resurrected(x) => Resurrected(x)')
  BY <1>1, <1>2, <1>5, OthersStay DEF SelectedInv
<1>7. Told(id)'
  <2> DEFINE j == Len(log) + 1
  <2>1. /\ j \in DOMAIN log' /\ log'[j] = n /\ log'[j].obj.id = id
        /\ \A i \in DOMAIN log' : log'[i].obj.id = id =>
                i <= j /\ log'[i].obj.rv <= log'[j].obj.rv
    BY <1>1, <1>5 DEF IsObject
  <2>2. IF log'[j].type = "DELETED" THEN store'[id] = None
        ELSE store'[id] = log'[j].obj \/ Resurrected(id)'
    BY <1>1, <1>5, <2>1 DEF Resurrected
  <2> QED
    BY <2>1, <2>2 DEF Told
<1>8. Informed'
  <2>1. UNCHANGED <<pc, ver, reached, cache, sent, left>>
    BY <1>1 DEF clientVars
  <2>2. \A x \in Ids : x # id => (Explained(x) => Explained(x)')
    BY <1>2, <1>6, <2>1 DEF Explained, Listed, Disputed
\* The client has not seen the new notice, and of the others what it had.
  <2>3. PICK k : k = Len(log) + 1
    OBVIOUS
  <2>9. pc \in {"resume", "on"} => ~Seen(k)'
    <3>1. k \in Nat /\ log'[k].rv = rv + 1 /\ k > Len(log)
      BY <1>1, <2>3
    <3>2. CASE pc = "on"
      <4>1. sent \in 0 .. Len(log)
        BY <3>2 DEF SelectedInv, Informed
      <4> QED
        BY <1>1, <2>1, <3>1, <3>2, <4>1 DEF Seen
    <3>3. CASE pc = "resume"
      <4>1. ver \in Int /\ ver <= rv
        BY <3>3 DEF SelectedInv, Informed
      <4> QED
        BY <1>1, <2>1, <3>1, <3>3, <4>1 DEF Seen
    <3> QED
      BY <3>2, <3>3
  <2>4. \A i \in DOMAIN log : Seen(i)' = Seen(i)
    BY <1>1, <2>1 DEF Seen
  <2>5. ASSUME pc \in {"resume", "on"}, NEW x \in Ids,
               \A i \in DOMAIN log' : log'[i].obj.id = x => Seen(i)'
        PROVE  Explained(x)'
    <3>1. x # id
      BY <1>1, <1>5, <2>3, <2>5, <2>9
    <3>2. \A i \in DOMAIN log : log[i].obj.id = x => Seen(i)
      BY <1>1, <2>4, <2>5
    <3> QED
      BY <2>2, <2>5, <3>1, <3>2 DEF SelectedInv, Informed
  <2>6. pc = "on" => sent \in 0 .. Len(log') /\ \A i \in DOMAIN log' : i > sent => ver < log'[i].rv
    <3> SUFFICES ASSUME pc = "on"
                 PROVE  sent \in 0 .. Len(log') /\ \A i \in DOMAIN log' : i > sent => ver < log'[i].rv
      OBVIOUS
    <3>1. /\ sent \in 0 .. Len(log) /\ ver \in Int /\ ver <= rv
          /\ \A i \in DOMAIN log : i > sent => ver < log[i].rv
      BY DEF SelectedInv, Informed
    <3>2. ASSUME NEW i \in DOMAIN log', i > sent
          PROVE  ver < log'[i].rv
      BY <1>1, <3>1, <3>2
    <3> QED
      BY <1>1, <3>1, <3>2
  <2>7. pc # "start" => ver <= rv' /\ SealRV <= reached
    BY <1>1 DEF SelectedInv, Informed
  <2>8. pc \in {"start", "walk", "resume", "on"} /\ ver \in Int /\ reached \in Int
    BY DEF SelectedInv, Informed
  <2> QED
    BY <1>1, <2>1, <2>5, <2>6, <2>7, <2>8 DEF Informed
<1> QED
  BY <1>4, <1>6, <1>7, <1>8 DEF SelectedInv

\* An object with another version, or other fields, is an object.
LEMMA Renewed ==
    ASSUME NEW o, NEW id, IsObject(o, id), NEW v \in Nat \ {0}, NEW f, NEW n
    PROVE  /\ n = [o EXCEPT !.rv = v] => IsObject(n, id) /\ n.rv = v
           /\ n = [o EXCEPT !.fields = f] => IsObject(n, id) /\ n.rv = o.rv
<1>1. o = [id |-> o.id, rv |-> o.rv, ns |-> o.ns, labels |-> o.labels, fields |-> o.fields]
  BY DEF IsObject
<1>2. ASSUME n = [o EXCEPT !.rv = v]
      PROVE  IsObject(n, id) /\ n.rv = v
  <2>1. n = [id |-> o.id, rv |-> v, ns |-> o.ns, labels |-> o.labels, fields |-> o.fields]
    BY <1>1, <1>2
  <2> QED
    BY <2>1 DEF IsObject
<1>3. ASSUME n = [o EXCEPT !.fields = f]
      PROVE  IsObject(n, id) /\ n.rv = o.rv
  <2>1. n = [id |-> o.id, rv |-> o.rv, ns |-> o.ns, labels |-> o.labels, fields |-> f]
    BY <1>1, <1>3
  <2> QED
    BY <2>1 DEF IsObject
<1> QED
  BY <1>2, <1>3

\* The five kinds of writes.
LEMMA EveryWrite ==
    ASSUME SelectedInv, NEW id \in Ids,
           Add(id) \/ Touch(id) \/ Evict(id) \/ DeleteGeneric(id) \/ Flip(id)
    PROVE  SelectedInv'
<1>1. /\ SealRV \in Nat /\ Len(log) \in Nat /\ DOMAIN log = 1 .. Len(log)
      /\ rv \in Nat /\ NextRV = rv + 1 /\ NextRV \in Nat \ {0} /\ Typed
      /\ UNCHANGED <<kind, query, filter, clientVars>>
  BY Versions DEF SelectedInv, Add, Touch, Evict, DeleteGeneric, Flip, Writing
<1>2. \A i \in DOMAIN log : log[i].obj.rv <= rv
  <2>1. ASSUME NEW i \in DOMAIN log
        PROVE  log[i].obj.rv <= rv
    <3>1. /\ log[i].obj.rv <= log[i].rv /\ log[i].obj.rv \in Nat
          /\ log[i].rv \in Nat /\ log[i].rv <= rv
      BY <1>1 DEF Typed, Numbered, IsObject
    <3> QED
      BY <1>1, <3>1
  <2> QED
    BY <2>1
<1>3. \A i \in DOMAIN log : log[i].obj.rv \in Nat
  BY <1>1 DEF Typed, IsObject
<1>4. store[id] # None => IsObject(store[id], id) /\ store[id].rv <= rv
  BY <1>1 DEF Typed
<1>5. Told(id) \/ Silent(id)
  BY DEF SelectedInv
\* A new version is newer than any.
<1>6. ASSUME NEW n, IsObject(n.obj, id), n.obj.rv = NextRV
      PROVE  /\ n.obj.rv <= NextRV
             /\ \A i \in DOMAIN log : log[i].obj.id = id => log[i].obj.rv <= n.obj.rv
  BY <1>1, <1>2, <1>3, <1>6
<1>7. CASE Add(id)
  <2> DEFINE o == Object(id, Fresh(id), NextRV)
             n == [type |-> "ADDED", rv |-> NextRV, obj |-> o]
  <2>1. log' = Append(log, n) /\ rv' = NextRV /\ store' = [store EXCEPT ![id] = o]
    BY <1>7 DEF Add, Emit
  <2>2. IsObject(o, id) /\ o.rv = NextRV
    BY <1>1 DEF IsObject, Object
  <2> HIDE DEF o
  <2>3. store' = [store EXCEPT ![id] = store'[id]] /\ store'[id] = o
    BY <1>1, <2>1 DEF Typed
  <2>4. n.obj = o /\ n.type = "ADDED" /\ n.rv = NextRV
    OBVIOUS
  <2> HIDE DEF n
  <2> QED
    BY <1>1, <1>6, <2>1, <2>2, <2>3, <2>4, WriteStep
<1>8. CASE Touch(id)
  <2>1. PICK f, n :
          /\ log' = Append(log, n) /\ n.type = "MODIFIED" /\ n.rv = NextRV /\ rv' = NextRV
          /\ n.obj = [[store[id] EXCEPT !.rv = NextRV] EXCEPT !.fields = f]
          /\ store' = [store EXCEPT ![id] = n.obj]
    <3>1. PICK change \in Changes(store[id]) :
            LET o == [store[id] EXCEPT !.rv = NextRV, !.fields = Changed(@, change)]
            IN store' = [store EXCEPT ![id] = o] /\ Emit("MODIFIED", o)
      BY <1>8 DEF Touch
    <3> DEFINE o == [store[id] EXCEPT !.rv = NextRV, !.fields = Changed(@, change)]
    <3>2. /\ store' = [store EXCEPT ![id] = o] /\ rv' = NextRV
          /\ log' = Append(log, [type |-> "MODIFIED", rv |-> NextRV, obj |-> o])
      BY <3>1 DEF Emit
    <3> WITNESS Changed([store[id] EXCEPT !.rv = NextRV].fields, change),
                [type |-> "MODIFIED", rv |-> NextRV, obj |-> o]
    <3> QED
      BY <3>2
  <2>2. store[id] # None
    BY <1>8 DEF Touch
  <2>3. IsObject(n.obj, id) /\ n.obj.rv = NextRV
    <3>1. NextRV \in Nat \ {0}
      BY <1>1
    <3>2. PICK x : x = [store[id] EXCEPT !.rv = NextRV]
      OBVIOUS
    <3>3. IsObject(x, id) /\ x.rv = NextRV
      BY <1>4, <2>2, <3>1, <3>2, Renewed
    <3>4. n.obj = [x EXCEPT !.fields = f]
      BY <2>1, <3>2
    <3>5. IsObject(n.obj, id) /\ n.obj.rv = x.rv
      BY <3>1, <3>3, <3>4, Renewed
    <3> QED
      BY <3>3, <3>5
  <2>4. store' = [store EXCEPT ![id] = store'[id]] /\ store'[id] = n.obj
    BY <1>1, <2>1 DEF Typed
  <2> QED
    BY <1>1, <1>6, <2>1, <2>3, <2>4, WriteStep
<1>9. CASE Evict(id)
  <2>1. PICK n : /\ log' = Append(log, n) /\ n.type = "DELETED"
                 /\ n.rv = NextRV /\ rv' = NextRV
                 /\ n.obj = [store[id] EXCEPT !.rv = NextRV]
    BY <1>9 DEF Evict, Emit
  <2>2. store[id] # None /\ store' = [store EXCEPT ![id] = None]
    BY <1>9 DEF Evict
  <2>3. IsObject(n.obj, id) /\ n.obj.rv = NextRV
    BY <1>1, <1>4, <2>1, <2>2 DEF IsObject
  <2>4. store' = [store EXCEPT ![id] = store'[id]] /\ store'[id] = None
    BY <1>1, <2>2 DEF Typed
  <2> QED
    BY <1>1, <1>6, <2>1, <2>3, <2>4, WriteStep
\* The notice carries the version of the last one about the object.
<1>10. CASE DeleteGeneric(id)
  <2>1. PICK n : /\ log' = Append(log, n) /\ n.type = "DELETED" /\ n.obj = store[id]
                 /\ n.rv = NextRV /\ rv' = NextRV
    BY <1>10 DEF DeleteGeneric, Emit
  <2>2. store[id] # None /\ store' = [store EXCEPT ![id] = None]
    BY <1>10 DEF DeleteGeneric
  <2>3. IsObject(n.obj, id) /\ n.obj.rv <= NextRV
    BY <1>1, <1>4, <2>1, <2>2 DEF IsObject
  <2>4. store' = [store EXCEPT ![id] = store'[id]] /\ store'[id] = None
    BY <1>1, <2>2 DEF Typed
  <2>5. \A i \in DOMAIN log : log[i].obj.id = id => log[i].obj.rv <= n.obj.rv
    BY <1>5, <2>1, <2>2 DEF Told, Silent, Resurrected
  <2> QED
    BY <1>1, <2>1, <2>3, <2>4, <2>5, WriteStep
\* A node that is gone was deleted, and has a last notice, which is announced again.
<1>11. CASE Flip(id)
  <2> DEFINE was == {log[i].obj : i \in {j \in DOMAIN log : log[j].obj.id = id}}
             o   == CHOOSE x \in was : \A y \in was : y.rv <= x.rv
  <2>1. /\ kind = "nodes" /\ id \in Initial[kind] /\ store[id] = None /\ store' = store
        /\ Emit("MODIFIED", [o EXCEPT !.rv = NextRV])
    BY <1>11 DEF Flip
  <2>2. Told(id)
    BY <1>5, <2>1 DEF Silent
  <2>3. PICK j \in DOMAIN log :
          /\ log[j].obj.id = id
          /\ \A i \in DOMAIN log : log[i].obj.id = id => log[i].obj.rv <= log[j].obj.rv
          /\ IF log[j].type = "DELETED" THEN store[id] = None
             ELSE store[id] = log[j].obj \/ Resurrected(id)
    BY <2>2 DEF Told
  <2>4. log[j].obj \in was /\ \A y \in was : y.rv <= log[j].obj.rv
    BY <2>3
  <2>5. o \in was
    BY <2>4
  <2>6. PICK i \in DOMAIN log : o = log[i].obj /\ log[i].obj.id = id
    BY <2>5
  <2> HIDE DEF o, was
  <2>7. IsObject(o, id)
    BY <1>1, <2>6 DEF Typed, IsObject
  <2>8. \E k \in DOMAIN log : log[k].obj.id = id /\ log[k].type = "DELETED"
    <3>1. CASE log[j].type = "DELETED"
      BY <2>3, <3>1
    <3>2. CASE Resurrected(id)
      BY <3>2 DEF Resurrected
    <3>3. store[id] # log[j].obj
      <4>1. log[j].obj.rv # 0
        BY <1>1 DEF Typed, IsObject
      <4> QED
        BY <2>1, <4>1 DEF None
    <3> QED
      BY <2>3, <3>1, <3>2, <3>3
  <2>9. PICK n : /\ log' = Append(log, n) /\ n.type = "MODIFIED"
                 /\ n.rv = NextRV /\ rv' = NextRV
                 /\ n.obj = [o EXCEPT !.rv = NextRV]
    <3> WITNESS [type |-> "MODIFIED", rv |-> NextRV, obj |-> [o EXCEPT !.rv = NextRV]]
    <3> QED
      BY <2>1 DEF Emit
  <2>10. IsObject(n.obj, id) /\ n.obj.rv = NextRV
    <3>1. NextRV \in Nat \ {0}
      BY <1>1
    <3> QED
      BY <2>7, <2>9, <3>1, Renewed
  <2>11. store' = [store EXCEPT ![id] = store'[id]] /\ store'[id] = None
    BY <1>1, <2>1 DEF Typed
  <2> QED
    BY <1>1, <1>6, <2>1, <2>8, <2>9, <2>10, <2>11, WriteStep
<1> QED
  BY <1>7, <1>8, <1>9, <1>10, <1>11

\* A delivered notice, when it is the last about its object, accounts for it.
LEMMA LastDelivered ==
    ASSUME Typed, NEW id \in Ids, NEW n, Told(id), kind' = kind, query' = query,
           filter' = filter, store' = store, log' = log, n.obj.id = id,
           NEW j \in DOMAIN log, n = log[j],
           \A i \in DOMAIN log : log[i].obj.id = id => i <= j,
           IF NoticeMatches(kind, WatchScope, filter, n.obj)
           THEN cache'[id] = IF n.type = "DELETED" THEN None ELSE n.obj
           ELSE (cache[id] = None /\ cache'[id] = None) \/ id \in left'
    PROVE  Explained(id)'
<1> DEFINE o == n.obj
           Here == query.ns # "" /\ kind \notin ClusterScoped => o.ns = query.ns
<1>1. IF n.type = "DELETED" THEN store[id] = None ELSE store[id] = o \/ Resurrected(id)
  <2>1. PICK k \in DOMAIN log :
          /\ log[k].obj.id = id
          /\ \A i \in DOMAIN log : log[i].obj.id = id => i <= k
          /\ IF log[k].type = "DELETED" THEN store[id] = None
             ELSE store[id] = log[k].obj \/ Resurrected(id)
    BY DEF Told
  <2>2. k = j
    BY <2>1, Versions
  <2> QED
    BY <2>1, <2>2
<1>2. NoticeMatches(kind, WatchScope, filter, o)
          <=> Here /\ NoticeMatches(kind, "", filter, o)
  BY DEF NoticeMatches, WatchScope
<1>3. Listed(id)' = Listed(id) /\ (Resurrected(id) => Resurrected(id)')
  BY DEF Listed, Resurrected
<1>4. CASE n.type = "DELETED"
  BY <1>1, <1>3, <1>4 DEF Explained, Listed
<1>5. CASE n.type # "DELETED" /\ store[id] = o /\ store[id] # None
  <2>1. Disputed(store[id]) \/ (ListMatches(kind, filter, o) <=> NoticeMatches(kind, "", filter, o))
    BY <1>5 DEF Disputed, ListMatches, NoticeMatches, LabelsMatch, FieldsMatch
  <2>2. Listed(id) = IF Here /\ ListMatches(kind, filter, o) THEN o ELSE None
    BY <1>5 DEF Listed
  <2>3. cache'[id] = Listed(id) \/ id \in left' \/ Disputed(store[id])
    BY <1>2, <1>5, <2>1, <2>2
  <2> QED
    BY <1>3, <1>5, <2>3 DEF Explained, Disputed
<1>6. CASE n.type # "DELETED" /\ store[id] = o /\ store[id] = None
  BY <1>3, <1>6 DEF Explained, Listed
<1> QED
  BY <1>1, <1>3, <1>4, <1>5, <1>6 DEF Explained

\* While the server does nothing, its part of the state is as it was.
LEMMA ServerStays ==
    ASSUME Typed, UNCHANGED serverVars, cache' = [id \in Ids |-> cache'[id]]
    PROVE  Typed'
<1>1. UNCHANGED <<kind, store, log, rv>>
  BY DEF serverVars
<1>2. (\A i \in DOMAIN log : \E id \in Ids : IsObject(log[i].obj, id))'
  <2>1. ASSUME NEW i \in DOMAIN log
        PROVE  \E id \in Ids : IsObject(log[i].obj, id)'
    <3>1. PICK id \in Ids : IsObject(log[i].obj, id)
      BY DEF Typed
    <3>2. IsObject(log[i].obj, id)'
      BY <1>1, <3>1 DEF IsObject, Scope
    <3> QED
      BY <3>2
  <2> QED
    BY <1>1, <2>1
<1>3. (\A id \in Ids : store[id] # None => IsObject(store[id], id) /\ store[id].rv <= rv)'
  BY <1>1 DEF Typed, IsObject, Scope
<1>4. Numbered' /\ (\A i \in DOMAIN log : log[i].obj.rv <= log[i].rv)'
  BY <1>1 DEF Typed, Numbered, SealRV
<1>5. IsSequence(log') /\ kind' \in DOMAIN Queries /\ store' = [id \in Ids |-> store'[id]]
  BY <1>1 DEF Typed
<1> QED
  BY <1>2, <1>3, <1>4, <1>5 DEF Typed

\* A version drawn for another kind changes nothing of this one.
LEMMA OtherKindStep ==
    ASSUME SelectedInv, OtherKind
    PROVE  SelectedInv'
<1>1. /\ kind' = kind /\ query' = query /\ filter' = filter /\ store' = store /\ log' = log
      /\ pc' = pc /\ ver' = ver /\ cache' = cache /\ sent' = sent /\ reached' = reached
      /\ left' = left /\ rv' = rv + 1 /\ rv \in Nat
  <2>1. UNCHANGED <<kind, query, filter, store, log, clientVars>> /\ rv' = NextRV
    BY DEF OtherKind
  <2>2. rv \in Nat /\ NextRV = rv + 1
    BY Versions DEF SelectedInv
  <2> QED
    BY <2>1, <2>2 DEF clientVars
<1>2. SealRV' = SealRV
  BY DEF SealRV
<1>9. SealRV \in Nat
  BY Versions DEF SelectedInv
<1>3. Numbered'
  BY <1>1, <1>2, <1>9 DEF SelectedInv, Typed, Numbered
<1>8. ASSUME NEW id \in Ids, store[id] # None
      PROVE  IsObject(store[id], id)' /\ store'[id].rv <= rv'
  <2>1. IsObject(store[id], id) /\ store[id].rv <= rv
    BY <1>8 DEF SelectedInv, Typed
  <2>2. IsObject(store[id], id)'
    BY <1>1, <2>1 DEF IsObject, Scope
  <2> QED
    BY <1>1, <2>1, <2>2 DEF IsObject
<1>4. (\A id \in Ids : store[id] # None => IsObject(store[id], id) /\ store[id].rv <= rv)'
  BY <1>1, <1>8
<1>10. (\A i \in DOMAIN log : \E id \in Ids : IsObject(log[i].obj, id))'
  <2>1. ASSUME NEW i \in DOMAIN log
        PROVE  \E id \in Ids : IsObject(log[i].obj, id)'
    <3>1. PICK id \in Ids : IsObject(log[i].obj, id)
      BY DEF SelectedInv, Typed
    <3>2. IsObject(log[i].obj, id)'
      BY <1>1, <3>1 DEF IsObject, Scope
    <3> QED
      BY <3>2
  <2> QED
    BY <1>1, <2>1
<1>5. Typed'
  BY <1>1, <1>3, <1>4, <1>10 DEF SelectedInv, Typed
<1>6. \A id \in Ids : (Told(id) \/ Silent(id))'
  BY <1>1 DEF SelectedInv, Told, Silent, Resurrected
<1>7. Informed'
  <2>1. \A i : Seen(i)' = Seen(i)
    BY <1>1 DEF Seen
  <2>2. \A id \in Ids : Explained(id)' = Explained(id)
    BY <1>1 DEF Explained, Listed, Disputed, Resurrected
  <2>3. /\ pc \in {"start", "walk", "resume", "on"} /\ ver \in Int /\ reached \in Int
        /\ pc # "start" => ver <= rv /\ SealRV <= reached
        /\ pc = "on" => sent \in 0 .. Len(log) /\ \A i \in DOMAIN log : i > sent => ver < log[i].rv
    BY DEF SelectedInv, Informed
  <2>4. pc' # "start" => ver' <= rv' /\ SealRV' <= reached'
    BY <1>1, <1>2, <2>3
  <2>5. (pc \in {"resume", "on"} => \A id \in Ids :
            (\A i \in DOMAIN log : log[i].obj.id = id => Seen(i)) => Explained(id))'
    BY <1>1, <2>1, <2>2 DEF SelectedInv, Informed
  <2> QED
    BY <1>1, <2>3, <2>4, <2>5 DEF Informed
<1> QED
  BY <1>5, <1>6, <1>7 DEF SelectedInv

\* The steps of the client and of the handlers.
LEMMA EveryRead ==
    ASSUME SelectedInv, Client \/ Drop
    PROVE  SelectedInv'
<1>1. /\ SealRV \in Nat /\ Len(log) \in Nat /\ DOMAIN log = 1 .. Len(log)
      /\ rv \in Nat /\ SealRV <= rv /\ Typed
  BY Versions DEF SelectedInv, Typed, Numbered
<1>2. /\ UNCHANGED serverVars /\ SealRV' = SealRV /\ rv' = rv /\ log' = log
      /\ kind' = kind /\ query' = query /\ filter' = filter /\ store' = store
  BY DEF Client, Drop, ListBegin, ListWalk, Watch, Gone, Deliver, serverVars, SealRV
<1>3. ASSUME cache' = [id \in Ids |-> cache'[id]]
      PROVE  Typed'
  BY <1>1, <1>2, <1>3, ServerStays
<1>4. \A id \in Ids : (Told(id) \/ Silent(id))'
  BY <1>2 DEF SelectedInv, Told, Silent, Resurrected, serverVars
<1>5. \A id \in Ids : /\ Listed(id)' = Listed(id)
                      /\ Resurrected(id) => Resurrected(id)'
                      /\ Disputed(store[id]) => Disputed(store[id])'
  BY <1>2 DEF Listed, Resurrected, Disputed
<1>6. Informed
  BY DEF SelectedInv
<1>7. CASE ListBegin \/ Gone
  <2>1. Typed'
    BY <1>1, <1>3, <1>7 DEF ListBegin, Gone, Typed
  <2>2. Informed'
    BY <1>1, <1>2, <1>6, <1>7 DEF ListBegin, Gone, Informed
  <2> QED
    BY <1>4, <2>1, <2>2 DEF SelectedInv
<1>8. CASE ListWalk
  <2>1. /\ cache' = [id \in Ids |-> Listed(id)] /\ UNCHANGED <<ver, reached>>
        /\ pc' = "resume" /\ pc = "walk"
    BY <1>8 DEF ListWalk
  <2>2. Typed'
    BY <1>3, <2>1
  <2>3. \A id \in Ids : Explained(id)'
    BY <1>5, <2>1 DEF Explained
  <2>4. Informed'
    BY <1>2, <1>6, <2>1, <2>3 DEF Informed
  <2> QED
    BY <1>4, <2>2, <2>4 DEF SelectedInv
\* Reading on from another place leaves what the client holds.
<1>9. ASSUME UNCHANGED <<cache, left>>, \A i \in DOMAIN log : Seen(i)' => Seen(i),
             pc \in {"resume", "on"}
      PROVE  /\ Typed'
             /\ \A id \in Ids : (\A i \in DOMAIN log : log[i].obj.id = id => Seen(i)') => Explained(id)'
  <2>1. Typed'
    BY <1>1, <1>3, <1>9 DEF Typed
  <2>2. ASSUME NEW id \in Ids, \A i \in DOMAIN log : log[i].obj.id = id => Seen(i)'
        PROVE  Explained(id)'
    <3>1. \A i \in DOMAIN log : log[i].obj.id = id => Seen(i)
      BY <1>9, <2>2
    <3>2. Explained(id)
      BY <1>6, <1>9, <3>1 DEF Informed
    <3> QED
      BY <1>2, <1>5, <1>9, <3>2 DEF Explained, Disputed, serverVars
  <2> QED
    BY <2>1, <2>2
\* What the ring no longer holds, an accepted client has seen.
<1>10. CASE Watch
  <2>1. /\ pc = "resume" /\ pc' = "on" /\ ~(ver < Floor) /\ UNCHANGED <<ver, reached, cache, left>>
        /\ sent' \in Len(log) - Kept .. Len(log)
        /\ \A i \in Oldest .. Len(log) : i > sent' <=> log[i].rv > ver
    BY <1>10 DEF Watch, TooOld
  <2>2. ver \in Int /\ reached \in Int /\ ver <= rv /\ SealRV <= reached
    BY <1>6, <2>1 DEF Informed
  <2>3. /\ Kept \in 0 .. Len(log) /\ Oldest = Len(log) - Kept + 1
        /\ Kept < Len(log) => Oldest \in DOMAIN log /\ Floor = log[Oldest].rv - 1
    <3>1. RingSize \in Nat \ {0}
      BY SelectedAssumption
    <3>2. CASE Len(log) < RingSize
      BY <1>1, <3>1, <3>2 DEF Kept, Oldest
    <3>3. CASE ~(Len(log) < RingSize)
      <4>1. Kept = RingSize /\ Floor = log[Oldest].rv - 1
        BY <3>3 DEF Kept, Floor
      <4>2. Oldest = Len(log) - RingSize + 1
        BY <4>1 DEF Oldest
      <4> QED
        BY <1>1, <3>1, <3>3, <4>1, <4>2
    <3> QED
      BY <3>2, <3>3
  <2>4. sent' \in 0 .. Len(log)
    BY <1>1, <2>1, <2>3
  <2>5. ASSUME NEW i \in DOMAIN log
        PROVE  i > sent' <=> log[i].rv > ver
    <3>1. CASE i \in Oldest .. Len(log)
      BY <2>1, <3>1
    <3>2. CASE i < Oldest
      <4>1. Kept < Len(log)
        BY <1>1, <2>3, <3>2
      <4>2. log[i].rv < log[Oldest].rv /\ log[i].rv \in Nat /\ log[Oldest].rv \in Nat
        BY <1>1, <2>3, <3>2, <4>1 DEF Typed, Numbered
      <4>3. log[i].rv <= ver
        BY <2>1, <2>2, <2>3, <4>1, <4>2
      <4>4. i <= sent'
        BY <1>1, <2>1, <2>3, <3>2
      <4> QED
        BY <1>1, <2>2, <2>4, <4>2, <4>3, <4>4
    <3> QED
      BY <1>1, <2>3, <3>1, <3>2
  <2>6. \A i \in DOMAIN log : Seen(i)' => Seen(i)
    <3>1. ASSUME NEW i \in DOMAIN log, Seen(i)'
          PROVE  Seen(i)
      <4>1. i <= sent'
        BY <2>1, <3>1 DEF Seen
      <4>2. ~(log[i].rv > ver) /\ log[i].rv \in Nat
        BY <1>1, <2>4, <2>5, <4>1 DEF Typed, Numbered
      <4> QED
        BY <2>1, <2>2, <4>2 DEF Seen
    <3> QED
      BY <3>1
  <2>7. /\ Typed'
        /\ \A id \in Ids : (\A i \in DOMAIN log : log[i].obj.id = id => Seen(i)') => Explained(id)'
    BY <1>9, <2>1, <2>6
  <2>8. \A i \in DOMAIN log : i > sent' => ver < log[i].rv
    BY <2>5
  <2>9. Informed'
    BY <1>1, <1>2, <2>1, <2>2, <2>4, <2>7, <2>8 DEF Informed
  <2> QED
    BY <1>4, <2>7, <2>9 DEF SelectedInv
\* What is still in the queue is newer than what the client would ask for.
<1>11. CASE Drop
  <2>1. pc = "on" /\ pc' = "resume" /\ UNCHANGED <<ver, reached, cache, left, sent>>
    BY <1>11 DEF Drop
  <2>2. /\ ver \in Int /\ reached \in Int /\ ver <= rv /\ SealRV <= reached /\ sent \in 0 .. Len(log)
        /\ \A i \in DOMAIN log : i > sent => ver < log[i].rv
    BY <1>6, <2>1 DEF Informed
  <2>3. \A i \in DOMAIN log : Seen(i)' => Seen(i)
    <3>1. ASSUME NEW i \in DOMAIN log, Seen(i)'
          PROVE  Seen(i)
      <4>1. log[i].rv <= ver /\ log[i].rv \in Nat
        BY <1>1, <1>2, <2>1, <3>1 DEF Seen, Typed, Numbered
      <4>2. ~(i > sent)
        BY <2>2, <4>1
      <4>3. i <= sent
        BY <1>1, <2>2, <4>2
      <4> QED
        BY <2>1, <4>3 DEF Seen
    <3> QED
      BY <3>1
  <2>4. /\ Typed'
        /\ \A id \in Ids : (\A i \in DOMAIN log : log[i].obj.id = id => Seen(i)') => Explained(id)'
    BY <1>9, <2>1, <2>3
  <2>5. Informed'
    BY <1>1, <1>2, <2>1, <2>2, <2>4 DEF Informed
  <2> QED
    BY <1>4, <2>4, <2>5 DEF SelectedInv
<1>12. CASE Deliver
  <2>1. PICK n : n = log[sent + 1]
    OBVIOUS
  <2>2. PICK id : id = n.obj.id
    OBVIOUS
  <2>3. /\ pc = "on" /\ pc' = "on" /\ sent < Len(log) /\ sent' = sent + 1
        /\ IF NoticeMatches(kind, WatchScope, filter, n.obj)
           THEN /\ cache' = [cache EXCEPT ![id] = IF n.type = "DELETED" THEN None ELSE n.obj]
                /\ ver' = n.obj.rv
                /\ left' = left \ {id}
                /\ reached' = n.rv
           ELSE /\ left' = IF cache[id] = None THEN left ELSE left \cup {id}
                /\ UNCHANGED <<cache, ver, reached>>
    BY <1>12, <2>1, <2>2 DEF Deliver
  <2>4. /\ sent \in 0 .. Len(log) /\ ver \in Int /\ ver <= rv /\ SealRV <= reached
        /\ \A i \in DOMAIN log : i > sent => ver < log[i].rv
    BY <1>6, <2>3 DEF Informed
  <2>5. sent + 1 \in DOMAIN log /\ sent' \in 0 .. Len(log)
    BY <1>1, <2>3, <2>4
  <2>6. /\ id \in Ids /\ n.obj.rv \in Nat /\ n.obj.rv <= n.rv
        /\ n.rv \in Nat /\ SealRV <= n.rv /\ n.rv <= rv
        /\ \A i \in DOMAIN log : i > sent' => n.rv < log[i].rv /\ log[i].rv \in Nat
    <3>1. id \in Ids /\ n.obj.rv \in Nat
      BY <2>1, <2>2, <2>5, <1>1 DEF Typed, IsObject
    <3>2. /\ n.obj.rv <= n.rv /\ n.rv \in Nat /\ SealRV < n.rv /\ n.rv <= rv
      BY <2>1, <2>5, <1>1 DEF Typed, Numbered
    <3>3. \A i \in DOMAIN log : i > sent' => n.rv < log[i].rv /\ log[i].rv \in Nat
      BY <2>1, <2>3, <2>5, <1>1 DEF Typed, Numbered
    <3> QED
      BY <1>1, <3>1, <3>2, <3>3
  <2>7. Typed'
    BY <1>1, <1>3, <2>3 DEF Typed
  <2>8. \A x \in Ids : x # id => cache'[x] = cache[x] /\ (x \in left => x \in left')
    BY <1>1, <2>3 DEF Typed
  <2>9. ASSUME NEW x \in Ids, \A i \in DOMAIN log : log[i].obj.id = x => i <= sent'
        PROVE  Explained(x)'
    <3>1. CASE x # id
      <4>1. \A i \in DOMAIN log : log[i].obj.id = x => Seen(i)
        BY <1>1, <2>1, <2>2, <2>3, <2>4, <2>9, <3>1 DEF Seen
      <4>2. Explained(x)
        BY <1>6, <2>3, <4>1 DEF Informed
      <4> QED
        BY <1>2, <1>5, <2>8, <3>1, <4>2 DEF Explained, Disputed, serverVars
    <3>2. CASE x = id
      <4>1. ~Silent(id)
        BY <2>1, <2>2, <2>5 DEF Silent
      <4>2. Told(id)
        BY <2>6, <4>1 DEF SelectedInv
      <4>3. \A i \in DOMAIN log : log[i].obj.id = id => i <= sent + 1
        BY <2>3, <2>9, <3>2
      <4>4. IF NoticeMatches(kind, WatchScope, filter, n.obj)
            THEN cache'[id] = IF n.type = "DELETED" THEN None ELSE n.obj
            ELSE (cache[id] = None /\ cache'[id] = None) \/ id \in left'
        BY <1>1, <2>3, <2>6 DEF Typed
      <4>5. Explained(id)'
        BY <1>1, <1>2, <2>1, <2>2, <2>5, <2>6, <4>2, <4>3, <4>4, LastDelivered DEF serverVars
      <4> QED
        BY <3>2, <4>5
    <3> QED
      BY <3>1, <3>2
  <2>10. Informed'
    <3>1. \A i \in DOMAIN log : Seen(i)' = (i <= sent')
      BY <2>3 DEF Seen
    <3>2. ver' \in Int /\ reached' \in Int /\ ver' <= rv /\ SealRV <= reached'
      BY <1>1, <1>6, <2>3, <2>4, <2>6 DEF Informed
    <3>3. ASSUME NEW i \in DOMAIN log, i > sent'
          PROVE  ver' < log[i].rv
      <4>1. n.rv < log[i].rv /\ log[i].rv \in Nat /\ i > sent
        BY <1>1, <2>3, <2>4, <2>6, <3>3
      <4>2. ver < log[i].rv
        BY <2>4, <4>1
      <4>3. ver' = n.obj.rv \/ ver' = ver
        BY <2>3
      <4> QED
        BY <2>6, <4>1, <4>2, <4>3
    <3>4. \A x \in Ids : (\A i \in DOMAIN log : log[i].obj.id = x => Seen(i)') => Explained(x)'
      BY <2>9, <3>1
    <3> QED
      BY <1>2, <2>3, <2>5, <3>2, <3>3, <3>4 DEF Informed
  <2> QED
    BY <1>4, <2>7, <2>10 DEF SelectedInv
<1> QED
  BY <1>7, <1>8, <1>10, <1>11, <1>12 DEF Client

\* What was built has the version 1, and nothing has been said of it.
LEMMA Built ==
    ASSUME Init
    PROVE  SelectedInv
<1>1. /\ kind \in DOMAIN Queries /\ log = <<>> /\ rv = SealRV /\ pc = "start" /\ ver = 0 /\ reached = 0
      /\ store = [id \in Ids |-> IF id \in Initial[kind] THEN Object(id, Fresh(id), 1) ELSE None]
      /\ cache = [id \in Ids |-> None]
  BY DEF Init
<1>2. IsSequence(log) /\ DOMAIN log = {} /\ Len(log) = 0
  BY <1>1 DEF IsSequence
<1>3. ASSUME NEW id \in Ids, store[id] # None
      PROVE  IsObject(store[id], id) /\ store[id].rv <= rv
  <2>1. store[id] = Object(id, Fresh(id), 1)
    BY <1>1, <1>3
  <2>2. IsObject(store[id], id) /\ store[id].rv = 1
    BY <2>1 DEF IsObject, Object
  <2>3. SealRV \in Nat /\ SealRV # 0
    BY SelectedAssumption, FS_CardinalityType, FS_EmptySet DEF SealRV
  <2> QED
    BY <1>1, <2>2, <2>3
<1>4. Typed
  <2>1. SealRV \in Nat
    BY SelectedAssumption, FS_CardinalityType DEF SealRV
  <2>2. Numbered
    BY <1>1, <1>2, <2>1 DEF Numbered
  <2> QED
    BY <1>1, <1>2, <1>3, <2>2 DEF Typed
<1>5. ASSUME NEW id \in Ids
      PROVE  Silent(id)
  <2>1. id \in Initial[kind] => store[id].rv = 1
    BY <1>1, <1>5 DEF Object
  <2> QED
    BY <1>2, <2>1 DEF Silent, None
<1>6. Informed
  BY <1>1 DEF Informed
<1> QED
  BY <1>4, <1>5, <1>6 DEF SelectedInv

\* What an informer holds, and what it has yet to be sent, keep step at every
\* write, stream and LIST.
THEOREM SelectedAlways == Spec => []SelectedInv
<1>1. SelectedInv /\ [Next]_vars => SelectedInv'
  <2> SUFFICES ASSUME SelectedInv, [Next]_vars
               PROVE  SelectedInv'
    OBVIOUS
  <2>1. CASE \E id \in Ids : Add(id) \/ Touch(id) \/ Evict(id) \/ DeleteGeneric(id) \/ Flip(id)
    BY <2>1, EveryWrite
  <2>2. CASE Client \/ Drop
    BY <2>2, EveryRead
  <2>3. CASE UNCHANGED vars
    <3>1. UNCHANGED <<kind, query, filter, store, rv, log, pc, ver, cache, sent, reached, left>>
      BY <2>3 DEF vars, serverVars, clientVars
    <3>2. Typed'
      BY <3>1, ServerStays DEF SelectedInv, Typed, serverVars
    <3>3. \A id \in Ids : (Told(id) \/ Silent(id))'
      BY <3>1 DEF SelectedInv, Told, Silent, Resurrected
    <3>4. Informed'
      BY <3>1 DEF SelectedInv, Informed, Seen, SealRV, Explained, Listed, Disputed, Resurrected
    <3> QED
      BY <3>2, <3>3, <3>4 DEF SelectedInv
  <2>4. CASE OtherKind
    BY <2>4, OtherKindStep
  <2> QED
    BY <2>1, <2>2, <2>3, <2>4 DEF Next
<1> QED
  BY <1>1, Built, PTL DEF Spec

-----------------------------------------------------------------------------
(* What the runs check.                                                    *)

\* A client that has been sent everything holds what a LIST would return, but for
\* the three kinds of objects the stream is silent or wrong about.
THEOREM CachesAreExplained == Spec => []CacheIsExplained
<1>1. SelectedInv => CacheIsExplained
  <2> SUFFICES ASSUME SelectedInv, CaughtUp, NEW id \in Ids
               PROVE  Explained(id)
    BY DEF CacheIsExplained, Explained
  <2>1. pc = "on" /\ sent = Len(log) /\ DOMAIN log = 1 .. Len(log) /\ Len(log) \in Nat
    BY Versions DEF SelectedInv, CaughtUp
  <2>2. \A i \in DOMAIN log : Seen(i)
    BY <2>1 DEF Seen
  <2> QED
    BY <2>1, <2>2 DEF SelectedInv, Informed
<1> QED
  BY <1>1, SelectedAlways, PTL

\* LIST and WATCH select the same objects, of every kind and for every selector,
\* but for the three paths only one of them knows.
THEOREM SelectionsAlwaysAgree == Spec => []SelectionsAgree
<1>1. SelectedInv => SelectionsAgree
  <2> SUFFICES ASSUME SelectedInv, NEW id \in Ids, Disputed(store[id])
               PROVE  \E r \in filter.fields :
                         \/ kind = "namespaces" /\ r.path = Phase
                         \/ kind \in ClusterScoped /\ r.path = NS
                         \/ kind = "events" /\ r.path = EventRefNS
    BY DEF SelectionsAgree
  <2> DEFINE known(r)    == r.path \in FieldValue[kind]
             rendered(r) == r.path \in RenderedField[kind]
  <2>1. PICK r \in filter.fields : known(r) # rendered(r)
    BY DEF Disputed, ListMatches, NoticeMatches, FieldsMatch
  <2>2. kind \in {"pods", "nodes", "namespaces", "events", "services"}
    BY SelectedAssumption DEF SelectedInv, Typed, FieldValue
  <2>3. CASE kind = "pods"
    BY <2>1, <2>3 DEF FieldValue, RenderedField, PodFields
  <2>4. CASE kind = "nodes"
    BY <2>1, <2>4 DEF FieldValue, RenderedField, NodeFields, ClusterScoped
  <2>5. CASE kind = "namespaces"
    BY <2>1, <2>5 DEF FieldValue, RenderedField, NamespaceFields, ClusterScoped, Phase
  <2>6. CASE kind = "events"
    BY <2>1, <2>6 DEF FieldValue, RenderedField, EventFields, EventRefNS
  <2>7. CASE kind = "services"
    BY <2>1, <2>7 DEF FieldValue, RenderedField, PlainFields
  <2> QED
    BY <2>2, <2>3, <2>4, <2>5, <2>6, <2>7
<1> QED
  BY <1>1, SelectedAlways, PTL

\* A resume is refused only because a generic delete set the client back, or for
\* a version drawn after the last one it was sent and older than all the ring
\* holds, of this kind or another.
THEOREM RefusalsAreExplained == Spec => GoneIsExplained
<1> DEFINE Missed  == \E v \in reached + 1 .. rv : \A i \in Oldest .. Len(log) : v < log[i].rv
           Excused == pc = "resume" /\ pc' = "start" => ver < reached \/ Missed
<1>1. SelectedInv /\ [Next]_vars => [Excused]_vars
  <2> SUFFICES ASSUME SelectedInv, Next, pc = "resume", pc' = "start", ~(ver < reached)
               PROVE  Missed
    OBVIOUS
  <2>1. Gone
    BY DEF Next, Add, Touch, Evict, DeleteGeneric, Flip, OtherKind, Writing, clientVars, Client,
           ListBegin, ListWalk, Watch, Deliver, Drop
  <2>2. ver < Floor
    BY <2>1 DEF Gone, TooOld
  <2>3. ver \in Int /\ reached \in Int /\ SealRV <= reached /\ reached <= ver
    BY DEF SelectedInv, Informed
  <2>4. /\ SealRV \in Nat /\ Len(log) \in Nat /\ DOMAIN log = 1 .. Len(log)
        /\ rv \in Nat /\ Numbered
    BY Versions DEF SelectedInv, Typed
\* The ring is full: the floor of one that is not is never above a version sent.
  <2>5. Len(log) >= RingSize /\ Floor = log[Oldest].rv - 1
    BY <2>2, <2>3, <2>4, SelectedAssumption DEF Floor
  <2>6. Oldest \in DOMAIN log
    BY <2>4, <2>5, SelectedAssumption DEF Oldest, Kept
  <2>7. log[Oldest].rv \in Nat /\ log[Oldest].rv <= rv
    BY <2>4, <2>6 DEF Numbered
  <2>8. reached + 1 \in reached + 1 .. rv /\ reached + 1 < log[Oldest].rv
    BY <2>2, <2>3, <2>4, <2>5, <2>7
  <2>9. ASSUME NEW i \in Oldest .. Len(log)
        PROVE  reached + 1 < log[i].rv
    <3>1. i \in DOMAIN log /\ (i = Oldest \/ Oldest < i)
      BY <2>4, <2>6
    <3>2. log[i].rv \in Nat /\ (Oldest < i => log[Oldest].rv < log[i].rv)
      BY <2>4, <2>6, <3>1 DEF Numbered
    <3> QED
      BY <2>3, <2>7, <2>8, <3>1, <3>2
  <2> QED
    BY <2>8, <2>9
<1> QED
  BY <1>1, SelectedAlways, PTL DEF Spec, GoneIsExplained

-----------------------------------------------------------------------------
(* Where tokens are in the text of a selector.                             *)

\* Tuples of tokens.
LEMMA TokenTuples ==
    ASSUME NEW S, NEW x \in S, NEW y \in S, NEW z \in S, NEW u \in S
    PROVE  /\ <<x>> \in Seq(S) /\ Len(<<x>>) = 1 /\ <<x>>[1] = x
           /\ <<x, y>> \in Seq(S) /\ Len(<<x, y>>) = 2 /\ <<x, y>>[1] = x /\ <<x, y>>[2] = y
           /\ <<x, y, z>> \in Seq(S) /\ Len(<<x, y, z>>) = 3
           /\ <<x, y, z>>[1] = x /\ <<x, y, z>>[2] = y /\ <<x, y, z>>[3] = z
           /\ <<x, y, z, u>> \in Seq(S) /\ Len(<<x, y, z, u>>) = 4
           /\ <<x, y, z, u>>[1] = x /\ <<x, y, z, u>>[2] = y
           /\ <<x, y, z, u>>[3] = z /\ <<x, y, z, u>>[4] = u
  OBVIOUS

\* Where a token is, and where two tokens are.
LEMMA PlacesOf ==
    ASSUME NEW S, NEW text \in Seq(S), NEW t \in S
    PROVE  Places(text, <<t>>) = {i \in 1 .. Len(text) : text[i] = t}
<1>1. Len(text) \in Nat
  OBVIOUS
<1>2. ASSUME NEW i \in 1 .. Len(text)
      PROVE  SubSeq(text, i, i + Len(<<t>>) - 1) = <<t>> <=> text[i] = t
  <2>1. i + Len(<<t>>) - 1 = i
    BY <1>1
  <2> DEFINE s == SubSeq(text, i, i)
  <2>2. s \in Seq(S) /\ Len(s) = 1 /\ s[1] = text[i]
    BY <1>1
  <2> HIDE DEF s
  <2>3. s = <<t>> <=> s[1] = t
    <3>1. <<t>> \in Seq(S) /\ Len(<<t>>) = 1 /\ <<t>>[1] = t
      BY TokenTuples, Zenon
    <3> QED
      BY <2>2, <3>1, SeqEqual
  <2> QED
    BY <2>1, <2>2, <2>3 DEF s
<1>3. 1 .. Len(text) - Len(<<t>>) + 1 = 1 .. Len(text)
  BY <1>1
<1> QED
  BY <1>2, <1>3 DEF Places

\* And where two tokens in a row are.
LEMMA PlacesOfTwo ==
    ASSUME NEW S, NEW text \in Seq(S), NEW t \in S, NEW u \in S
    PROVE  Places(text, <<t, u>>)
             = {i \in 1 .. Len(text) : i + 1 <= Len(text) /\ text[i] = t /\ text[i + 1] = u}
<1>1. Len(text) \in Nat
  OBVIOUS
<1>2. ASSUME NEW i \in 1 .. Len(text), i + 1 <= Len(text)
      PROVE  SubSeq(text, i, i + Len(<<t, u>>) - 1) = <<t, u>>
               <=> text[i] = t /\ text[i + 1] = u
  <2>1. i + Len(<<t, u>>) - 1 = i + 1
    BY <1>1
  <2> DEFINE s == SubSeq(text, i, i + 1)
  <2>2. s \in Seq(S) /\ Len(s) = 2 /\ s[1] = text[i] /\ s[2] = text[i + 1]
    BY <1>1, <1>2
  <2> HIDE DEF s
  <2>3. s = <<t, u>> <=> s[1] = t /\ s[2] = u
    <3>1. /\ <<t, u>> \in Seq(S) /\ Len(<<t, u>>) = 2
          /\ <<t, u>>[1] = t /\ <<t, u>>[2] = u
      BY TokenTuples, Zenon
    <3> QED
      BY <2>2, <3>1, SeqEqual
  <2> QED
    BY <2>1, <2>2, <2>3 DEF s
<1>3. \A i : i \in 1 .. Len(text) - Len(<<t, u>>) + 1
                 <=> i \in 1 .. Len(text) /\ i + 1 <= Len(text)
  BY <1>1
<1> QED
  BY <1>2, <1>3 DEF Places

\* The first place, if there is one.
LEMMA FirstOf ==
    ASSUME NEW text, NEW pattern, Places(text, pattern) \subseteq Nat
    PROVE  /\ Places(text, pattern) = {} => First(text, pattern) = 0
           /\ \A n \in Places(text, pattern) :
                (\A i \in Places(text, pattern) : n <= i) => First(text, pattern) = n
<1> DEFINE P == Places(text, pattern)
<1>1. P = {} => First(text, pattern) = 0
  BY DEF First
<1>2. ASSUME NEW n \in P, \A i \in P : n <= i
      PROVE  First(text, pattern) = n
  <2>1. \A x \in P : (\A j \in P : x <= j) => x = n
    BY <1>2
  <2>2. First(text, pattern) = CHOOSE i \in P : \A j \in P : i <= j
    BY <1>2 DEF First
  <2> HIDE DEF P
  <2> QED
    BY <1>2, <2>1, <2>2
<1> QED
  BY <1>1, <1>2

-----------------------------------------------------------------------------
(* What a requirement is read as.                                          *)

\* What a requirement is read as: its first operator in the order of the code.
LEMMA ReadsAs ==
    ASSUME NEW part, NEW n \in 1 .. 5, First(part, Operators[n]) # 0,
           \A m \in 1 .. n - 1 : First(part, Operators[m]) = 0
    PROVE  ParseRequirement(part) = [key    |-> Before(part, Operators[n]),
                                     op     |-> Meaning[n],
                                     values |-> ParseSet(After(part, Operators[n]))]
<1> DEFINE found == {m \in DOMAIN Operators : First(part, Operators[m]) # 0}
           k == CHOOSE x \in found : \A l \in found : x <= l
<1>1. DOMAIN Operators = 1 .. 5
  BY DEF Operators
<1>2. n \in found /\ \A l \in found : l \in 1 .. 5 /\ n <= l
  BY <1>1
<1>3. ParseRequirement(part) =
        IF found # {}
        THEN [key |-> Before(part, Operators[k]), op |-> Meaning[k],
              values |-> ParseSet(After(part, Operators[k]))]
        ELSE IF Head(part) = "!"
        THEN [key |-> Tail(part), op |-> "!exists", values |-> {}]
        ELSE [key |-> part, op |-> "exists", values |-> {}]
  BY DEF ParseRequirement
<1> HIDE DEF found
<1>4. \A x \in found : (\A l \in found : x <= l) => x = n
  BY <1>2
<1>5. k = n
  BY <1>2, <1>4
<1> QED
  BY <1>2, <1>3, <1>5

\* Without an operator a part is about the existence of a label.
LEMMA ReadsNone ==
    ASSUME NEW part, \A m \in 1 .. 5 : First(part, Operators[m]) = 0
    PROVE  ParseRequirement(part) =
             IF Head(part) = "!" THEN [key |-> Tail(part), op |-> "!exists", values |-> {}]
             ELSE [key |-> part, op |-> "exists", values |-> {}]
<1>1. DOMAIN Operators = 1 .. 5
  BY DEF Operators
<1> QED
  BY <1>1 DEF ParseRequirement

\* The operators one by one.
LEMMA OperatorsAre ==
    /\ Operators[1] = <<"notin">> /\ Operators[2] = <<"in">>
    /\ Operators[3] = <<"!", "=">> /\ Operators[4] = <<"=", "=">> /\ Operators[5] = <<"=">>
    /\ Meaning[1] = "notin" /\ Meaning[2] = "in" /\ Meaning[3] = "!="
    /\ Meaning[4] = "=" /\ Meaning[5] = "="
  BY DEF Operators, Meaning

\* A pattern that a part does not have, and one that it has at n first.
LEMMA NoToken ==
    ASSUME NEW S, NEW part \in Seq(S), NEW t \in S, \A i \in 1 .. Len(part) : part[i] # t
    PROVE  First(part, <<t>>) = 0
<1>1. Places(part, <<t>>) = {i \in 1 .. Len(part) : part[i] = t}
  BY PlacesOf
<1>2. Places(part, <<t>>) = {}
  BY <1>1
<1> QED
  BY <1>2, FirstOf

\* A token that is nowhere earlier in a part.
LEMMA FirstToken ==
    ASSUME NEW S, NEW part \in Seq(S), NEW n \in 1 .. Len(part),
           \A i \in 1 .. n - 1 : part[i] # part[n]
    PROVE  First(part, <<part[n]>>) = n
<1>1. part[n] \in S /\ Len(part) \in Nat
  OBVIOUS
<1>2. Places(part, <<part[n]>>) = {i \in 1 .. Len(part) : part[i] = part[n]}
  BY <1>1, PlacesOf
<1>3. n \in Places(part, <<part[n]>>) /\ \A i \in Places(part, <<part[n]>>) : n <= i /\ i \in Nat
  BY <1>1, <1>2
<1> QED
  BY <1>3, FirstOf

\* Two tokens that do not follow each other.
LEMMA NoTwoTokens ==
    ASSUME NEW S, NEW part \in Seq(S), NEW t \in S, NEW u \in S,
           \A i \in 1 .. Len(part) : i + 1 <= Len(part) => part[i] # t \/ part[i + 1] # u
    PROVE  First(part, <<t, u>>) = 0
<1>1. Places(part, <<t, u>>)
        = {i \in 1 .. Len(part) : i + 1 <= Len(part) /\ part[i] = t /\ part[i + 1] = u}
  BY PlacesOfTwo
<1>2. Places(part, <<t, u>>) = {}
  BY <1>1
<1> QED
  BY <1>2, FirstOf

\* Two that do, and not earlier.
LEMMA FirstTwoTokens ==
    ASSUME NEW S, NEW part \in Seq(S), NEW n \in 1 .. Len(part), n + 1 <= Len(part),
           \A i \in 1 .. n - 1 : part[i] # part[n] \/ part[i + 1] # part[n + 1]
    PROVE  First(part, <<part[n], part[n + 1]>>) = n
<1>1. part[n] \in S /\ part[n + 1] \in S /\ Len(part) \in Nat
  OBVIOUS
<1> DEFINE P == Places(part, <<part[n], part[n + 1]>>)
<1>2. P = {i \in 1 .. Len(part) :
              i + 1 <= Len(part) /\ part[i] = part[n] /\ part[i + 1] = part[n + 1]}
  BY <1>1, PlacesOfTwo
<1> HIDE DEF P
<1>3. n \in P /\ \A i \in P : n <= i /\ i \in Nat
  BY <1>1, <1>2
<1> QED
  BY <1>3, FirstOf DEF P

\* What is before and behind a pattern at n.
LEMMA Around ==
    ASSUME NEW S, NEW part \in Seq(S), NEW pattern, NEW l \in 1 .. 2, Len(pattern) = l,
           First(part, pattern) = 2, l + 1 <= Len(part)
    PROVE  /\ Before(part, pattern) = <<part[1]>>
           /\ After(part, pattern) = SubSeq(part, 2 + l, Len(part))
<1>1. /\ Before(part, pattern) = SubSeq(part, 1, 1)
      /\ After(part, pattern) = SubSeq(part, 2 + l, Len(part))
  BY DEF Before, After
<1>2. SubSeq(part, 1, 1) \in Seq(S) /\ Len(SubSeq(part, 1, 1)) = 1
      /\ SubSeq(part, 1, 1)[1] = part[1] /\ part[1] \in S
  OBVIOUS
<1>3. <<part[1]>> \in Seq(S) /\ Len(<<part[1]>>) = 1 /\ <<part[1]>>[1] = part[1]
  BY <1>2, TokenTuples, Zenon
<1>4. SubSeq(part, 1, 1) = <<part[1]>>
  <2> DEFINE s == SubSeq(part, 1, 1)
             t == <<part[1]>>
  <2>1. s \in Seq(S) /\ t \in Seq(S) /\ Len(s) = 1 /\ Len(t) = 1 /\ s[1] = t[1]
    BY <1>2, <1>3
  <2> HIDE DEF s, t
  <2>2. s = t
    BY <2>1, SeqEqual
  <2> QED
    BY <2>2 DEF s, t
<1> QED
  BY <1>1, <1>4

\* The tokens with a meaning of their own are no words, and a comma is no other.
Marks == {"(", ")", Comma, "!", "=", "in", "notin"}

\* Words are none of them.
LEMMA MarksDiffer ==
    /\ Comma \notin {"(", ")", "!", "=", "in", "notin"}
    /\ \A t : IsWord(t) => t \notin Marks
<1>1. Comma \notin {"(", ")", "!", "=", "in", "notin"}
  BY Zenon DEF Comma
<1>2. \A t : IsWord(t) => t \notin Marks
  BY Zenon DEF IsWord, Marks
<1> QED
  BY <1>1, <1>2

\* A part without operators.
LEMMA ReadsPlain ==
    ASSUME NEW S, Marks \subseteq S, NEW part \in Seq(S),
            \A i \in 1 .. Len(part) : part[i] \notin {"notin", "in", "="}
    PROVE  ParseRequirement(part) =
             IF Head(part) = "!" THEN [key |-> Tail(part), op |-> "!exists", values |-> {}]
             ELSE [key |-> part, op |-> "exists", values |-> {}]
<1>1. "notin" \in S /\ "in" \in S /\ "=" \in S /\ "!" \in S
  BY DEF Marks
<1>2. First(part, Operators[1]) = 0 /\ First(part, Operators[2]) = 0 /\ First(part, Operators[5]) = 0
  <2>1. First(part, <<"notin">>) = 0 /\ First(part, <<"in">>) = 0 /\ First(part, <<"=">>) = 0
    BY <1>1, NoToken
  <2> QED
    BY <2>1, OperatorsAre
<1>3. First(part, Operators[3]) = 0 /\ First(part, Operators[4]) = 0
  <2>1. \A i \in 1 .. Len(part) : i + 1 <= Len(part) => part[i + 1] # "="
    <3>1. \A i \in 1 .. Len(part) : i + 1 <= Len(part) => i + 1 \in 1 .. Len(part)
      OBVIOUS
    <3> QED
      BY <3>1
  <2>2. First(part, <<"!", "=">>) = 0 /\ First(part, <<"=", "=">>) = 0
    BY <1>1, <2>1, NoTwoTokens
  <2> QED
    BY <2>2, OperatorsAre
<1>4. \A m \in 1 .. 5 : First(part, Operators[m]) = 0
  <2>1. \A m \in 1 .. 5 : m = 1 \/ m = 2 \/ m = 3 \/ m = 4 \/ m = 5
    OBVIOUS
  <2> QED
    BY <1>2, <1>3, <2>1
<1> QED
  BY <1>4, ReadsNone

\* The values in the rest of a part.
LEMMA ValuesIn ==
    ASSUME NEW S, NEW part \in Seq(S), NEW a \in 1 .. Len(part)
    PROVE  ParseSet(SubSeq(part, a, Len(part)))
             = {part[j] : j \in {i \in a .. Len(part) : part[i] \notin {"(", ")", Comma}}}
<1> PICK l \in Nat : l = Len(part)
  OBVIOUS
<1> DEFINE s == SubSeq(part, a, l)
           b == l - a + 1
<1>1. Len(s) = b /\ DOMAIN s = 1 .. b /\ \A i \in 1 .. b : s[i] = part[a + i - 1]
  OBVIOUS
<1>2. /\ \A i \in 1 .. b : a + i - 1 \in a .. l
      /\ \A j \in a .. l : j - a + 1 \in 1 .. b /\ a + (j - a + 1) - 1 = j
  OBVIOUS
<1> HIDE DEF s, b
<1>3. \A v : v \in ParseSet(s) <=> \E i \in 1 .. b : s[i] \notin {"(", ")", Comma} /\ v = s[i]
  BY <1>1 DEF ParseSet
<1>4. \A v : (\E i \in 1 .. b : s[i] \notin {"(", ")", Comma} /\ v = s[i])
               <=> (\E j \in a .. l : part[j] \notin {"(", ")", Comma} /\ v = part[j])
  <2>1. ASSUME NEW v, NEW i \in 1 .. b, s[i] \notin {"(", ")", Comma} /\ v = s[i]
        PROVE  \E j \in a .. l : part[j] \notin {"(", ")", Comma} /\ v = part[j]
    BY <1>1, <1>2, <2>1
  <2>2. ASSUME NEW v, NEW j \in a .. l, part[j] \notin {"(", ")", Comma} /\ v = part[j]
        PROVE  \E i \in 1 .. b : s[i] \notin {"(", ")", Comma} /\ v = s[i]
    <3>1. s[j - a + 1] = part[j] /\ j - a + 1 \in 1 .. b
      BY <1>1, <1>2
    <3> QED
      BY <2>2, <3>1
  <2> QED
    BY <2>1, <2>2
<1> DEFINE V == {part[j] : j \in {i \in a .. l : part[i] \notin {"(", ")", Comma}}}
<1>a. \A v : v \in V <=> \E j \in a .. l : part[j] \notin {"(", ")", Comma} /\ v = part[j]
  OBVIOUS
<1>5. ParseSet(s) = V
  <2> HIDE DEF V
  <2> QED
    BY <1>3, <1>4, <1>a
<1> QED
  BY <1>5 DEF s

\* One that is not in parentheses.
LEMMA ValueIn ==
    ASSUME NEW S, NEW part \in Seq(S), NEW a \in Nat \ {0}, a = Len(part),
           part[a] \notin {"(", ")", Comma}
    PROVE  ParseSet(SubSeq(part, a, Len(part))) = {part[a]}
<1> PICK l \in Nat : l = Len(part)
  OBVIOUS
<1>1. a \in 1 .. Len(part) /\ \A i : i \in a .. Len(part) <=> i = a
  <2>1. a = l /\ l > 0
    OBVIOUS
  <2> QED
    BY <2>1
<1>2. {i \in a .. Len(part) : part[i] \notin {"(", ")", Comma}} = {a}
  BY <1>1
<1>3. ParseSet(SubSeq(part, a, Len(part)))
        = {part[j] : j \in {i \in a .. Len(part) : part[i] \notin {"(", ")", Comma}}}
  BY <1>1, ValuesIn
<1> QED
  BY <1>2, <1>3

\* A part without commas and parentheses.
Plain(part) == \A i \in 1 .. Len(part) : part[i] \notin {"(", ")", Comma}

\* A part with a set at its end, which holds all of them.
EndsInSet(part) ==
    /\ Len(part) >= 4
    /\ \A i \in 1 .. Len(part) :
          /\ part[i] = "(" <=> i = 3
          /\ part[i] = ")" <=> i = Len(part)
          /\ part[i] = Comma => i > 3

\* What requirements are written as.
IsPart(part) ==
    /\ IsSequence(part) /\ part # <<>>
    /\ Plain(part) \/ EndsInSet(part)

\* A sequence of something is one of what it holds.
LEMMA SequenceOf ==
    ASSUME NEW S, NEW s \in Seq(S)
    PROVE  IsSequence(s)
  BY DEF IsSequence

\* A part of a key, an operator and a value: what it holds.
IsBinary(p, key, value) ==
    /\ Len(p) \in 3 .. 4
    /\ p[1] = key /\ p[Len(p)] = value
    /\ \A i \in 2 .. Len(p) - 1 : p[i] \in {"=", "!"}

\* It is a part, and no set operator.
LEMMA BinaryIsPlain ==
    ASSUME NEW S, Marks \subseteq S, NEW p \in Seq(S), NEW key, IsWord(key), NEW value, IsWord(value),
           IsBinary(p, key, value)
    PROVE  /\ Plain(p) /\ IsPart(p)
           /\ First(p, Operators[1]) = 0 /\ First(p, Operators[2]) = 0
<1>1. /\ key \notin {"(", ")", Comma, "!", "=", "in", "notin"}
      /\ value \notin {"(", ")", Comma, "!", "=", "in", "notin"}
  BY MarksDiffer DEF Marks
<1>2. Comma \notin {"(", ")", "!", "=", "in", "notin"}
  BY MarksDiffer
<1>3. \A i \in 1 .. Len(p) : p[i] \notin {"(", ")", Comma, "in", "notin"}
  <2>1. \A i \in 1 .. Len(p) : i = 1 \/ i = Len(p) \/ i \in 2 .. Len(p) - 1
    BY DEF IsBinary
  <2> QED
    BY <1>1, <1>2, <2>1 DEF IsBinary
<1>4. "notin" \in S /\ "in" \in S
  BY DEF Marks
<1>5. First(p, <<"notin">>) = 0 /\ First(p, <<"in">>) = 0
  BY <1>3, <1>4, NoToken
<1>6. Plain(p)
  BY <1>3 DEF Plain
<1>7. IsPart(p)
  BY <1>6, SequenceOf DEF IsPart, IsBinary
<1> QED
  BY <1>5, <1>6, <1>7, OperatorsAre

\* What it is read as.
LEMMA BinaryReads ==
    ASSUME NEW S, Marks \subseteq S, NEW p \in Seq(S), NEW key, IsWord(key), NEW value, IsWord(value),
           IsBinary(p, key, value), NEW n \in 3 .. 5, Len(Operators[n]) = Len(p) - 2,
           First(p, Operators[n]) = 2,
           n > 3 => First(p, Operators[3]) = 0, n > 4 => First(p, Operators[4]) = 0
    PROVE  ParseRequirement(p) = [key |-> <<key>>, op |-> Meaning[n], values |-> {value}]
<1> PICK l \in 1 .. 2 : l = Len(p) - 2
  BY DEF IsBinary
<1>1. Len(p) = l + 2 /\ Len(Operators[n]) = l /\ p[1] = key /\ p[l + 2] = value
  BY DEF IsBinary
<1>2. Before(p, Operators[n]) = <<key>> /\ After(p, Operators[n]) = SubSeq(p, l + 2, Len(p))
  <2>1. l + 1 <= Len(p) /\ 2 + l = l + 2
    BY <1>1
  <2> QED
    BY <1>1, <2>1, Around
<1>3. ParseSet(SubSeq(p, l + 2, Len(p))) = {value}
  <2>1. p[l + 2] \notin {"(", ")", Comma}
    BY <1>1, MarksDiffer DEF Marks
  <2> QED
    BY <1>1, <2>1, ValueIn
<1>4. \A m \in 1 .. n - 1 : First(p, Operators[m]) = 0
  <2>1. \A m \in 1 .. n - 1 : m = 1 \/ m = 2 \/ (n > 3 /\ m = 3) \/ (n > 4 /\ m = 4)
    OBVIOUS
  <2> QED
    BY <2>1, BinaryIsPlain
<1>5. ParseRequirement(p) = [key    |-> Before(p, Operators[n]),
                             op     |-> Meaning[n],
                             values |-> ParseSet(After(p, Operators[n]))]
  BY <1>4, ReadsAs
<1> QED
  BY <1>2, <1>3, <1>5

\* key = value, key == value, key != value
LEMMA BinaryMeans ==
    ASSUME NEW key, IsWord(key), NEW value, IsWord(value), NEW op \in {"=", "==", "!="}
    PROVE  /\ ParseRequirement(Binary(key, op, value))
                = [key |-> <<key>>, op |-> IF op = "==" THEN "=" ELSE op, values |-> {value}]
           /\ IsPart(Binary(key, op, value)) /\ Plain(Binary(key, op, value))
<1> DEFINE S == Marks \cup {key, value}
<1>0. /\ Marks \subseteq S /\ key \in S /\ value \in S
      /\ "=" \in S /\ "!" \in S
  BY DEF Marks
<1>w. key \notin {"!", "="} /\ value \notin {"!", "="}
  BY MarksDiffer DEF Marks
<1> HIDE DEF S
<1>1. CASE op = "="
  <2> PICK p : p = <<key, "=", value>>
    OBVIOUS
  <2>1. p \in Seq(S) /\ Len(p) = 3 /\ p[1] = key /\ p[2] = "=" /\ p[3] = value
    BY <1>0, TokenTuples, Zenon
  <2>a. p \in Seq(S)
    BY <2>1
  <2>2. Binary(key, op, value) = p
    BY <1>1, Zenon DEF Binary
  <2>3. IsBinary(p, key, value)
    BY <2>1 DEF IsBinary
  <2>4. First(p, Operators[3]) = 0 /\ First(p, Operators[4]) = 0
    <3>1. \A i \in 1 .. Len(p) : i + 1 <= Len(p) => p[i + 1] # "=" \/ (p[i] # "!" /\ p[i] # "=")
      BY <1>w, <2>1
    <3>2. First(p, <<"!", "=">>) = 0 /\ First(p, <<"=", "=">>) = 0
      BY <1>0, <2>1, <3>1, NoTwoTokens
    <3> QED
      BY <3>2, OperatorsAre
  <2>5. First(p, Operators[5]) = 2 /\ Len(Operators[5]) = 1
    <3>1. 2 \in 1 .. Len(p) /\ \A i \in 1 .. 2 - 1 : p[i] # p[2]
      BY <1>w, <2>1
    <3>2. First(p, <<p[2]>>) = 2
      BY <2>1, <3>1, FirstToken
    <3> QED
      BY <2>1, <3>2, OperatorsAre
  <2>6. ParseRequirement(p) = [key |-> <<key>>, op |-> Meaning[5], values |-> {value}]
    <3> PICK n \in 3 .. 5 : n = 5
      OBVIOUS
    <3>1. /\ Len(Operators[n]) = Len(p) - 2 /\ First(p, Operators[n]) = 2
          /\ n > 3 => First(p, Operators[3]) = 0
          /\ n > 4 => First(p, Operators[4]) = 0
      BY <2>1, <2>4, <2>5
    <3>2. ParseRequirement(p) = [key |-> <<key>>, op |-> Meaning[n], values |-> {value}]
      BY <1>0, <2>a, <2>3, <3>1, BinaryReads
    <3> QED
      BY <3>2
  <2> QED
    BY <1>0, <1>1, <2>1, <2>2, <2>3, <2>6, BinaryIsPlain, OperatorsAre
<1>2. CASE op = "=="
  <2> PICK p : p = <<key, "=", "=", value>>
    OBVIOUS
  <2>1. p \in Seq(S) /\ Len(p) = 4 /\ p[1] = key /\ p[2] = "=" /\ p[3] = "=" /\ p[4] = value
    BY <1>0, TokenTuples, Zenon
  <2>a. p \in Seq(S)
    BY <2>1
  <2>2. Binary(key, op, value) = p
    BY <1>2, Zenon DEF Binary
  <2>3. IsBinary(p, key, value)
    BY <2>1 DEF IsBinary
  <2>4. First(p, Operators[3]) = 0
    <3>1. \A i \in 1 .. Len(p) : i + 1 <= Len(p) => p[i] # "!" \/ p[i + 1] # "="
      BY <1>w, <2>1
    <3>2. First(p, <<"!", "=">>) = 0
      BY <1>0, <2>1, <3>1, NoTwoTokens
    <3> QED
      BY <3>2, OperatorsAre
  <2>5. First(p, Operators[4]) = 2 /\ Len(Operators[4]) = 2
    <3>1. 2 \in 1 .. Len(p) /\ 2 + 1 <= Len(p)
          /\ \A i \in 1 .. 2 - 1 : p[i] # p[2] \/ p[i + 1] # p[2 + 1]
      BY <1>w, <2>1
    <3>2. First(p, <<p[2], p[2 + 1]>>) = 2
      BY <2>1, <3>1, FirstTwoTokens
    <3> QED
      BY <2>1, <3>2, OperatorsAre
  <2>6. ParseRequirement(p) = [key |-> <<key>>, op |-> Meaning[4], values |-> {value}]
    <3> PICK n \in 3 .. 5 : n = 4
      OBVIOUS
    <3>1. /\ Len(Operators[n]) = Len(p) - 2 /\ First(p, Operators[n]) = 2
          /\ n > 3 => First(p, Operators[3]) = 0
          /\ n > 4 => First(p, Operators[4]) = 0
      BY <2>1, <2>4, <2>5
    <3>2. ParseRequirement(p) = [key |-> <<key>>, op |-> Meaning[n], values |-> {value}]
      BY <1>0, <2>a, <2>3, <3>1, BinaryReads
    <3> QED
      BY <3>2
  <2> QED
    BY <1>0, <1>2, <2>1, <2>2, <2>3, <2>6, BinaryIsPlain, OperatorsAre
<1>3. CASE op = "!="
  <2> PICK p : p = <<key, "!", "=", value>>
    OBVIOUS
  <2>1. p \in Seq(S) /\ Len(p) = 4 /\ p[1] = key /\ p[2] = "!" /\ p[3] = "=" /\ p[4] = value
    BY <1>0, TokenTuples, Zenon
  <2>a. p \in Seq(S)
    BY <2>1
  <2>2. Binary(key, op, value) = p
    BY <1>3, Zenon DEF Binary
  <2>3. IsBinary(p, key, value)
    BY <2>1 DEF IsBinary
  <2>5. First(p, Operators[3]) = 2 /\ Len(Operators[3]) = 2
    <3>1. 2 \in 1 .. Len(p) /\ 2 + 1 <= Len(p)
          /\ \A i \in 1 .. 2 - 1 : p[i] # p[2] \/ p[i + 1] # p[2 + 1]
      BY <1>w, <2>1
    <3>2. First(p, <<p[2], p[2 + 1]>>) = 2
      BY <2>1, <3>1, FirstTwoTokens
    <3> QED
      BY <2>1, <3>2, OperatorsAre
  <2>6. ParseRequirement(p) = [key |-> <<key>>, op |-> Meaning[3], values |-> {value}]
    <3> PICK n \in 3 .. 5 : n = 3
      OBVIOUS
    <3>1. /\ Len(Operators[n]) = Len(p) - 2 /\ First(p, Operators[n]) = 2
          /\ n > 3 => First(p, Operators[3]) = 0
          /\ n > 4 => First(p, Operators[4]) = 0
      BY <2>1, <2>5
    <3>2. ParseRequirement(p) = [key |-> <<key>>, op |-> Meaning[n], values |-> {value}]
      BY <1>0, <2>a, <2>3, <3>1, BinaryReads
    <3> QED
      BY <3>2
  <2> QED
    BY <1>0, <1>3, <2>1, <2>2, <2>3, <2>6, BinaryIsPlain, OperatorsAre
<1> QED
  BY <1>1, <1>2, <1>3

\* key, !key
LEMMA ExistsMeans ==
    ASSUME NEW key, IsWord(key)
    PROVE  /\ ParseRequirement(<<key>>) = [key |-> <<key>>, op |-> "exists", values |-> {}]
           /\ ParseRequirement(<<"!", key>>) = [key |-> <<key>>, op |-> "!exists", values |-> {}]
           /\ IsPart(<<key>>) /\ IsPart(<<"!", key>>)
<1> DEFINE S == Marks \cup {key}
<1>0. Marks \subseteq S /\ key \in S /\ "!" \in S
  BY DEF Marks
<1>w. key \notin {"(", ")", Comma, "!", "=", "in", "notin"}
  BY MarksDiffer DEF Marks
<1>c. "!" \notin {"(", ")", Comma, "=", "in", "notin"}
  BY MarksDiffer
<1> HIDE DEF S
<1> PICK p : p = <<key>>
  OBVIOUS
<1> PICK q : q = <<"!", key>>
  OBVIOUS
<1>1. p \in Seq(S) /\ Len(p) = 1 /\ p[1] = key
  BY <1>0, TokenTuples, Zenon
<1>2. q \in Seq(S) /\ Len(q) = 2 /\ q[1] = "!" /\ q[2] = key
  BY <1>0, TokenTuples, Zenon
<1>3. ParseRequirement(p) = [key |-> p, op |-> "exists", values |-> {}]
  <2>1. \A i \in 1 .. Len(p) : p[i] \notin {"notin", "in", "="}
    BY <1>1, <1>w
  <2>2. Head(p) # "!"
    BY <1>1, <1>w
  <2> QED
    BY <1>0, <1>1, <2>1, <2>2, ReadsPlain
<1>4. ParseRequirement(q) = [key |-> Tail(q), op |-> "!exists", values |-> {}]
  <2>1. \A i \in 1 .. Len(q) : q[i] \notin {"notin", "in", "="}
    BY <1>2, <1>w
  <2>2. Head(q) = "!"
    BY <1>2
  <2> QED
    BY <1>0, <1>2, <2>1, <2>2, ReadsPlain
<1>5. Tail(q) = p
  <2> DEFINE t == Tail(q)
  <2>1. t \in Seq(S) /\ Len(t) = 1 /\ t[1] = key
    BY <1>2
  <2> HIDE DEF t
  <2>2. t = p
    BY <1>1, <2>1, SeqEqual
  <2> QED
    BY <2>2 DEF t
<1>6. IsPart(p) /\ IsPart(q)
  <2>1. IsSequence(p) /\ IsSequence(q)
    BY <1>1, <1>2, SequenceOf
  <2>2. Plain(p) /\ Plain(q)
    BY <1>1, <1>2, <1>w, <1>c DEF Plain
  <2> QED
    BY <1>1, <1>2, <2>1, <2>2 DEF IsPart
<1> QED
  BY <1>3, <1>4, <1>5, <1>6

-----------------------------------------------------------------------------
(* Requirements with a set of values.                                      *)

\* A function on 1 .. m is a sequence.
LEMMA ListOf ==
    ASSUME NEW S, NEW m \in Nat, NEW f \in [1 .. m -> S]
    PROVE  f \in Seq(S) /\ Len(f) = m
  OBVIOUS

\* Two sequences, one behind the other.
IsBehind(S, c, s, t, m, n) ==
    /\ c \in Seq(S) /\ Len(c) = m + n
    /\ \A i \in 1 .. m : c[i] = s[i]
    /\ \A i \in 1 .. n : c[m + i] = t[i]

\* What is where in it.
LEMMA Behind ==
    ASSUME NEW S, NEW s \in Seq(S), NEW t \in Seq(S), NEW m \in Nat, NEW n \in Nat, Len(s) = m, Len(t) = n
    PROVE  IsBehind(S, s \o t, s, t, m, n)
<1> PICK c : c = s \o t
  OBVIOUS
<1>1. c \in Seq(S) /\ Len(c) = m + n
  BY ConcatProperties
<1>2. \A i \in 1 .. m : c[i] = s[i]
  BY ConcatProperties
<1>3. ASSUME NEW i \in 1 .. n
      PROVE  c[m + i] = t[i]
  <2>1. m + i \in 1 .. m + n /\ ~ (m + i <= m) /\ (m + i) - m = i
    OBVIOUS
  <2> QED
    BY <2>1, ConcatProperties
<1>4. IsBehind(S, c, s, t, m, n)
  BY <1>1, <1>2, <1>3 DEF IsBehind
<1> QED
  BY <1>4

\* key in (values), key notin (values): the tokens.
IsSetPart(text, key, op, values, n, m) ==
    /\ m = 2 * n - 1
    /\ Len(values) = n /\ \A i \in 1 .. n : IsWord(values[i])
    /\ Len(text) = m + 4
    /\ text[1] = key /\ text[2] = op /\ text[3] = "(" /\ text[m + 4] = ")"
    /\ \A k \in 1 .. m : text[k + 3] = IF k % 2 = 0 THEN Comma ELSE values[(k + 1) \div 2]

\* The text of a set has them.
LEMMA SetTokens ==
    ASSUME NEW S, Marks \subseteq S, NEW key \in S, NEW op \in S, NEW values \in Seq(S),
           NEW n \in Nat \ {0}, Len(values) = n, NEW m \in Nat, m = 2 * n - 1,
           \A i \in 1 .. n : IsWord(values[i]),
           NEW text, text = SetText(key, op, values)
    PROVE  text \in Seq(S) /\ IsSetPart(text, key, op, values, n, m)
<1>1. /\ "(" \in S /\ ")" \in S /\ Comma \in S
  BY DEF Marks
<1> DEFINE a == <<key, op, "(">>
           v == ValueList(values)
           z == <<")">>
<1>2. a \in Seq(S) /\ Len(a) = 3 /\ a[1] = key /\ a[2] = op /\ a[3] = "("
  BY <1>1, TokenTuples, Zenon
<1>3. z \in Seq(S) /\ Len(z) = 1 /\ z[1] = ")"
  BY <1>1, TokenTuples, Zenon
<1>4. /\ v \in Seq(S) /\ Len(v) = m
      /\ \A k \in 1 .. m : v[k] = IF k % 2 = 0 THEN Comma ELSE values[(k + 1) \div 2]
  <2> DEFINE E(k) == IF k % 2 = 0 THEN Comma ELSE values[(k + 1) \div 2]
  <2>1. \A k \in 1 .. m : E(k) \in S
    <3>1. \A k \in 1 .. m : (k + 1) \div 2 \in 1 .. n
      OBVIOUS
    <3> QED
      BY <1>1, <3>1
  <2>2. v = [k \in 1 .. m |-> E(k)]
    BY DEF ValueList
  <2> HIDE DEF E, v
  <2>4. v \in [1 .. m -> S] /\ \A k \in 1 .. m : v[k] = E(k)
    BY <2>1, <2>2
  <2>5. v \in Seq(S) /\ Len(v) = m
    BY <2>4, ListOf, Zenon
  <2> QED
    BY <2>4, <2>5 DEF E
<1> HIDE DEF a, v, z
<1>5. text = a \o v \o z
  BY DEF a, v, z, SetText
<1>6. PICK b : b = a \o v /\ IsBehind(S, b, a, v, 3, m)
  <2>1. 3 \in Nat
    OBVIOUS
  <2> QED
    BY <1>2, <1>4, <2>1, Behind, Zenon
<1>7. PICK l \in Nat : l = 3 + m
  OBVIOUS
<1>8. IsBehind(S, text, b, z, l, 1)
  <2>1. text = b \o z
    BY <1>5, <1>6, Zenon
  <2>2. b \in Seq(S) /\ Len(b) = l /\ 1 \in Nat
    BY ONLY <1>6, <1>7 DEF IsBehind
  <2> QED
    BY <1>3, <2>1, <2>2, Behind, Zenon
<1>9. /\ text \in Seq(S) /\ Len(text) = m + 4 /\ \A i \in 1 .. 3 : text[i] = a[i]
      /\ \A i \in 1 .. m : text[i + 3] = v[i]
      /\ text[m + 4] = z[1]
  <2>1. /\ \A i \in 1 .. 3 : b[i] = a[i]
        /\ \A i \in 1 .. m : b[3 + i] = v[i]
    BY ONLY <1>6 DEF IsBehind
  <2>2. /\ text \in Seq(S) /\ Len(text) = l + 1 /\ \A i \in 1 .. l : text[i] = b[i]
        /\ \A i \in 1 .. 1 : text[l + i] = z[i]
    BY ONLY <1>8 DEF IsBehind
  <2>3. /\ l + 1 = m + 4 /\ 1 \in 1 .. 1
        /\ \A i \in 1 .. 3 : i \in 1 .. l
        /\ \A i \in 1 .. m : 3 + i = i + 3 /\ i + 3 \in 1 .. l
    BY ONLY <1>7, m \in Nat
  <2> QED
    BY ONLY <2>1, <2>2, <2>3
<1>10. text[1] = key /\ text[2] = op /\ text[3] = "(" /\ text[m + 4] = ")"
  BY ONLY <1>2, <1>3, <1>9
<1>11. /\ text \in Seq(S) /\ Len(text) = m + 4
       /\ \A k \in 1 .. m : text[k + 3] = IF k % 2 = 0 THEN Comma ELSE values[(k + 1) \div 2]
  BY <1>4, <1>9
<1> QED
  BY <1>10, <1>11 DEF IsSetPart

\* key in (values), key notin (values)
LEMMA SetReads ==
    ASSUME NEW S, Marks \subseteq S, NEW text \in Seq(S),
           NEW key, IsWord(key), NEW op \in {"in", "notin"}, NEW values, NEW n \in Nat \ {0}, NEW m \in Nat,
           IsSetPart(text, key, op, values, n, m)
    PROVE  /\ ParseRequirement(text) = [key    |-> <<key>>, op |-> op,
                                        values |-> {values[i] : i \in 1 .. n}]
           /\ IsPart(text)
<1>0. op \in S
  BY DEF Marks
<1>1. m = 2 * n - 1
  BY DEF IsSetPart
<1>w. /\ key \notin {"(", ")", Comma, "!", "=", "in", "notin"}
      /\ \A i \in 1 .. n : values[i] \notin {"(", ")", Comma, "!", "=", "in", "notin"}
  BY MarksDiffer DEF Marks, IsSetPart
<1>c. /\ Comma \notin {"(", ")", "!", "=", "in", "notin"}
      /\ op \notin {"(", ")", Comma}
  BY MarksDiffer
<1>3. /\ text \in Seq(S) /\ Len(text) = m + 4
      /\ text[1] = key /\ text[2] = op /\ text[3] = "(" /\ text[m + 4] = ")"
      /\ \A k \in 1 .. m : text[k + 3] = IF k % 2 = 0 THEN Comma ELSE values[(k + 1) \div 2]
  BY DEF IsSetPart
<1>4. \A i \in 1 .. m + 4 : i = 1 \/ i = 2 \/ i = 3 \/ i = m + 4 \/ (i > 3 /\ i # m + 4 /\ i - 3 \in 1 .. m)
  OBVIOUS
<1>5. \A i \in 1 .. m + 4 : i > 3 /\ i # m + 4 =>
            text[i] = Comma \/ \E j \in 1 .. n : text[i] = values[j]
  <2> SUFFICES ASSUME NEW k \in 1 .. m PROVE text[k + 3] = Comma \/ \E j \in 1 .. n : text[k + 3] = values[j]
    <3>1. \A i \in 1 .. m + 4 : i > 3 /\ i # m + 4 => i - 3 \in 1 .. m /\ (i - 3) + 3 = i
      OBVIOUS
    <3> QED
      BY <3>1
  <2>1. k % 2 # 0 => (k + 1) \div 2 \in 1 .. n
    BY <1>1
  <2> QED
    BY <1>3, <2>1
<1>6. EndsInSet(text)
  <2>1. ASSUME NEW i \in 1 .. m + 4
        PROVE  /\ text[i] = "(" <=> i = 3
               /\ text[i] = ")" <=> i = m + 4
               /\ text[i] = Comma => i > 3
    <3>1. i > 3 /\ i # m + 4 => text[i] \notin {"(", ")"}
      BY <1>1, <1>5, <1>w, <1>c
    <3>2. m + 4 # 3 /\ m + 4 > 3
      OBVIOUS
    <3> QED
      BY ONLY <1>3, <1>4, <1>w, <1>c, <3>1, <3>2
  <2>2. m + 4 >= 4
    OBVIOUS
  <2> QED
    BY ONLY <1>3, <2>1, <2>2 DEF EndsInSet
<1>7. IsPart(text)
  <2>1. text # <<>>
    BY ONLY <1>3, m \in Nat
  <2> QED
    BY <1>3, <1>6, <2>1, SequenceOf DEF IsPart
<1>8. First(text, <<op>>) = 2
  <2>1. 2 \in 1 .. Len(text) /\ \A i \in 1 .. 2 - 1 : text[i] # text[2]
    BY <1>3, <1>w
  <2>2. First(text, <<text[2]>>) = 2
    BY <1>3, <2>1, FirstToken
  <2> QED
    BY <1>3, <2>2
<1>9. op = "in" => First(text, <<"notin">>) = 0
  <2> HAVE op = "in"
  <2>1. "notin" \in S
    BY <1>0 DEF Marks
  <2>2. \A i \in 1 .. Len(text) : text[i] # "notin"
    <3>1. \A i \in 1 .. m + 4 : i > 3 /\ i # m + 4 => text[i] # "notin"
      BY <1>5, <1>w, <1>c
    <3> QED
      BY <1>3, <1>4, <1>w, <3>1
  <2> QED
    BY <1>3, <2>1, <2>2, NoToken
<1>10. /\ Before(text, <<op>>) = <<key>>
       /\ After(text, <<op>>) = SubSeq(text, 3, Len(text))
  <2>1. PICK l \in 1 .. 2 : l = 1
    OBVIOUS
  <2>2. PICK pattern : pattern = <<op>>
    OBVIOUS
  <2>3. Len(pattern) = l /\ l + 1 <= Len(text) /\ First(text, pattern) = 2
    BY <1>3, <1>8, <2>1, <2>2
  <2>4. /\ Before(text, pattern) = <<text[1]>>
        /\ After(text, pattern) = SubSeq(text, 2 + l, Len(text))
    BY ONLY <1>3, <2>3, Around
  <2>5. 2 + l = 3 /\ text[1] = key
    BY <1>3, <2>1
  <2> QED
    BY ONLY <2>2, <2>4, <2>5
<1>11. ParseSet(SubSeq(text, 3, Len(text))) = {values[i] : i \in 1 .. n}
  <2> DEFINE V == {text[j] : j \in {i \in 3 .. Len(text) : text[i] \notin {"(", ")", Comma}}}
  <2>1. PICK a \in 1 .. Len(text) : a = 3
    BY <1>3
  <2>2. ParseSet(SubSeq(text, 3, Len(text))) = V
    <3>1. ParseSet(SubSeq(text, a, Len(text)))
            = {text[j] : j \in {i \in a .. Len(text) : text[i] \notin {"(", ")", Comma}}}
      BY ONLY <1>3, ValuesIn
    <3> QED
      BY ONLY <2>1, <3>1
  <2>3. ASSUME NEW j \in 3 .. m + 4, text[j] \notin {"(", ")", Comma}
        PROVE  text[j] \in {values[i] : i \in 1 .. n}
    <3>1. j \in 1 .. m + 4 /\ j > 3 /\ j # m + 4
      BY <1>3, <2>3
    <3> QED
      BY <1>1, <1>5, <2>3, <3>1
  <2>4. ASSUME NEW i \in 1 .. n
        PROVE  values[i] \in V
    <3>1. /\ 2 * i - 1 \in 1 .. m /\ (2 * i - 1) % 2 # 0 /\ ((2 * i - 1) + 1) \div 2 = i
          /\ (2 * i - 1) + 3 \in 3 .. m + 4
      BY <1>1
    <3>2. text[(2 * i - 1) + 3] = values[i]
      BY ONLY <1>3, <3>1
    <3>3. values[i] \notin {"(", ")", Comma}
      BY <1>1, <1>w
    <3>4. Len(text) = m + 4
      BY <1>3
    <3> QED
      BY ONLY <3>1, <3>2, <3>3, <3>4
  <2>5. Len(text) = m + 4
    BY <1>3
  <2>6. V \subseteq {values[i] : i \in 1 .. n}
    BY <2>3, <2>5
  <2> HIDE DEF V
  <2>7. {values[i] : i \in 1 .. n} \subseteq V
    BY <1>1, <2>4
  <2> QED
    BY <2>2, <2>6, <2>7
<1>12. PICK k \in 1 .. 2 : k = IF op = "notin" THEN 1 ELSE 2
  OBVIOUS
<1>13. Operators[k] = <<op>> /\ Meaning[k] = op
  BY <1>12, OperatorsAre
<1>14. ParseRequirement(text) = [key    |-> Before(text, Operators[k]),
                                 op     |-> Meaning[k],
                                 values |-> ParseSet(After(text, Operators[k]))]
  <2>1. k \in 1 .. 5
    OBVIOUS
  <2>2. First(text, Operators[k]) # 0
    BY <1>8, <1>13
  <2>3. \A l \in 1 .. k - 1 : First(text, Operators[l]) = 0
    <3>1. \A l \in 1 .. k - 1 : l = 1 /\ k = 2
      OBVIOUS
    <3> QED
      BY <1>9, <1>12, <3>1, OperatorsAre
  <2> QED
    BY <2>1, <2>2, <2>3, ReadsAs
<1> QED
  BY <1>7, <1>10, <1>11, <1>13, <1>14

\* The text of a set is read as its values.
LEMMA SetMeans ==
    ASSUME NEW key, IsWord(key), NEW op \in {"in", "notin"}, NEW values, IsSequence(values), values # <<>>,
           \A i \in DOMAIN values : IsWord(values[i]),
           NEW text, text = SetText(key, op, values)
    PROVE  /\ ParseRequirement(text) = [key    |-> <<key>>, op |-> op,
                                        values |-> {values[i] : i \in DOMAIN values}]
           /\ IsPart(text)
<1> DEFINE S == Marks \cup {key} \cup {values[i] : i \in DOMAIN values}
<1>0. Marks \subseteq S /\ key \in S /\ op \in S
  BY DEF Marks
<1>1. PICK n \in Nat \ {0} : Len(values) = n /\ DOMAIN values = 1 .. n
  <2>1. values \in Seq({values[i] : i \in DOMAIN values})
    BY DEF IsSequence
  <2> QED
    BY <2>1
<1>2. values \in Seq(S)
  <2>1. values \in [1 .. n -> S]
    <3>1. values \in Seq({values[i] : i \in DOMAIN values})
      BY DEF IsSequence
    <3>2. values = [i \in 1 .. n |-> values[i]]
      BY <1>1, <3>1
    <3>3. \A i \in 1 .. n : values[i] \in S
      BY <1>1
    <3> HIDE DEF S
    <3> QED
      BY <3>2, <3>3
  <2> QED
    BY <2>1, ListOf
<1> HIDE DEF S
<1> PICK m \in Nat : m = 2 * n - 1
  <2>1. 2 * n - 1 \in Nat
    OBVIOUS
  <2> QED
    BY <2>1, Zenon
<1>4. text \in Seq(S) /\ IsSetPart(text, key, op, values, n, m)
  <2>1. \A i \in 1 .. n : IsWord(values[i])
    BY <1>1
  <2> QED
    BY <1>0, <1>1, <1>2, <2>1, SetTokens
<1>5. /\ ParseRequirement(text) = [key    |-> <<key>>, op |-> op,
                                   values |-> {values[i] : i \in 1 .. n}]
      /\ IsPart(text)
  BY ONLY <1>0, <1>4, IsWord(key), op \in {"in", "notin"}, SetReads
<1> QED
  BY ONLY <1>1, <1>5

-----------------------------------------------------------------------------
(* Requirements on labels, and on fields.                                  *)

\* What the text of a requirement on labels is read as.
LEMMA LabelIsRead ==
    ASSUME NEW r, IsLabelWish(r)
    PROVE  ParseRequirement(LabelText(r)) = LabelMeaning(r) /\ IsPart(LabelText(r))
<1>1. CASE r.op = "exists"
  <2>1. LabelText(r) = <<r.key>>
    BY <1>1, Zenon DEF LabelText
  <2>2. LabelMeaning(r) = [key |-> <<r.key>>, op |-> "exists", values |-> {}]
    <3>1. r.values = <<>>
      BY <1>1 DEF IsLabelWish
    <3>2. {r.values[i] : i \in DOMAIN r.values} = {}
      BY <3>1
    <3> QED
      BY <1>1, <3>2 DEF LabelMeaning
  <2> QED
    BY <2>1, <2>2, ExistsMeans DEF IsLabelWish
<1>2. CASE r.op = "!exists"
  <2>1. LabelText(r) = <<"!", r.key>>
    BY <1>2, Zenon DEF LabelText
  <2>2. LabelMeaning(r) = [key |-> <<r.key>>, op |-> "!exists", values |-> {}]
    <3>1. r.values = <<>>
      BY <1>2 DEF IsLabelWish
    <3>2. {r.values[i] : i \in DOMAIN r.values} = {}
      BY <3>1
    <3> QED
      BY <1>2, <3>2 DEF LabelMeaning
  <2> QED
    BY <2>1, <2>2, ExistsMeans DEF IsLabelWish
<1>3. CASE r.op \in {"=", "==", "!="}
  <2>1. LabelText(r) = Binary(r.key, r.op, r.values[1])
    BY <1>3, Zenon DEF LabelText
  <2>2. Len(r.values) = 1 /\ IsSequence(r.values)
    BY <1>3 DEF IsLabelWish
  <2>3. DOMAIN r.values = {1}
    BY <2>2 DEF IsSequence
  <2>4. LabelMeaning(r) = [key |-> <<r.key>>, op |-> IF r.op = "==" THEN "=" ELSE r.op,
                           values |-> {r.values[1]}]
    BY <2>3 DEF LabelMeaning
  <2>5. IsWord(r.key) /\ IsWord(r.values[1])
    BY <2>3 DEF IsLabelWish
  <2> QED
    BY <1>3, <2>1, <2>4, <2>5, BinaryMeans
<1>4. CASE r.op \in {"in", "notin"}
  <2>1. PICK key, op, values, text :
            /\ key = r.key /\ op = r.op /\ values = r.values /\ text = LabelText(r)
    OBVIOUS
  <2>2. text = SetText(key, op, values)
    BY <1>4, <2>1, Zenon DEF LabelText
  <2>3. LabelMeaning(r) = [key |-> <<key>>, op |-> op, values |-> {values[i] : i \in DOMAIN values}]
    BY <1>4, <2>1 DEF LabelMeaning
  <2>4. /\ IsWord(key) /\ IsSequence(values) /\ \A i \in DOMAIN values : IsWord(values[i])
        /\ values # <<>> /\ op \in {"in", "notin"}
    BY <1>4, <2>1 DEF IsLabelWish
  <2>5. /\ ParseRequirement(text) = [key    |-> <<key>>, op |-> op,
                                     values |-> {values[i] : i \in DOMAIN values}]
        /\ IsPart(text)
    BY ONLY <2>2, <2>4, SetMeans
  <2> QED
    BY ONLY <2>1, <2>3, <2>5
<1> QED
  BY <1>1, <1>2, <1>3, <1>4 DEF IsLabelWish

\* The end of a part, from its last token or the one before on.
LEMMA EndOf ==
    ASSUME NEW S, NEW part \in Seq(S), NEW l \in Nat \ {0}, Len(part) = l
    PROVE  /\ SubSeq(part, l, Len(part)) = <<part[l]>>
           /\ l > 1 => /\ Len(SubSeq(part, l - 1, Len(part))) = 2
                       /\ Head(SubSeq(part, l - 1, Len(part))) = part[l - 1]
                       /\ Tail(SubSeq(part, l - 1, Len(part))) = <<part[l]>>
<1> PICK t : t = <<part[l]>>
  OBVIOUS
<1>1. t \in Seq(S) /\ Len(t) = 1 /\ t[1] = part[l]
  <2>1. part[l] \in S
    OBVIOUS
  <2> QED
    BY <2>1, TokenTuples, Zenon
<1>2. SubSeq(part, l, Len(part)) = t
  <2> PICK s : s = SubSeq(part, l, Len(part))
    OBVIOUS
  <2>1. s \in Seq(S) /\ Len(s) = 1 /\ s[1] = part[l]
    OBVIOUS
  <2>2. s = t
    BY ONLY <1>1, <2>1, SeqEqual
  <2> QED
    BY <2>2
<1>3. ASSUME l > 1
      PROVE  /\ Len(SubSeq(part, l - 1, Len(part))) = 2
             /\ Head(SubSeq(part, l - 1, Len(part))) = part[l - 1]
             /\ Tail(SubSeq(part, l - 1, Len(part))) = t
  <2> PICK s : s = SubSeq(part, l - 1, Len(part))
    OBVIOUS
  <2>1. s \in Seq(S) /\ Len(s) = 2 /\ s[1] = part[l - 1] /\ s[2] = part[l]
    BY <1>3
  <2>2. Tail(s) \in Seq(S) /\ Len(Tail(s)) = 1 /\ Tail(s)[1] = part[l]
    <3>a. 1 \in 1 .. 1 /\ 1 + 1 = 2 /\ 2 - 1 = 1 /\ 2 # 0 /\ Len(<<>>) = 0
      BY ONLY EmptySeq
    <3>1. 1 \in 1 .. 1 /\ 1 + 1 = 2 /\ s # <<>> /\ Len(s) - 1 = 1
      BY ONLY <2>1, <3>a, Zenon
    <3>2. Tail(s) \in Seq(S) /\ Len(Tail(s)) = Len(s) - 1 /\ \A i \in 1 .. Len(Tail(s)) : Tail(s)[i] = s[i + 1]
      BY ONLY <2>1, <3>1, HeadTailProperties
    <3> QED
      BY ONLY <2>1, <3>1, <3>2, Zenon
  <2>3. Tail(s) = t
    <3> PICK u : u = Tail(s)
      OBVIOUS
    <3>1. u \in Seq(S) /\ Len(u) = 1 /\ u[1] = part[l]
      BY ONLY <2>2, u = Tail(s)
    <3>2. u = t
      BY ONLY <1>1, <3>1, SeqEqual
    <3> QED
      BY <3>2
  <2>4. Head(s) = part[l - 1]
    BY ONLY <2>1
  <2> QED
    BY ONLY <2>1, <2>3, <2>4, s = SubSeq(part, l - 1, Len(part))
<1> QED
  BY <1>2, <1>3

\* What the text of a requirement on fields is read as.
IsReadAs(p, path, op, value) ==
    /\ op = "!=" => /\ First(p, <<"!", "=">>) # 0
                    /\ Before(p, <<"!", "=">>) = <<path>>
                    /\ After(p, <<"!", "=">>) = <<value>>
    /\ op # "!=" => /\ First(p, <<"!", "=">>) = 0
                    /\ First(p, <<"=">>) # 0
                    /\ Before(p, <<"=">>) = <<path>>
                    /\ TrimEquals(After(p, <<"=">>)) = <<value>>

\* The three operators.
LEMMA FieldReads ==
    ASSUME NEW path, IsWord(path), NEW value, IsWord(value), NEW op \in {"=", "==", "!="},
           NEW p, p = Binary(path, op, value)
    PROVE  IsReadAs(p, path, op, value)
<1> DEFINE S == Marks \cup {path, value}
<1>1. Marks \subseteq S /\ path \in S /\ value \in S /\ "=" \in S /\ "!" \in S
  BY DEF Marks
<1>w. path \notin {"!", "="} /\ value \notin {"!", "="}
  BY MarksDiffer DEF Marks
<1> HIDE DEF S
<1>3. CASE op = "!="
  <2>1. p = <<path, "!", "=", value>>
    BY <1>3, Zenon DEF Binary
  <2>2. p \in Seq(S) /\ Len(p) = 4 /\ p[1] = path /\ p[2] = "!" /\ p[3] = "=" /\ p[4] = value
    BY ONLY <1>1, <2>1, TokenTuples, Zenon
  <2>3. First(p, <<"!", "=">>) = 2
    <3>1. 2 \in 1 .. Len(p) /\ 2 + 1 <= Len(p)
          /\ \A i \in 1 .. 2 - 1 : p[i] # p[2] \/ p[i + 1] # p[2 + 1]
      BY ONLY <1>w, <2>2
    <3>2. First(p, <<p[2], p[2 + 1]>>) = 2
      BY ONLY <2>2, <3>1, FirstTwoTokens
    <3> QED
      BY ONLY <2>2, <3>2
  <2>4. Before(p, <<"!", "=">>) = <<p[1]>> /\ After(p, <<"!", "=">>) = SubSeq(p, 4, Len(p))
    <3>1. PICK l \in 1 .. 2 : l = 2
      OBVIOUS
    <3>2. PICK pattern : pattern = <<"!", "=">>
      OBVIOUS
    <3>3. Len(pattern) = l /\ First(p, pattern) = 2 /\ l + 1 <= Len(p) /\ 2 + l = 4
      BY ONLY <2>2, <2>3, <3>1, <3>2
    <3>4. /\ Before(p, pattern) = <<p[1]>>
          /\ After(p, pattern) = SubSeq(p, 2 + l, Len(p))
      BY ONLY <2>2, <3>3, Around
    <3> QED
      BY ONLY <3>2, <3>3, <3>4
  <2>5. SubSeq(p, 4, Len(p)) = <<p[4]>>
    <3>1. PICK l \in Nat \ {0} : l = 4
      OBVIOUS
    <3>2. Len(p) = l
      BY ONLY <2>2, <3>1
    <3>3. SubSeq(p, l, Len(p)) = <<p[l]>>
      BY ONLY <2>2, <3>2, EndOf
    <3> QED
      BY ONLY <3>1, <3>3
  <2> QED
    BY ONLY <1>3, <2>2, <2>3, <2>4, <2>5 DEF IsReadAs
<1>4. CASE op # "!="
  <2>1. /\ p \in Seq(S) /\ Len(p) \in 3 .. 4 /\ p[1] = path /\ p[2] = "=" /\ p[Len(p)] = value
        /\ Len(p) = 4 => p[3] = "="
    <3>1. CASE op = "="
      <4>1. p = <<path, "=", value>>
        BY <3>1, Zenon DEF Binary
      <4>2. p \in Seq(S) /\ Len(p) = 3 /\ p[1] = path /\ p[2] = "=" /\ p[3] = value
        BY ONLY <1>1, <4>1, TokenTuples, Zenon
      <4> QED
        BY ONLY <4>2
    <3>2. CASE op = "=="
      <4>1. p = <<path, "=", "=", value>>
        BY <3>2, Zenon DEF Binary
      <4>2. p \in Seq(S) /\ Len(p) = 4 /\ p[1] = path /\ p[2] = "=" /\ p[3] = "=" /\ p[4] = value
        BY ONLY <1>1, <4>1, TokenTuples, Zenon
      <4> QED
        BY ONLY <4>2
    <3> QED
      BY <1>4, <3>1, <3>2
  <2>2. First(p, <<"!", "=">>) = 0
    <3>1. \A i \in 1 .. Len(p) : p[i] # "!"
      <4>1. \A i \in 1 .. Len(p) : i = 1 \/ i = 2 \/ i = Len(p) \/ (Len(p) = 4 /\ i = 3)
        BY ONLY <2>1
      <4> QED
        BY ONLY <1>w, <2>1, <4>1
    <3> QED
      BY <1>1, <2>1, <3>1, NoTwoTokens
  <2>3. First(p, <<"=">>) = 2
    <3>1. 2 \in 1 .. Len(p) /\ \A i \in 1 .. 2 - 1 : p[i] # p[2]
      BY ONLY <1>w, <2>1
    <3>2. First(p, <<p[2]>>) = 2
      BY ONLY <2>1, <3>1, FirstToken
    <3> QED
      BY ONLY <2>1, <3>2
  <2>4. Before(p, <<"=">>) = <<p[1]>> /\ After(p, <<"=">>) = SubSeq(p, 3, Len(p))
    <3>1. PICK l \in 1 .. 2 : l = 1
      OBVIOUS
    <3>2. PICK pattern : pattern = <<"=">>
      OBVIOUS
    <3>3. Len(pattern) = l /\ First(p, pattern) = 2 /\ l + 1 <= Len(p) /\ 2 + l = 3
      BY ONLY <2>1, <2>3, <3>1, <3>2
    <3>4. /\ Before(p, pattern) = <<p[1]>>
          /\ After(p, pattern) = SubSeq(p, 2 + l, Len(p))
      BY ONLY <2>1, <3>3, Around
    <3> QED
      BY ONLY <3>2, <3>3, <3>4
  <2>5. PICK l \in Nat \ {0} : l = Len(p)
    BY ONLY <2>1
  <2>6. TrimEquals(SubSeq(p, 3, Len(p))) = <<value>>
    <3>1. CASE l = 3
      <4>1. SubSeq(p, l, Len(p)) = <<p[l]>>
        BY ONLY <2>1, <2>5, EndOf
      <4>2. PICK t : t = <<value>>
        OBVIOUS
      <4>3. SubSeq(p, 3, Len(p)) = t
        BY ONLY <2>1, <2>5, <3>1, <4>1, <4>2
      <4>4. Head(t) # "="
        BY ONLY <1>w, <4>2
      <4> QED
        BY ONLY <4>2, <4>3, <4>4 DEF TrimEquals
    <3>2. CASE l = 4
      <4>1. PICK s : s = SubSeq(p, l - 1, Len(p))
        OBVIOUS
      <4>2. Len(s) = 2 /\ Head(s) = p[l - 1] /\ Tail(s) = <<p[l]>>
        <5>1. p \in Seq(S) /\ l \in Nat \ {0} /\ Len(p) = l /\ l > 1
          BY ONLY <2>1, <2>5, <3>2
        <5>2. /\ Len(SubSeq(p, l - 1, Len(p))) = 2
              /\ Head(SubSeq(p, l - 1, Len(p))) = p[l - 1]
              /\ Tail(SubSeq(p, l - 1, Len(p))) = <<p[l]>>
          BY ONLY <5>1, EndOf, Zenon
        <5> QED
          BY ONLY <4>1, <5>2
      <4>3. p[l - 1] = "=" /\ p[l] = value /\ l - 1 = 3 /\ l > 1
        BY ONLY <2>1, <2>5, <3>2
      <4>4. s # <<>> /\ Head(s) = "=" /\ Tail(s) = <<value>>
        BY ONLY <4>2, <4>3
      <4>5. s = SubSeq(p, 3, Len(p))
        BY ONLY <4>1, <4>3
      <4> QED
        BY ONLY <4>4, <4>5 DEF TrimEquals
    <3> QED
      BY <2>1, <2>5, <3>1, <3>2
  <2> QED
    <3>1. Before(p, <<"=">>) = <<path>>
      BY ONLY <2>1, <2>4
    <3>2. TrimEquals(After(p, <<"=">>)) = <<value>>
      BY ONLY <2>4, <2>6
    <3>3. First(p, <<"=">>) # 0
      BY ONLY <2>3
    <3> QED
      BY ONLY <1>4, <2>2, <3>1, <3>2, <3>3, Zenon DEF IsReadAs
<1> QED
  BY <1>3, <1>4

\* A requirement is written as one of them.
LEMMA FieldIsRead ==
    ASSUME NEW r, IsFieldWish(r)
    PROVE  /\ IsPart(FieldText(r)) /\ Plain(FieldText(r))
           /\ IsReadAs(FieldText(r), r.path, r.op, r.value)
<1> PICK path, value, op : path = r.path /\ value = r.value /\ op = r.op
  OBVIOUS
<1>1. IsWord(path) /\ IsWord(value) /\ op \in {"=", "==", "!="}
  BY DEF IsFieldWish
<1>2. FieldText(r) = Binary(path, op, value)
  BY DEF FieldText
<1>3. IsPart(Binary(path, op, value)) /\ Plain(Binary(path, op, value))
  BY ONLY <1>1, BinaryMeans
<1>4. IsReadAs(Binary(path, op, value), path, op, value)
  BY ONLY <1>1, FieldReads
<1> QED
  BY <1>2, <1>3, <1>4

-----------------------------------------------------------------------------
(* Induction over a bounded counter.                                       *)

\* A set of numbers that is not empty has a least one.
LEMMA LeastElement ==
    ASSUME NEW T \in SUBSET Nat, T # {}
    PROVE  \E m \in T : \A k \in T : m <= k
<1>1. \E m \in T : \A k \in T : ~ (<<k, m>> \in OpToRel(<, Nat))
  BY NatLessThanWellFounded, WFMin, Zenon
<1>2. PICK m \in T : \A k \in T : ~ (<<k, m>> \in OpToRel(<, Nat))
  BY <1>1
<1>3. ASSUME NEW k \in T
      PROVE  m <= k
  <2>1. ~ (k < m)
    BY <1>2, k \in Nat, m \in Nat DEF OpToRel
  <2> QED
    BY <2>1
<1> QED
  BY <1>3

\* What holds of 0, and of a number when it holds of the one before, holds up to n.
LEMMA UpTo ==
    ASSUME NEW n \in Nat, NEW T, 0 \in T,
           \A m \in 0 .. n : m # 0 /\ m - 1 \in T => m \in T
    PROVE  \A m \in 0 .. n : m \in T
<1> DEFINE U == {m \in 0 .. n : m \notin T}
<1>1. SUFFICES ASSUME U # {} PROVE FALSE
  OBVIOUS
<1>2. U \in SUBSET Nat
  OBVIOUS
<1>3. PICK m \in U : \A k \in U : m <= k
  <2> HIDE DEF U
  <2> QED
    BY <1>1, <1>2, LeastElement
<1>4. m \in 0 .. n /\ m # 0 /\ m \notin T
  OBVIOUS
<1>5. m - 1 \in 0 .. n /\ ~ (m <= m - 1)
  BY <1>4
<1>6. m - 1 \in T
  BY <1>3, <1>5
<1> QED
  BY <1>4, <1>6

-----------------------------------------------------------------------------
(* Parts with commas between.                                              *)

\* Where parts end.
IsEnds(f, parts, n) ==
    f = [i \in 0 .. n |-> IF i = 0 THEN 0 ELSE f[i - 1] + Len(parts[i]) + 1]

\* There are such ends.
LEMMA EndsExist ==
    ASSUME NEW parts, NEW n \in Nat
    PROVE  \E f : IsEnds(f, parts, n)
<1> DEFINE T == {m \in Nat : \E f : IsEnds(f, parts, m)}
<1>1. 0 \in T
  <2>1. IsEnds([i \in 0 .. 0 |-> 0], parts, 0)
    BY DEF IsEnds
  <2> QED
    BY <2>1
<1>2. ASSUME NEW m \in 0 .. n, m # 0, m - 1 \in T
      PROVE  m \in T
  <2>1. PICK f : IsEnds(f, parts, m - 1)
    BY <1>2
  <2> DEFINE g == [i \in 0 .. m |-> IF i = 0 THEN 0 ELSE f[i - 1] + Len(parts[i]) + 1]
  <2>2. \A i \in 0 .. m - 1 : g[i] = f[i]
    BY <1>2, <2>1 DEF IsEnds
  <2>3. ASSUME NEW i \in 0 .. m, i # 0
        PROVE  g[i] = g[i - 1] + Len(parts[i]) + 1
    <3>1. g[i] = f[i - 1] + Len(parts[i]) + 1
      BY <2>3
    <3>2. i - 1 \in 0 .. m - 1
      BY <1>2, <2>3
    <3>3. g[i - 1] = f[i - 1]
      BY <2>2, <3>2
    <3> HIDE DEF g
    <3> QED
      BY <3>1, <3>3, Zenon
  <2>4. g[0] = 0
    BY <1>2
  <2>5. g = [i \in 0 .. m |-> g[i]]
    BY Zenon
  <2> HIDE DEF g
  <2>6. \A i \in 0 .. m : g[i] = IF i = 0 THEN 0 ELSE g[i - 1] + Len(parts[i]) + 1
    BY <2>3, <2>4, Zenon
  <2>7. IsEnds(g, parts, m)
    BY <2>5, <2>6, Zenon DEF IsEnds
  <2> QED
    BY <1>2, <2>7
<1> HIDE DEF T
<1>3. n \in T
  BY <1>1, <1>2, UpTo
<1> QED
  BY <1>3 DEF T

\* They are apart, and what is not behind the last is behind one and not the next.
IsLayout(e, parts, n) ==
    /\ e[0] = 0 /\ \A i \in 0 .. n : e[i] \in Nat
    /\ \A i \in 1 .. n : e[i] = e[i - 1] + Len(parts[i]) + 1
    /\ \A i, j \in 0 .. n : i < j => e[i] < e[j]
    /\ \A k \in Nat : k > 0 /\ k <= e[n] => \E i \in 1 .. n : e[i - 1] < k /\ k <= e[i]

\* The ends of parts are a layout.
LEMMA EndsAreApart ==
    ASSUME NEW parts, NEW n \in Nat, Len(parts) = n,
           \A i \in 1 .. n : Len(parts[i]) \in Nat
    PROVE  IsLayout(Ends(parts), parts, n)
<1> DEFINE F == CHOOSE f : IsEnds(f, parts, n)
<1>1. Ends(parts) = F
  BY DEF Ends, IsEnds
<1>2. IsEnds(F, parts, n)
  BY EndsExist, Zenon
<1> PICK e : e = Ends(parts)
  OBVIOUS
<1>3. IsEnds(e, parts, n)
  BY <1>1, <1>2
<1>4. \A i \in 0 .. n : e[i] = IF i = 0 THEN 0 ELSE e[i - 1] + Len(parts[i]) + 1
  BY <1>3, Zenon DEF IsEnds
<1>5. e[0] = 0 /\ \A i \in 1 .. n : e[i] = e[i - 1] + Len(parts[i]) + 1
  BY <1>4
<1>6. \A i \in 0 .. n : e[i] \in Nat
  <2> DEFINE T == {i \in 0 .. n : e[i] \in Nat}
  <2>1. 0 \in T
    BY <1>5
  <2>2. \A i \in 0 .. n : i # 0 /\ i - 1 \in T => i \in T
    BY <1>5
  <2> HIDE DEF T
  <2>3. \A i \in 0 .. n : i \in T
    BY <2>1, <2>2, UpTo
  <2> QED
    BY <2>3 DEF T
<1>7. \A i, j \in 0 .. n : i < j => e[i] < e[j]
  <2> DEFINE T == {j \in 0 .. n : \A i \in 0 .. n : i < j => e[i] < e[j]}
  <2>1. 0 \in T
    OBVIOUS
  <2>2. ASSUME NEW j \in 0 .. n, j # 0, j - 1 \in T
        PROVE  j \in T
    <3>1. e[j - 1] \in Nat /\ e[j] \in Nat /\ e[j - 1] < e[j]
      BY <1>5, <1>6, <2>2
    <3>2. ASSUME NEW i \in 0 .. n, i < j
          PROVE  e[i] < e[j]
      <4>1. i = j - 1 \/ i < j - 1
        BY <3>2
      <4>2. i < j - 1 => e[i] < e[j - 1]
        BY <2>2
      <4> QED
        BY <1>6, <3>1, <4>1, <4>2
    <3> QED
      BY <3>2
  <2> HIDE DEF T
  <2>3. \A j \in 0 .. n : j \in T
    BY <2>1, <2>2, UpTo
  <2> QED
    BY <2>3 DEF T
<1>8. \A k \in Nat : k > 0 /\ k <= e[n] => \E i \in 1 .. n : e[i - 1] < k /\ k <= e[i]
  <2> DEFINE T == {j \in 0 .. n : \A k \in Nat : k > 0 /\ k <= e[j] =>
                        \E i \in 1 .. n : e[i - 1] < k /\ k <= e[i]}
  <2>1. 0 \in T
    BY <1>5
  <2>2. ASSUME NEW j \in 0 .. n, j # 0, j - 1 \in T
        PROVE  j \in T
    <3>1. ASSUME NEW k \in Nat, k > 0, k <= e[j]
          PROVE  \E i \in 1 .. n : e[i - 1] < k /\ k <= e[i]
      <4>1. CASE k <= e[j - 1]
        BY <2>2, <3>1, <4>1
      <4>2. CASE e[j - 1] < k
        BY <2>2, <3>1, <4>2
      <4>3. e[j - 1] \in Nat
        BY <1>6, <2>2
      <4> QED
        BY <4>1, <4>2, <4>3
    <3> QED
      BY <3>1
  <2> HIDE DEF T
  <2>3. \A j \in 0 .. n : j \in T
    BY <2>1, <2>2, UpTo
  <2>4. n \in T
    BY <2>3
  <2> QED
    BY <2>4 DEF T
<1>9. IsLayout(e, parts, n)
  BY <1>5, <1>6, <1>7, <1>8 DEF IsLayout
<1> QED
  BY <1>9

\* A place is in one part only.
LEMMA OnePart ==
    ASSUME NEW e, NEW parts, NEW n \in Nat, IsLayout(e, parts, n),
           NEW i \in 1 .. n, NEW j \in 1 .. n, NEW k \in Nat,
           e[i - 1] < k, k <= e[i], e[j - 1] < k, k <= e[j]
    PROVE  i = j
<1>1. /\ e[i] \in Nat /\ e[j] \in Nat /\ e[i - 1] \in Nat /\ e[j - 1] \in Nat
  <2>1. i \in 0 .. n /\ j \in 0 .. n /\ i - 1 \in 0 .. n /\ j - 1 \in 0 .. n
    OBVIOUS
  <2> QED
    BY <2>1 DEF IsLayout
<1>2. ~ (i < j)
  <2>1. i < j => i = j - 1 \/ i < j - 1
    OBVIOUS
  <2>2. i < j - 1 => e[i] < e[j - 1]
    BY DEF IsLayout
  <2> QED
    BY <1>1, <2>1, <2>2
<1>3. ~ (j < i)
  <2>1. j < i => j = i - 1 \/ j < i - 1
    OBVIOUS
  <2>2. j < i - 1 => e[j] < e[i - 1]
    BY DEF IsLayout
  <2> QED
    BY <1>1, <2>1, <2>2
<1> QED
  BY <1>2, <1>3

\* What is where in the text of the parts.
IsJoined(text, e, parts, n) ==
    /\ IsLayout(e, parts, n)
    /\ Len(text) = e[n] - 1
    /\ \A i \in 1 .. n, q \in Nat : 1 <= q /\ q <= Len(parts[i]) => text[e[i - 1] + q] = parts[i][q]
    /\ \A i \in 1 .. n : i < n => text[e[i]] = Comma

\* Joined puts them there.
LEMMA JoinedIs ==
    ASSUME NEW S, Comma \in S, NEW n \in Nat \ {0}, NEW parts \in Seq(Seq(S)), Len(parts) = n
    PROVE  /\ Joined(parts) \in Seq(S)
           /\ IsJoined(Joined(parts), Ends(parts), parts, n)
<1> PICK e : e = Ends(parts)
  OBVIOUS
<1>1. /\ \A i \in 1 .. n : parts[i] \in Seq(S) /\ Len(parts[i]) \in Nat
      /\ DOMAIN parts = 1 .. n
  OBVIOUS
<1>2. IsLayout(e, parts, n)
  BY <1>1, EndsAreApart
<1> DEFINE part(k) == CHOOSE i \in DOMAIN parts : e[i - 1] < k /\ k <= e[i]
           at(k)   == IF k = e[part(k)] THEN Comma ELSE parts[part(k)][k - e[part(k) - 1]]
<1>3. Joined(parts) = [k \in 1 .. e[n] - 1 |-> at(k)]
  BY DEF Joined
<1>4. \A i \in 1 .. n, k \in Nat : e[i - 1] < k /\ k <= e[i] => part(k) = i
  <2> SUFFICES ASSUME NEW i \in 1 .. n, NEW k \in Nat, e[i - 1] < k, k <= e[i]
               PROVE  part(k) = i
    OBVIOUS
  <2>1. \A j \in DOMAIN parts : e[j - 1] < k /\ k <= e[j] => j = i
    BY <1>1, <1>2, OnePart
  <2> QED
    BY <1>1, <2>1
<1> HIDE DEF part
<1>5. e[n] - 1 \in Nat /\ e[n] \in Nat
  <2>1. e[0] < e[n] /\ e[0] = 0 /\ e[n] \in Nat
    BY <1>2 DEF IsLayout
  <2> QED
    BY <2>1
<1>6. \A i \in 1 .. n : e[i] \in Nat /\ e[i - 1] \in Nat /\ e[i] = e[i - 1] + Len(parts[i]) + 1
  <2>1. \A i \in 1 .. n : i \in 0 .. n /\ i - 1 \in 0 .. n
    OBVIOUS
  <2> QED
    BY <1>2, <2>1 DEF IsLayout
<1>7. \A k \in 1 .. e[n] - 1 : at(k) \in S
  <2> SUFFICES ASSUME NEW k \in 1 .. e[n] - 1
               PROVE  at(k) \in S
    OBVIOUS
  <2>1. k \in Nat /\ k > 0 /\ k <= e[n]
    BY <1>5
  <2>2. PICK i \in 1 .. n : e[i - 1] < k /\ k <= e[i]
    BY <1>2, <2>1 DEF IsLayout
  <2>3. part(k) = i
    BY <1>4, <2>1, <2>2
  <2>4. k # e[i] => k - e[i - 1] \in 1 .. Len(parts[i])
    <3>1. PICK a \in Nat, b \in Nat, m \in Nat : a = e[i - 1] /\ b = e[i] /\ m = Len(parts[i])
      BY <1>1, <1>6
    <3>2. b = a + m + 1 /\ a < k /\ k <= b
      BY ONLY <1>6, <2>2, <3>1, i \in 1 .. n
    <3>3. k # b => k - a \in 1 .. m
      BY ONLY <2>1, <3>2, a \in Nat, b \in Nat, m \in Nat
    <3> QED
      BY ONLY <3>1, <3>3
  <2>5. k # e[i] => parts[i][k - e[i - 1]] \in S
    BY <1>1, <2>4
  <2> QED
    BY <2>3, <2>5
<1>8. \A i \in 1 .. n, q \in Nat : 1 <= q /\ q <= Len(parts[i]) =>
            /\ e[i - 1] + q \in 1 .. e[n] - 1
            /\ at(e[i - 1] + q) = parts[i][q]
  <2> SUFFICES ASSUME NEW i \in 1 .. n, NEW q \in Nat, 1 <= q, q <= Len(parts[i])
               PROVE  e[i - 1] + q \in 1 .. e[n] - 1 /\ at(e[i - 1] + q) = parts[i][q]
    OBVIOUS
  <2>1. e[i] <= e[n]
    <3>1. i = n \/ i < n
      OBVIOUS
    <3>2. i < n => e[i] < e[n]
      BY <1>2 DEF IsLayout
    <3> QED
      BY <1>5, <1>6, <3>1, <3>2
  <2>2. PICK a \in Nat, b \in Nat, m \in Nat, l \in Nat :
            a = e[i - 1] /\ b = e[i] /\ m = Len(parts[i]) /\ l = e[n]
    BY <1>1, <1>5, <1>6
  <2>a. b = a + m + 1 /\ b <= l /\ q <= m
    BY ONLY <1>6, <2>1, <2>2, i \in 1 .. n, q <= Len(parts[i])
  <2>b. PICK k \in Nat : k = a + q
    OBVIOUS
  <2>c. k \in 1 .. l - 1 /\ a < k /\ k <= b /\ k # b /\ k - a = q
    BY ONLY <2>a, <2>b, a \in Nat, b \in Nat, m \in Nat, l \in Nat, q \in Nat, 1 <= q
  <2>3. k \in 1 .. e[n] - 1 /\ e[i - 1] < k /\ k <= e[i] /\ k # e[i] /\ k - e[i - 1] = q /\ k = e[i - 1] + q
    BY ONLY <2>2, <2>b, <2>c
  <2>4. part(k) = i
    BY <1>4, <2>3
  <2> QED
    BY <2>3, <2>4
<1>9. \A i \in 1 .. n : i < n => e[i] \in 1 .. e[n] - 1 /\ at(e[i]) = Comma
  <2> SUFFICES ASSUME NEW i \in 1 .. n, i < n
               PROVE  e[i] \in 1 .. e[n] - 1 /\ at(e[i]) = Comma
    OBVIOUS
  <2>1. e[i] < e[n] /\ e[i - 1] < e[i] /\ e[i] \in Nat
    BY <1>1, <1>2, <1>6 DEF IsLayout
  <2>2. part(e[i]) = i
    BY <1>4, <2>1
  <2>3. e[i] \in 1 .. e[n] - 1
    <3>1. PICK a \in Nat, b \in Nat, l \in Nat : a = e[i - 1] /\ b = e[i] /\ l = e[n]
      BY <1>5, <1>6
    <3>2. a < b /\ b < l
      BY ONLY <2>1, <3>1
    <3>3. b \in 1 .. l - 1
      BY ONLY <3>2, a \in Nat, b \in Nat, l \in Nat
    <3> QED
      BY ONLY <3>1, <3>3
  <2> QED
    BY <2>2, <2>3
<1> HIDE DEF at
<1> PICK text : text = Joined(parts)
  OBVIOUS
<1>10. PICK l \in Nat : l = e[n] - 1
  BY <1>5
<1>11. text \in [1 .. l -> S] /\ \A k \in 1 .. l : text[k] = at(k)
  BY <1>3, <1>7, <1>10
<1>12. text \in Seq(S) /\ Len(text) = l
  BY <1>11, ListOf
<1>13. IsJoined(text, e, parts, n)
  <2>1. \A i \in 1 .. n, q \in Nat : 1 <= q /\ q <= Len(parts[i]) => text[e[i - 1] + q] = parts[i][q]
    BY <1>8, <1>10, <1>11
  <2>2. \A i \in 1 .. n : i < n => text[e[i]] = Comma
    BY <1>9, <1>10, <1>11
  <2> QED
    BY <1>2, <1>10, <1>12, <2>1, <2>2 DEF IsJoined
<1> QED
  BY <1>12, <1>13

-----------------------------------------------------------------------------
(* What the parsers split a text into.                                     *)

\* As many of the first places as there are.
LEMMA FirstEnds ==
    ASSUME NEW e, NEW parts, NEW n \in Nat, IsLayout(e, parts, n), NEW k \in 0 .. n + 1
    PROVE  Cardinality({e[i] : i \in 0 .. k - 1}) = k
<1> DEFINE F(m) == {e[i] : i \in 0 .. m - 1}
           T    == {m \in 0 .. n + 1 : IsFiniteSet(F(m)) /\ Cardinality(F(m)) = m}
<1>1. 0 \in T
  <2>1. F(0) = {}
    OBVIOUS
  <2> QED
    BY <2>1, FS_EmptySet
<1>2. ASSUME NEW m \in 0 .. n + 1, m # 0, m - 1 \in T
      PROVE  m \in T
  <2>1. F(m) = F(m - 1) \cup {e[m - 1]}
    <3>1. \A i : i \in 0 .. m - 1 <=> i \in 0 .. (m - 1) - 1 \/ i = m - 1
      BY <1>2
    <3> QED
      BY <3>1
  <2>2. e[m - 1] \notin F(m - 1)
    <3>1. ASSUME NEW i \in 0 .. (m - 1) - 1
          PROVE  e[i] # e[m - 1]
      <4>1. i \in 0 .. n /\ m - 1 \in 0 .. n /\ i < m - 1
        BY <1>2
      <4>2. e[i] < e[m - 1] /\ e[i] \in Nat /\ e[m - 1] \in Nat
        BY <4>1 DEF IsLayout
      <4> QED
        BY <4>2
    <3> QED
      BY <3>1
  <2>3. IsFiniteSet(F(m - 1)) /\ Cardinality(F(m - 1)) = m - 1
    BY <1>2
  <2> HIDE DEF F
  <2>4. IsFiniteSet(F(m)) /\ Cardinality(F(m)) = (m - 1) + 1
    BY <2>1, <2>2, <2>3, FS_AddElement
  <2> QED
    BY <1>2, <2>4
<1> HIDE DEF T
<1>3. \A m \in 0 .. n + 1 : m \in T
  <2>1. n + 1 \in Nat
    OBVIOUS
  <2> QED
    BY <1>1, <1>2, <2>1, UpTo
<1> QED
  BY <1>3 DEF T

\* A text that is split where its parts end.
SplitsInto(text, cuts, parts, n) == SplitAt(text, cuts) = {parts[i] : i \in 1 .. n}

\* Between its ends are the parts.
LEMMA SplitAtEnds ==
    ASSUME NEW S, NEW text \in Seq(S), NEW n \in Nat \ {0}, NEW parts \in Seq(Seq(S)), Len(parts) = n,
           \A i \in 1 .. n : parts[i] # <<>>,
           NEW e, IsJoined(text, e, parts, n),
           NEW cuts, cuts = {e[i] : i \in 1 .. n - 1}
    PROVE  SplitsInto(text, cuts, parts, n)
<1>1. /\ \A i \in 0 .. n : e[i] \in Nat
      /\ e[0] = 0 /\ e[n] = Len(text) + 1
  <2>1. IsLayout(e, parts, n) /\ Len(text) = e[n] - 1
    BY DEF IsJoined
  <2>2. e[n] \in Nat /\ e[0] = 0 /\ \A i \in 0 .. n : e[i] \in Nat
    BY <2>1 DEF IsLayout
  <2> QED
    BY <2>1, <2>2
<1>2. \A i, j \in 0 .. n : e[i] < e[j] <=> i < j
  <2>1. \A i, j \in 0 .. n : i < j => e[i] < e[j]
    BY DEF IsJoined, IsLayout
  <2>2. \A i, j \in 0 .. n : i = j \/ i < j \/ j < i
    OBVIOUS
  <2> QED
    BY <1>1, <2>1, <2>2
<1> DEFINE ends == cuts \cup {0, Len(text) + 1}
           at(k) == CHOOSE x \in ends : Cardinality({y \in ends : y < x}) = k
<1>3. ends = {e[i] : i \in 0 .. n}
  <2>1. \A i : i \in 0 .. n <=> i = 0 \/ i = n \/ i \in 1 .. n - 1
    OBVIOUS
  <2> QED
    BY <1>1, <2>1
<1>4. SplitAt(text, cuts)
        = {SubSeq(text, at(i - 1) + 1, at(i) - 1) : i \in 1 .. Cardinality(ends) - 1} \ {<<>>}
  BY DEF SplitAt
<1> HIDE DEF ends
<1>5. Cardinality(ends) = n + 1
  <2>1. IsLayout(e, parts, n) /\ n + 1 \in 0 .. n + 1 /\ (n + 1) - 1 = n
    BY DEF IsJoined
  <2>2. Cardinality({e[i] : i \in 0 .. (n + 1) - 1}) = n + 1
    BY <2>1, FirstEnds
  <2> QED
    BY <1>3, <2>1, <2>2
<1>6. \A k \in 0 .. n : Cardinality({y \in ends : y < e[k]}) = k
  <2> SUFFICES ASSUME NEW k \in 0 .. n PROVE Cardinality({y \in ends : y < e[k]}) = k
    OBVIOUS
  <2>1. {y \in ends : y < e[k]} = {e[i] : i \in 0 .. k - 1}
    <3>1. \A i \in 0 .. n : i < k <=> i \in 0 .. k - 1
      OBVIOUS
    <3>2. \A i \in 0 .. k - 1 : i \in 0 .. n
      OBVIOUS
    <3> QED
      BY <1>2, <1>3, <3>1, <3>2
  <2>2. Cardinality({e[i] : i \in 0 .. k - 1}) = k
    <3>1. IsLayout(e, parts, n) /\ k \in 0 .. n + 1
      BY DEF IsJoined
    <3> QED
      BY <3>1, FirstEnds
  <2> QED
    BY <2>1, <2>2
<1>7. \A k \in 0 .. n : at(k) = e[k]
  <2> SUFFICES ASSUME NEW k \in 0 .. n PROVE at(k) = e[k]
    OBVIOUS
  <2>1. e[k] \in ends /\ Cardinality({y \in ends : y < e[k]}) = k
    BY <1>3, <1>6
  <2>2. \A x \in ends : Cardinality({y \in ends : y < x}) = k => x = e[k]
    <3> SUFFICES ASSUME NEW j \in 0 .. n, Cardinality({y \in ends : y < e[j]}) = k PROVE e[j] = e[k]
      BY <1>3
    <3> QED
      BY <1>6
  <2> QED
    BY <2>1, <2>2
<1> HIDE DEF at
<1>8. ASSUME NEW i \in 1 .. n
      PROVE  SubSeq(text, at(i - 1) + 1, at(i) - 1) = parts[i]
  <2>1. at(i - 1) = e[i - 1] /\ at(i) = e[i]
    <3>1. i - 1 \in 0 .. n /\ i \in 0 .. n
      OBVIOUS
    <3> QED
      BY <1>7, <3>1
  <2>2. PICK a \in Nat, b \in Nat, m \in Nat, l \in Nat :
            a = e[i - 1] /\ b = e[i] /\ m = Len(parts[i]) /\ l = Len(text)
    <3>1. i - 1 \in 0 .. n /\ i \in 0 .. n /\ Len(parts[i]) \in Nat /\ Len(text) \in Nat
      OBVIOUS
    <3> QED
      BY <1>1, <3>1
  <2>3. b = a + m + 1 /\ b <= l + 1
    <3>1. e[i] = e[i - 1] + Len(parts[i]) + 1
      BY DEF IsJoined, IsLayout
    <3>2. i = n \/ e[i] < e[n]
      <4>1. i = n \/ i < n
        OBVIOUS
      <4>2. i \in 0 .. n /\ n \in 0 .. n
        OBVIOUS
      <4> QED
        BY <1>2, <4>1, <4>2
    <3> QED
      BY ONLY <1>1, <2>2, <3>1, <3>2, a \in Nat, b \in Nat, m \in Nat, l \in Nat
  <2>4. PICK s : s = SubSeq(text, a + 1, b - 1)
    OBVIOUS
  <2>5. s \in Seq(S) /\ Len(s) = m /\ \A q \in 1 .. m : s[q] = text[a + q]
    <3>1. /\ a + 1 \in Nat \ {0} /\ b - 1 \in Nat /\ b - 1 <= l
          /\ (b - 1) - (a + 1) + 1 = m /\ a + 1 <= (b - 1) + 1
          /\ \A q \in 1 .. m : (a + 1) + q - 1 = a + q
          /\ m > 0 => a + 1 \in 1 .. l /\ b - 1 \in 1 .. l
      BY ONLY <2>3, a \in Nat, b \in Nat, m \in Nat, l \in Nat
    <3>2. m > 0
      BY <2>2
    <3>3. PICK c \in 1 .. l, d \in 1 .. l : c = a + 1 /\ d = b - 1
      BY ONLY <3>1, <3>2
    <3>4. /\ SubSeq(text, c, d) \in Seq(S) /\ Len(SubSeq(text, c, d)) = m
          /\ \A q \in 1 .. m : SubSeq(text, c, d)[q] = text[c + q - 1]
      <4>1. l = Len(text) /\ d - c + 1 = m /\ c <= d
        <5>1. d - c + 1 = m
          BY ONLY <3>1, <3>3
        <5>2. c <= d
          BY ONLY <3>2, <5>1, m \in Nat, c \in 1 .. l, d \in 1 .. l, l \in Nat
        <5> QED
          BY ONLY <2>2, <5>1, <5>2
      <4> QED
        BY ONLY <4>1, text \in Seq(S), m \in Nat, l \in Nat
    <3> QED
      BY ONLY <2>4, <3>1, <3>3, <3>4
  <2>6. \A q \in 1 .. m : text[a + q] = parts[i][q]
    <3>1. \A q \in Nat : 1 <= q /\ q <= Len(parts[i]) => text[e[i - 1] + q] = parts[i][q]
      BY DEF IsJoined
    <3> QED
      BY ONLY <2>2, <3>1, m \in Nat
  <2>7. parts[i] \in Seq(S)
    OBVIOUS
  <2>8. s = parts[i]
    BY ONLY <2>2, <2>5, <2>6, <2>7, SeqEqual
  <2> QED
    BY ONLY <2>1, <2>2, <2>4, <2>8
<1>9. SplitAt(text, cuts) = {parts[i] : i \in 1 .. n} \ {<<>>}
  <2>1. (n + 1) - 1 = n
    OBVIOUS
  <2> QED
    BY <1>4, <1>5, <1>8, <2>1
<1>10. SplitAt(text, cuts) = {parts[i] : i \in 1 .. n}
  BY <1>9
<1> QED
  BY <1>10 DEF SplitsInto

\* A token opens, closes, or leaves the depth as it is.
LEMMA DepthStep ==
    ASSUME NEW text, NEW k \in Nat \ {0}
    PROVE  /\ Depth(text, k - 1) \in Int
           /\ text[k] = "(" => Depth(text, k) = Depth(text, k - 1) + 1
           /\ text[k] = ")" => Depth(text, k) = Depth(text, k - 1) - 1
           /\ text[k] \notin {"(", ")"} => Depth(text, k) = Depth(text, k - 1)
<1> DEFINE F(t, m) == {j \in 1 .. m : text[j] = t}
<1>1. \A t : IsFiniteSet(F(t, k - 1))
  <2>1. IsFiniteSet(1 .. k - 1)
    BY FS_Interval
  <2>2. \A t : F(t, k - 1) \subseteq 1 .. k - 1
    OBVIOUS
  <2> QED
    BY <2>1, <2>2, FS_Subset
<1>2. \A t : F(t, k) = IF text[k] = t THEN F(t, k - 1) \cup {k} ELSE F(t, k - 1)
  <2>1. \A j : j \in 1 .. k <=> j \in 1 .. k - 1 \/ j = k
    OBVIOUS
  <2> QED
    BY <2>1
<1>3. \A t : k \notin F(t, k - 1)
  OBVIOUS
<1>4. /\ Depth(text, k) = Cardinality(F("(", k)) - Cardinality(F(")", k))
      /\ Depth(text, k - 1) = Cardinality(F("(", k - 1)) - Cardinality(F(")", k - 1))
  BY DEF Depth
<1> HIDE DEF F
<1>5. \A t : /\ Cardinality(F(t, k - 1)) \in Nat
             /\ Cardinality(F(t, k)) = IF text[k] = t THEN Cardinality(F(t, k - 1)) + 1
                                       ELSE Cardinality(F(t, k - 1))
  <2> SUFFICES ASSUME NEW t
               PROVE  /\ Cardinality(F(t, k - 1)) \in Nat
                      /\ Cardinality(F(t, k)) = IF text[k] = t THEN Cardinality(F(t, k - 1)) + 1
                                               ELSE Cardinality(F(t, k - 1))
    OBVIOUS
  <2>1. IsFiniteSet(F(t, k - 1)) /\ k \notin F(t, k - 1)
    BY <1>1, <1>3
  <2>2. Cardinality(F(t, k - 1)) \in Nat
    BY <2>1, FS_CardinalityType
  <2>3. Cardinality(F(t, k - 1) \cup {k}) = Cardinality(F(t, k - 1)) + 1
    BY <2>1, FS_AddElement
  <2> QED
    BY <1>2, <2>2, <2>3
<1>6. PICK a \in Nat, b \in Nat : a = Cardinality(F("(", k - 1)) /\ b = Cardinality(F(")", k - 1))
  BY <1>5
<1>7. /\ Depth(text, k - 1) = a - b
      /\ Depth(text, k) = (IF text[k] = "(" THEN a + 1 ELSE a) - (IF text[k] = ")" THEN b + 1 ELSE b)
  BY <1>4, <1>5, <1>6
<1> QED
  BY ONLY <1>7, a \in Nat, b \in Nat

\* Strictly inside the set of a part.
InSet(e, parts, n, k) ==
    \E i \in 1 .. n : EndsInSet(parts[i]) /\ e[i - 1] + 3 <= k /\ k < e[i] - 1

\* The k-th token of the text is the q-th of the i-th part, or the comma behind it.
IsPlaceIn(e, parts, k, i, a, m, q) ==
    a = e[i - 1] /\ m = Len(parts[i]) /\ k = a + q /\ 1 <= q /\ q <= m + 1

\* Only the part a place is in says whether it is inside a set.
LEMMA InSetAt ==
    ASSUME NEW e, NEW parts, NEW n \in Nat, IsLayout(e, parts, n),
           NEW i \in 1 .. n, NEW a \in Nat, NEW m \in Nat, NEW q \in Nat, NEW k \in Nat \ {0},
           IsPlaceIn(e, parts, k, i, a, m, q)
    PROVE  /\ InSet(e, parts, n, k) <=> EndsInSet(parts[i]) /\ 3 <= q /\ q < m
           /\ InSet(e, parts, n, k - 1) <=> EndsInSet(parts[i]) /\ 4 <= q /\ q <= m
<1>0. a = e[i - 1] /\ m = Len(parts[i]) /\ k = a + q /\ 1 <= q /\ q <= m + 1
  BY DEF IsPlaceIn
<1>1. e[i] = a + m + 1
  BY <1>0 DEF IsLayout
<1>2. \A j \in 1 .. n : e[j - 1] \in Nat /\ e[j] \in Nat
  <2>1. \A j \in 1 .. n : j \in 0 .. n /\ j - 1 \in 0 .. n
    OBVIOUS
  <2> QED
    BY <2>1 DEF IsLayout
<1>3. \A j \in 1 .. n : e[j - 1] < k /\ k <= e[j] => j = i
  <2>1. e[i - 1] < k /\ k <= e[i]
    BY ONLY <1>0, <1>1, a \in Nat, m \in Nat, q \in Nat
  <2> QED
    BY <2>1, OnePart
<1>4. /\ e[i - 1] + 3 <= k /\ k < e[i] - 1 <=> 3 <= q /\ q < m
      /\ e[i - 1] + 3 <= k - 1 /\ k - 1 < e[i] - 1 <=> 4 <= q /\ q <= m
  <2>1. PICK b \in Nat : b = e[i] /\ b = a + m + 1
    BY <1>1
  <2>2. /\ a + 3 <= k /\ k < b - 1 <=> 3 <= q /\ q < m
        /\ a + 3 <= k - 1 /\ k - 1 < b - 1 <=> 4 <= q /\ q <= m
    <3>1. b = a + m + 1 /\ k = a + q
      BY ONLY <1>0, <2>1
    <3> QED
      BY ONLY <3>1, a \in Nat, m \in Nat, q \in Nat, b \in Nat
  <2> QED
    BY ONLY <1>0, <2>1, <2>2
<1>5. ASSUME NEW j \in 1 .. n
      PROVE  /\ e[j - 1] + 3 <= k /\ k < e[j] - 1 => j = i
             /\ e[j - 1] + 3 <= k - 1 /\ k - 1 < e[j] - 1 => j = i
  <2>1. PICK c \in Nat, d \in Nat : c = e[j - 1] /\ d = e[j]
    BY <1>2
  <2>2. /\ c + 3 <= k /\ k < d - 1 => c < k /\ k <= d
        /\ c + 3 <= k - 1 /\ k - 1 < d - 1 => c < k /\ k <= d
    BY ONLY c \in Nat, d \in Nat, k \in Nat \ {0}
  <2> QED
    BY ONLY <1>3, <2>1, <2>2, j \in 1 .. n
<1>6. InSet(e, parts, n, k) <=> EndsInSet(parts[i]) /\ e[i - 1] + 3 <= k /\ k < e[i] - 1
  BY <1>5 DEF InSet
<1>7. InSet(e, parts, n, k - 1) <=> EndsInSet(parts[i]) /\ e[i - 1] + 3 <= k - 1 /\ k - 1 < e[i] - 1
  BY <1>5 DEF InSet
<1> QED
  BY ONLY <1>4, <1>6, <1>7

\* A token of the text is one of a part, or a comma between two.
IsTokenOf(text, e, parts, n, k, i, a, m, q) ==
    /\ IsPlaceIn(e, parts, k, i, a, m, q)
    /\ e[i] = a + m + 1
    /\ q <= m => text[k] = parts[i][q]
    /\ q = m + 1 => i < n /\ text[k] = Comma /\ k = e[i]

\* Every place of the text is such a place.
LEMMA TokenOf ==
    ASSUME NEW text, NEW e, NEW parts, NEW n \in Nat, IsJoined(text, e, parts, n),
           \A i \in 1 .. n : Len(parts[i]) \in Nat,
           NEW k \in Nat \ {0}, k <= Len(text)
    PROVE  \E i \in 1 .. n, a \in Nat, m \in Nat, q \in Nat :
              IsTokenOf(text, e, parts, n, k, i, a, m, q)
<1>1. IsLayout(e, parts, n)
  BY DEF IsJoined
<1>2. n \in 0 .. n /\ e[n] \in Nat /\ k <= e[n] - 1
  BY <1>1 DEF IsJoined, IsLayout
<1>3. PICK i \in 1 .. n : e[i - 1] < k /\ k <= e[i]
  <2>1. \A x \in Nat : x > 0 /\ x <= e[n] => \E i \in 1 .. n : e[i - 1] < x /\ x <= e[i]
    BY <1>1 DEF IsLayout
  <2>2. k \in Nat /\ k > 0 /\ k <= e[n]
    BY ONLY <1>2, k \in Nat \ {0}
  <2> QED
    BY ONLY <2>1, <2>2
<1>4. i - 1 \in 0 .. n /\ i \in 0 .. n
  OBVIOUS
<1>5. PICK a \in Nat, m \in Nat : a = e[i - 1] /\ m = Len(parts[i])
  BY <1>1, <1>4 DEF IsLayout
<1>6. e[i] = a + m + 1
  BY <1>1, <1>5 DEF IsLayout
<1>7. PICK q \in Nat : q = k - a
  BY <1>3, <1>5
<1>8. k = a + q /\ 1 <= q /\ q <= m + 1
  <2>1. a < k /\ k <= a + m + 1
    BY ONLY <1>3, <1>5, <1>6
  <2> QED
    BY ONLY <1>7, <2>1, a \in Nat, m \in Nat, q \in Nat, k \in Nat \ {0}
<1>9. q <= m => text[k] = parts[i][q]
  BY <1>5, <1>8 DEF IsJoined
<1>10. q = m + 1 => i < n /\ text[k] = Comma /\ k = e[i]
  <2> HAVE q = m + 1
  <2>1. k = e[i]
    BY <1>6, <1>8
  <2>2. i # n
    BY <1>2, <2>1
  <2>3. i < n
    BY <2>2
  <2> QED
    BY <2>1, <2>3 DEF IsJoined
<1>11. IsTokenOf(text, e, parts, n, k, i, a, m, q)
  BY ONLY <1>5, <1>6, <1>8, <1>9, <1>10 DEF IsTokenOf, IsPlaceIn
<1> QED
  BY <1>11

\* Texts are in parentheses only inside the set of a part.
LEMMA DepthsAre ==
    ASSUME NEW text, NEW e, NEW parts, NEW n \in Nat, IsJoined(text, e, parts, n),
           \A i \in 1 .. n : Len(parts[i]) \in Nat /\ (Plain(parts[i]) \/ EndsInSet(parts[i])),
           NEW l \in Nat, l = Len(text)
    PROVE  \A k \in 0 .. l : Depth(text, k) = IF InSet(e, parts, n, k) THEN 1 ELSE 0
<1> DEFINE T == {k \in 0 .. l : Depth(text, k) = IF InSet(e, parts, n, k) THEN 1 ELSE 0}
<1>0. IsLayout(e, parts, n)
  BY DEF IsJoined
<1>1. 0 \in T
  <2>1. Depth(text, 0) = 0
    <3>1. {j \in 1 .. 0 : text[j] = "("} = {} /\ {j \in 1 .. 0 : text[j] = ")"} = {}
      OBVIOUS
    <3> QED
      BY <3>1, FS_EmptySet DEF Depth
  <2>2. ~ InSet(e, parts, n, 0)
    <3>1. \A i \in 1 .. n : e[i - 1] \in Nat
      <4>1. \A i \in 1 .. n : i - 1 \in 0 .. n
        OBVIOUS
      <4> QED
        BY <1>0, <4>1 DEF IsLayout
    <3> QED
      BY <3>1 DEF InSet
  <2> QED
    BY <2>1, <2>2
<1>2. ASSUME NEW k \in 0 .. l, k # 0, k - 1 \in T
      PROVE  k \in T
  <2>0. k \in Nat \ {0} /\ k <= Len(text)
    BY <1>2
  <2>t. PICK i \in 1 .. n, a \in Nat, m \in Nat, q \in Nat :
              IsTokenOf(text, e, parts, n, k, i, a, m, q)
    BY <2>0, TokenOf
  <2>1. /\ a = e[i - 1] /\ m = Len(parts[i]) /\ k = a + q /\ 1 <= q /\ q <= m + 1
        /\ e[i] = a + m + 1
        /\ q <= m => text[k] = parts[i][q]
        /\ q = m + 1 => i < n /\ text[k] = Comma /\ k = e[i]
    BY ONLY <2>t DEF IsTokenOf, IsPlaceIn
  <2>p. IsPlaceIn(e, parts, k, i, a, m, q)
    BY ONLY <2>t DEF IsTokenOf
  <2>2. /\ InSet(e, parts, n, k) <=> EndsInSet(parts[i]) /\ 3 <= q /\ q < m
        /\ InSet(e, parts, n, k - 1) <=> EndsInSet(parts[i]) /\ 4 <= q /\ q <= m
    BY <1>0, <2>0, <2>p, InSetAt
  <2>3. /\ Depth(text, k - 1) = IF InSet(e, parts, n, k - 1) THEN 1 ELSE 0
        /\ text[k] = "(" => Depth(text, k) = Depth(text, k - 1) + 1
        /\ text[k] = ")" => Depth(text, k) = Depth(text, k - 1) - 1
        /\ text[k] \notin {"(", ")"} => Depth(text, k) = Depth(text, k - 1)
    BY <1>2, <2>0, DepthStep
  <2>4. Comma \notin {"(", ")"}
    BY MarksDiffer
  <2>5. q \in 1 .. m \/ q = m + 1
    <3>1. 1 <= q /\ q <= m + 1
      BY ONLY <2>1
    <3> QED
      BY ONLY <3>1, q \in Nat, m \in Nat
  <2>6. EndsInSet(parts[i]) => /\ m >= 4
                               /\ q \in 1 .. m => /\ text[k] = "(" <=> q = 3
                                                  /\ text[k] = ")" <=> q = m
    <3> HAVE EndsInSet(parts[i])
    <3>1. /\ Len(parts[i]) >= 4
          /\ \A j \in 1 .. Len(parts[i]) : /\ parts[i][j] = "(" <=> j = 3
                                           /\ parts[i][j] = ")" <=> j = Len(parts[i])
      BY DEF EndsInSet
    <3>2. q \in 1 .. m => text[k] = parts[i][q]
      BY ONLY <2>1, m \in Nat
    <3> QED
      BY ONLY <2>1, <3>1, <3>2
  <2>7. ~ EndsInSet(parts[i]) => text[k] \notin {"(", ")"}
    <3> HAVE ~ EndsInSet(parts[i])
    <3>1. Plain(parts[i])
      OBVIOUS
    <3>2. \A j \in 1 .. Len(parts[i]) : parts[i][j] \notin {"(", ")"}
      BY ONLY <3>1 DEF Plain
    <3>3. CASE q \in 1 .. m
      BY ONLY <2>1, <3>2, <3>3, m \in Nat
    <3>4. CASE q = m + 1
      BY ONLY <2>1, <2>4, <3>4
    <3> QED
      BY ONLY <2>5, <3>3, <3>4
  <2>8. Depth(text, k) = IF InSet(e, parts, n, k) THEN 1 ELSE 0
    <3>1. CASE ~ EndsInSet(parts[i])
      BY ONLY <2>2, <2>3, <2>7, <3>1
    <3>2. CASE EndsInSet(parts[i])
      <4>1. CASE q = m + 1
        BY ONLY <2>1, <2>2, <2>3, <2>4, <4>1, q \in Nat, m \in Nat
      <4>2. CASE q \in 1 .. m
        <5>1. m >= 4 /\ (text[k] = "(" <=> q = 3) /\ (text[k] = ")" <=> q = m)
          BY ONLY <2>6, <3>2, <4>2
        <5> QED
          BY ONLY <2>2, <2>3, <3>2, <5>1, q \in Nat, m \in Nat
      <4> QED
        BY ONLY <2>5, <4>1, <4>2
    <3> QED
      BY <3>1, <3>2
  <2> QED
    BY <2>8
<1> HIDE DEF T
<1>3. \A k \in 0 .. l : k \in T
  BY <1>1, <1>2, UpTo
<1> QED
  BY <1>3 DEF T

\* The commas at the top of a text are those between its parts; all of them are
\* if its parts are plain.
LEMMA CommasAre ==
    ASSUME NEW S, Comma \in S, NEW text \in Seq(S), NEW e, NEW parts, NEW n \in Nat \ {0},
           IsJoined(text, e, parts, n),
           \A i \in 1 .. n : Len(parts[i]) \in Nat /\ (Plain(parts[i]) \/ EndsInSet(parts[i]))
    PROVE  /\ TopLevelCommas(text) = {e[i] : i \in 1 .. n - 1}
           /\ (\A i \in 1 .. n : Plain(parts[i])) => EveryComma(text) = {e[i] : i \in 1 .. n - 1}
<1>0. IsLayout(e, parts, n)
  BY DEF IsJoined
<1> PICK l \in Nat : l = Len(text)
  OBVIOUS
<1>1. EveryComma(text) = {k \in 1 .. l : text[k] = Comma}
  BY PlacesOf DEF EveryComma
<1>2. ASSUME NEW i \in 1 .. n - 1
      PROVE  e[i] \in 1 .. l /\ text[e[i]] = Comma /\ ~ InSet(e, parts, n, e[i])
  <2>1. i \in 1 .. n /\ i < n /\ i \in 0 .. n /\ n \in 0 .. n /\ 0 \in 0 .. n /\ 0 < i /\ i - 1 \in 0 .. n
    OBVIOUS
  <2>2. e[0] = 0 /\ e[i] \in Nat /\ e[n] \in Nat /\ e[0] < e[i] /\ e[i] < e[n] /\ l = e[n] - 1
    BY <1>0, <2>1 DEF IsJoined, IsLayout
  <2>3. e[i] \in 1 .. l
    BY ONLY <2>2
  <2>4. PICK a \in Nat, m \in Nat, q \in Nat, k \in Nat \ {0} :
            a = e[i - 1] /\ m = Len(parts[i]) /\ k = a + q /\ q = m + 1 /\ k = e[i]
    <3>1. PICK a \in Nat, m \in Nat : a = e[i - 1] /\ m = Len(parts[i])
      BY <1>0, <2>1 DEF IsLayout
    <3>2. e[i] = a + m + 1
      BY <1>0, <2>1, <3>1 DEF IsLayout
    <3>3. PICK q \in Nat : q = m + 1
      OBVIOUS
    <3>4. e[i] = a + q /\ e[i] \in Nat \ {0}
      BY ONLY <2>2, <3>2, <3>3, a \in Nat, m \in Nat
    <3> QED
      BY ONLY <3>1, <3>3, <3>4, a \in Nat, m \in Nat, q \in Nat
  <2>5. 1 <= q /\ q <= m + 1 /\ ~ (q < m)
    BY ONLY <2>4
  <2>p. IsPlaceIn(e, parts, k, i, a, m, q)
    BY ONLY <2>4, <2>5 DEF IsPlaceIn
  <2>6. InSet(e, parts, n, k) <=> EndsInSet(parts[i]) /\ 3 <= q /\ q < m
    BY <1>0, <2>1, <2>p, InSetAt
  <2> QED
    BY <2>1, <2>3, <2>4, <2>5, <2>6 DEF IsJoined
<1>3. ASSUME NEW k \in Nat \ {0}, k <= l, text[k] = Comma
      PROVE  \/ \E i \in 1 .. n - 1 : k = e[i]
             \/ InSet(e, parts, n, k) /\ \E i \in 1 .. n : ~ Plain(parts[i])
  <2>0. k \in Nat \ {0} /\ k <= Len(text)
    BY <1>3
  <2>t. PICK i \in 1 .. n, a \in Nat, m \in Nat, q \in Nat :
              IsTokenOf(text, e, parts, n, k, i, a, m, q)
    BY <2>0, TokenOf
  <2>1. /\ a = e[i - 1] /\ m = Len(parts[i]) /\ k = a + q /\ 1 <= q /\ q <= m + 1
        /\ e[i] = a + m + 1
        /\ q <= m => text[k] = parts[i][q]
        /\ q = m + 1 => i < n /\ text[k] = Comma /\ k = e[i]
    BY ONLY <2>t DEF IsTokenOf, IsPlaceIn
  <2>p. IsPlaceIn(e, parts, k, i, a, m, q)
    BY ONLY <2>t DEF IsTokenOf
  <2>2. CASE q = m + 1
    <3>1. i \in 1 .. n - 1 /\ k = e[i]
      BY <2>1, <2>2
    <3> QED
      BY <3>1
  <2>3. CASE q \in 1 .. m
    <3>1. parts[i][q] = Comma
      <4>1. q <= m
        BY ONLY <2>3, m \in Nat
      <4> QED
        BY ONLY <1>3, <2>1, <4>1
    <3>2. ~ Plain(parts[i])
      BY <2>1, <2>3, <3>1 DEF Plain
    <3>3. EndsInSet(parts[i])
      BY <3>2
    <3>4. q > 3 /\ q # m
      BY <2>1, <2>3, <3>1, <3>3, MarksDiffer DEF EndsInSet
    <3>5. 3 <= q /\ q < m
      BY ONLY <2>3, <3>4
    <3>6. InSet(e, parts, n, k) <=> EndsInSet(parts[i]) /\ 3 <= q /\ q < m
      BY <1>0, <2>p, InSetAt
    <3> QED
      BY <3>2, <3>3, <3>5, <3>6
  <2>4. q = m + 1 \/ q \in 1 .. m
    <3>1. 1 <= q /\ q <= m + 1
      BY ONLY <2>1
    <3> QED
      BY ONLY <3>1, q \in Nat, m \in Nat
  <2> QED
    BY <2>2, <2>3, <2>4, Zenon
<1>4. \A k \in 1 .. l : Depth(text, k) = IF InSet(e, parts, n, k) THEN 1 ELSE 0
  BY DepthsAre
<1>5. TopLevelCommas(text) = {e[i] : i \in 1 .. n - 1}
  <2>1. \A k : k \in TopLevelCommas(text) <=> k \in 1 .. l /\ text[k] = Comma /\ ~ InSet(e, parts, n, k)
    BY <1>1, <1>4 DEF TopLevelCommas
  <2> QED
    BY ONLY <1>2, <1>3, <2>1
<1>6. ASSUME \A i \in 1 .. n : Plain(parts[i])
      PROVE  EveryComma(text) = {e[i] : i \in 1 .. n - 1}
  BY ONLY <1>1, <1>2, <1>3, <1>6
<1> QED
  BY <1>5, <1>6

\* No parts.
LEMMA NothingSplits ==
    ASSUME NEW text, text = <<>>
    PROVE  /\ SplitAt(text, TopLevelCommas(text)) = {}
           /\ SplitAt(text, EveryComma(text)) = {}
<1>1. Len(text) = 0
  OBVIOUS
<1>2. EveryComma(text) = {}
  <2>1. Len(<<Comma>>) = 1
    OBVIOUS
  <2> QED
    BY <1>1, <2>1 DEF EveryComma, Places
<1>3. TopLevelCommas(text) = {}
  BY <1>2 DEF TopLevelCommas
<1>4. SplitAt(text, {}) = {}
  <2> DEFINE ends  == {} \cup {0, Len(text) + 1}
             at(n) == CHOOSE x \in ends : Cardinality({y \in ends : y < x}) = n
  <2>1. SplitAt(text, {})
          = {SubSeq(text, at(i - 1) + 1, at(i) - 1) : i \in 1 .. Cardinality(ends) - 1} \ {<<>>}
    BY DEF SplitAt
  <2>2. ends = {0, 1}
    BY <1>1
  <2> HIDE DEF ends
  <2>3. Cardinality({0}) = 1 /\ Cardinality({0, 1}) = 2 /\ Cardinality({}) = 0
    <3>1. IsFiniteSet({0}) /\ Cardinality({0}) = 1
      BY FS_Singleton
    <3>2. Cardinality({0} \cup {1}) = 2
      <4>1. 1 \notin {0}
        OBVIOUS
      <4>2. Cardinality({0} \cup {1}) = Cardinality({0}) + 1
        BY ONLY <3>1, <4>1, FS_AddElement
      <4> QED
        BY ONLY <3>1, <4>2
    <3>3. {0, 1} = {0} \cup {1}
      OBVIOUS
    <3>4. Cardinality({}) = 0
      BY ONLY FS_EmptySet
    <3> QED
      BY ONLY <3>1, <3>2, <3>3, <3>4
  <2>4. {y \in ends : y < 0} = {} /\ {y \in ends : y < 1} = {0}
    BY <2>2
  <2>a. Cardinality({y \in ends : y < 0}) = 0
    BY ONLY <2>3, <2>4
  <2>b. Cardinality({y \in ends : y < 1}) = 1
    BY ONLY <2>3, <2>4
  <2>5. at(0) = 0
    <3>1. \A x \in ends : (Cardinality({y \in ends : y < x}) = 0) <=> (x = 0)
      <4> TAKE x \in ends
      <4>1. CASE x = 0
        BY ONLY <2>a, <4>1
      <4>2. CASE x = 1
        BY ONLY <2>b, <4>2
      <4> QED
        BY ONLY <2>2, <4>1, <4>2
    <3>2. 0 \in ends
      BY ONLY <2>2
    <3> QED
      BY ONLY <3>1, <3>2
  <2>6. at(1) = 1
    <3>1. \A x \in ends : (Cardinality({y \in ends : y < x}) = 1) <=> (x = 1)
      <4> TAKE x \in ends
      <4>1. CASE x = 0
        BY ONLY <2>a, <4>1
      <4>2. CASE x = 1
        BY ONLY <2>b, <4>2
      <4> QED
        BY ONLY <2>2, <4>1, <4>2
    <3>2. 1 \in ends
      BY ONLY <2>2
    <3> QED
      BY ONLY <3>1, <3>2
  <2> HIDE DEF at
  <2>7. \A i \in 1 .. Cardinality(ends) - 1 : SubSeq(text, at(i - 1) + 1, at(i) - 1) = <<>>
    <3>1. \A i \in 1 .. Cardinality(ends) - 1 : i = 1
      BY <2>2, <2>3
    <3>2. SubSeq(text, 0 + 1, 1 - 1) = <<>>
      OBVIOUS
    <3> QED
      BY <2>5, <2>6, <3>1, <3>2
  <2> QED
    BY <2>1, <2>7
<1> QED
  BY <1>2, <1>3, <1>4

\* The parsers split a text into the parts it was made of.
LEMMA PartsAreFound ==
    ASSUME NEW n \in Nat, NEW parts, parts = [i \in 1 .. n |-> parts[i]],
           \A i \in 1 .. n : IsPart(parts[i])
    PROVE  /\ SplitAt(Joined(parts), TopLevelCommas(Joined(parts))) = {parts[i] : i \in 1 .. n}
           /\ (\A i \in 1 .. n : Plain(parts[i])) =>
                SplitAt(Joined(parts), EveryComma(Joined(parts))) = {parts[i] : i \in 1 .. n}
<1> PICK text : text = Joined(parts)
  OBVIOUS
<1> DEFINE S == Marks \cup UNION {{parts[i][k] : k \in DOMAIN parts[i]} : i \in 1 .. n}
<1>1. \A i \in 1 .. n : parts[i] \in Seq(S) /\ parts[i] # <<>> /\ Len(parts[i]) \in Nat
  <2> SUFFICES ASSUME NEW i \in 1 .. n
               PROVE  parts[i] \in Seq(S) /\ parts[i] # <<>> /\ Len(parts[i]) \in Nat
    OBVIOUS
  <2> PICK p : p = parts[i]
    OBVIOUS
  <2>1. p \in Seq({p[k] : k \in DOMAIN p}) /\ p # <<>>
    BY DEF IsPart, IsSequence
  <2>2. PICK m \in Nat : m = Len(p) /\ p = [k \in 1 .. m |-> p[k]] /\ DOMAIN p = 1 .. m
    BY ONLY <2>1
  <2>3. \A k \in 1 .. m : p[k] \in S
    BY <2>2
  <2> HIDE DEF S
  <2>4. p \in [1 .. m -> S]
    BY <2>2, <2>3
  <2>5. p \in Seq(S)
    BY <2>4, ListOf
  <2> QED
    BY <2>1, <2>2, <2>5
<1>2. Comma \in S
  BY DEF Marks
<1> HIDE DEF S
<1>3. parts \in Seq(Seq(S)) /\ Len(parts) = n
  <2>1. parts \in [1 .. n -> Seq(S)]
    BY <1>1
  <2> QED
    BY <2>1, ListOf
<1>4. CASE n = 0
  <2>1. Ends(parts)[0] = 0
    <3>1. \A i \in 1 .. n : Len(parts[i]) \in Nat
      BY <1>1
    <3>2. IsLayout(Ends(parts), parts, n)
      BY <1>3, <3>1, EndsAreApart
    <3> QED
      BY <3>2 DEF IsLayout
  <2>2. text = <<>>
    <3> DEFINE e == Ends(parts)
               part(k) == CHOOSE i \in DOMAIN parts : e[i - 1] < k /\ k <= e[i]
               at(k)   == IF k = e[part(k)] THEN Comma ELSE parts[part(k)][k - e[part(k) - 1]]
    <3>1. Joined(parts) = [k \in 1 .. e[Len(parts)] - 1 |-> at(k)]
      BY DEF Joined
    <3> HIDE DEF at, e
    <3>2. 1 .. e[Len(parts)] - 1 = {} /\ 1 .. 0 = {}
      BY <1>3, <1>4, <2>1 DEF e
    <3>3. text \in [1 .. 0 -> {}]
      BY ONLY <3>1, <3>2, text = Joined(parts)
    <3>4. text \in Seq({}) /\ Len(text) = 0
      BY <3>3, ListOf
    <3> QED
      BY ONLY <3>4, EmptySeq
  <2>3. {parts[i] : i \in 1 .. n} = {}
    BY <1>4
  <2> QED
    BY <2>2, <2>3, NothingSplits
<1>5. CASE n \in Nat \ {0}
  <2> PICK e : e = Ends(parts)
    OBVIOUS
  <2>1. text \in Seq(S) /\ IsJoined(text, e, parts, n)
    BY <1>2, <1>3, <1>5, JoinedIs
  <2>2. \A i \in 1 .. n : Len(parts[i]) \in Nat /\ (Plain(parts[i]) \/ EndsInSet(parts[i]))
    BY <1>1 DEF IsPart
  <2>3. /\ TopLevelCommas(text) = {e[i] : i \in 1 .. n - 1}
        /\ (\A i \in 1 .. n : Plain(parts[i])) => EveryComma(text) = {e[i] : i \in 1 .. n - 1}
    BY ONLY <1>2, <1>5, <2>1, <2>2, CommasAre
  <2>4. SplitAt(text, {e[i] : i \in 1 .. n - 1}) = {parts[i] : i \in 1 .. n}
    <3>1. /\ n \in Nat \ {0} /\ parts \in Seq(Seq(S)) /\ Len(parts) = n
          /\ text \in Seq(S) /\ IsJoined(text, e, parts, n)
      BY ONLY <1>3, <1>5, <2>1
    <3>2. \A i \in 1 .. n : parts[i] # <<>>
      BY ONLY <1>1
    <3> QED
      <4>1. PICK cuts : cuts = {e[i] : i \in 1 .. n - 1}
        OBVIOUS
      <4>2. SplitsInto(text, cuts, parts, n)
        BY ONLY <3>1, <3>2, <4>1, SplitAtEnds
      <4> QED
        BY ONLY <4>1, <4>2 DEF SplitsInto
  <2> QED
    BY ONLY <2>3, <2>4, text = Joined(parts)
<1> QED
  BY <1>4, <1>5

\* A label selector is read as what it was written for.
LEMMA LabelsAreRead ==
    ASSUME NEW wishes, IsSequence(wishes), \A i \in DOMAIN wishes : IsLabelWish(wishes[i])
    PROVE  ParseLabelSelector(Joined([i \in DOMAIN wishes |-> LabelText(wishes[i])]))
             = {LabelMeaning(wishes[i]) : i \in DOMAIN wishes}
<1>1. PICK n \in Nat : DOMAIN wishes = 1 .. n
  <2>1. wishes \in Seq({wishes[i] : i \in DOMAIN wishes})
    BY DEF IsSequence
  <2> QED
    BY <2>1
<1>2. PICK parts : parts = [i \in 1 .. n |-> LabelText(wishes[i])]
  OBVIOUS
<1>3. \A i \in 1 .. n : /\ parts[i] = LabelText(wishes[i])
                        /\ IsPart(parts[i]) /\ ParseRequirement(parts[i]) = LabelMeaning(wishes[i])
  BY <1>1, <1>2, LabelIsRead
<1>4. parts = [i \in 1 .. n |-> parts[i]]
  BY <1>2
<1>5. SplitAt(Joined(parts), TopLevelCommas(Joined(parts))) = {parts[i] : i \in 1 .. n}
  BY <1>3, <1>4, PartsAreFound
<1>6. ParseLabelSelector(Joined(parts)) = {ParseRequirement(part) : part \in {parts[i] : i \in 1 .. n}}
  BY <1>5 DEF ParseLabelSelector
<1>7. {ParseRequirement(part) : part \in {parts[i] : i \in 1 .. n}} = {LabelMeaning(wishes[i]) : i \in 1 .. n}
  BY ONLY <1>3
<1> QED
  BY ONLY <1>1, <1>2, <1>6, <1>7

\* A field selector, too.
LEMMA FieldsAreRead ==
    ASSUME NEW wishes, IsSequence(wishes), \A i \in DOMAIN wishes : IsFieldWish(wishes[i])
    PROVE  ParseFieldSelector(Joined([i \in DOMAIN wishes |-> FieldText(wishes[i])]))
             = {FieldMeaning(wishes[i]) : i \in DOMAIN wishes}
<1>1. PICK n \in Nat : DOMAIN wishes = 1 .. n
  <2>1. wishes \in Seq({wishes[i] : i \in DOMAIN wishes})
    BY DEF IsSequence
  <2> QED
    BY <2>1
<1>2. PICK parts : parts = [i \in 1 .. n |-> FieldText(wishes[i])]
  OBVIOUS
<1>3. \A i \in 1 .. n : /\ parts[i] = FieldText(wishes[i])
                        /\ IsPart(parts[i]) /\ Plain(parts[i])
                        /\ IsReadAs(parts[i], wishes[i].path, wishes[i].op, wishes[i].value)
  BY <1>1, <1>2, FieldIsRead
<1>4. parts = [i \in 1 .. n |-> parts[i]]
  BY <1>2
<1>5. SplitAt(Joined(parts), EveryComma(Joined(parts))) = {parts[i] : i \in 1 .. n}
  BY <1>3, <1>4, PartsAreFound
<1> DEFINE P      == {parts[i] : i \in 1 .. n}
           unlike == {part \in P : First(part, <<"!", "=">>) # 0}
           like   == {part \in P \ unlike : First(part, <<"=">>) # 0}
           Un(part) == [path |-> Before(part, <<"!", "=">>), value |-> After(part, <<"!", "=">>),
                        negate |-> TRUE]
           Li(part) == [path |-> Before(part, <<"=">>), value |-> TrimEquals(After(part, <<"=">>)),
                        negate |-> FALSE]
<1>6. ParseFieldSelector(Joined(parts)) = {Un(part) : part \in unlike} \cup {Li(part) : part \in like}
  BY <1>5 DEF ParseFieldSelector
<1>7. ASSUME NEW i \in 1 .. n
      PROVE  /\ wishes[i].op = "!=" => parts[i] \in unlike /\ Un(parts[i]) = FieldMeaning(wishes[i])
             /\ wishes[i].op # "!=" => /\ parts[i] \in like /\ Li(parts[i]) = FieldMeaning(wishes[i])
                                       /\ parts[i] \notin unlike
  <2>1. IsReadAs(parts[i], wishes[i].path, wishes[i].op, wishes[i].value)
    BY <1>3
  <2>2. CASE wishes[i].op = "!="
    BY <2>1, <2>2 DEF IsReadAs, FieldMeaning
  <2>3. CASE wishes[i].op # "!="
    BY <2>1, <2>3 DEF IsReadAs, FieldMeaning
  <2> QED
    BY <2>2, <2>3
<1>8. \A part \in unlike \cup like : \E i \in 1 .. n : part = parts[i]
  OBVIOUS
<1>9. \A part \in like : part \notin unlike
  OBVIOUS
<1> HIDE DEF unlike, like, Un, Li
<1>10. {Un(part) : part \in unlike} \cup {Li(part) : part \in like} = {FieldMeaning(wishes[i]) : i \in 1 .. n}
  BY ONLY <1>7, <1>8, <1>9
<1> QED
  BY ONLY <1>1, <1>2, <1>6, <1>10

-----------------------------------------------------------------------------
(* Selectors.                                                              *)

\* What a client asks for is what its texts are read as.
LEMMA WishIsRead ==
    ASSUME NEW wish, IsWish(wish)
    PROVE  ParseFilter(Texts(wish)) = Meant(wish)
<1>1. /\ IsSequence(wish.labels) /\ \A i \in DOMAIN wish.labels : IsLabelWish(wish.labels[i])
      /\ IsSequence(wish.fields) /\ \A i \in DOMAIN wish.fields : IsFieldWish(wish.fields[i])
  BY DEF IsWish
<1>2. ParseLabelSelector(Texts(wish).labels)
        = {LabelMeaning(wish.labels[i]) : i \in DOMAIN wish.labels}
  <2>1. Texts(wish).labels = Joined([i \in DOMAIN wish.labels |-> LabelText(wish.labels[i])])
    BY DEF Texts
  <2>2. PICK wishes : wishes = wish.labels
    OBVIOUS
  <2>3. ParseLabelSelector(Joined([i \in DOMAIN wishes |-> LabelText(wishes[i])]))
          = {LabelMeaning(wishes[i]) : i \in DOMAIN wishes}
    BY <1>1, <2>2, LabelsAreRead
  <2> QED
    BY ONLY <2>1, <2>2, <2>3
<1>3. ParseFieldSelector(Texts(wish).fields)
        = {FieldMeaning(wish.fields[i]) : i \in DOMAIN wish.fields}
  <2>1. Texts(wish).fields = Joined([i \in DOMAIN wish.fields |-> FieldText(wish.fields[i])])
    BY DEF Texts
  <2>2. PICK wishes : wishes = wish.fields
    OBVIOUS
  <2>3. ParseFieldSelector(Joined([i \in DOMAIN wishes |-> FieldText(wishes[i])]))
          = {FieldMeaning(wishes[i]) : i \in DOMAIN wishes}
    BY <1>1, <2>2, FieldsAreRead
  <2> QED
    BY ONLY <2>1, <2>2, <2>3
<1> QED
  BY <1>2, <1>3 DEF ParseFilter, Meant

\* For requirements of any number, with any words for keys and any sets of values:
\* the server understands what the client wrote, at every request of the client's
\* (ParseLabelSelector and ParseFieldSelector, selector.go:34-120 and 187-207).
THEOREM FilterIsAlwaysWanted == Spec => []FilterIsWanted
<1>1. Init => FilterIsWanted
  <2> SUFFICES ASSUME Init PROVE FilterIsWanted
    OBVIOUS
  <2>1. IsWish(query)
    BY SelectedAssumption DEF Init
  <2>2. filter = ParseFilter(Texts(query))
    BY DEF Init
  <2> QED
    BY <2>1, <2>2, WishIsRead DEF FilterIsWanted
<1>2. FilterIsWanted /\ [Next]_vars => FilterIsWanted'
  <2>1. [Next]_vars => UNCHANGED <<query, filter>>
    BY DEF Next, Client, vars, serverVars, clientVars, Writing, Add, Touch, Evict, DeleteGeneric, Flip, OtherKind,
           ListBegin, ListWalk, Watch, Gone, Deliver, Drop
  <2> QED
    BY <2>1 DEF FilterIsWanted
<1> QED
  BY <1>1, <1>2, PTL DEF Spec
=============================================================================
