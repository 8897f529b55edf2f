------------------------------ MODULE Selectors ------------------------------
(***************************************************************************)
(* Label and field selectors (internal/kapi/selector.go) and the two       *)
(* places that evaluate them: LIST, on the stored object (listFilter), and *)
(* WATCH, on the rendered one (noticeMatches).                             *)
(*                                                                         *)
(* A selector text is a sequence of tokens: the words of the grammar are   *)
(* "(", ")", ",", "!", "=", "in" and "notin", everything else is a key or  *)
(* a value.  "==" and "!=" are two tokens, so that the order in which      *)
(* parseRequirement looks for them matters as it does in the code.         *)
(***************************************************************************)
EXTENDS Integers, Sequences, FiniteSets

\* What separates requirements, and values.
Comma == ","

\* Positions at which pattern occurs in text, and the first of them, or 0.
Places(text, pattern) ==
    {i \in 1 .. Len(text) - Len(pattern) + 1 :
        SubSeq(text, i, i + Len(pattern) - 1) = pattern}

First(text, pattern) ==
    IF Places(text, pattern) = {} THEN 0
    ELSE CHOOSE i \in Places(text, pattern) : \A j \in Places(text, pattern) : i <= j

Before(text, pattern) == SubSeq(text, 1, First(text, pattern) - 1)
After(text, pattern)  == SubSeq(text, First(text, pattern) + Len(pattern), Len(text))

\* The parts of text between a set of positions; the parsers skip empty ones.
SplitAt(text, cuts) ==
    LET ends  == cuts \cup {0, Len(text) + 1}
        at(n) == CHOOSE x \in ends : Cardinality({y \in ends : y < x}) = n
    IN {SubSeq(text, at(i - 1) + 1, at(i) - 1) : i \in 1 .. Cardinality(ends) - 1} \ {<<>>}

Depth(text, i) ==
    Cardinality({j \in 1 .. i : text[j] = "("}) - Cardinality({j \in 1 .. i : text[j] = ")"})

\* Every comma: those of a value set, too.
EveryComma(text) == Places(text, <<Comma>>)

\* splitTopLevel: the commas that are not inside parentheses.
TopLevelCommas(text) == {i \in EveryComma(text) : Depth(text, i) = 0}

\* parseSet: the values between the parentheses.
ParseSet(text) == {text[i] : i \in {j \in DOMAIN text : text[j] \notin {"(", ")", Comma}}}

\* The binary operators, in the order parseRequirement tries them.
Operators == << <<"notin">>, <<"in">>, <<"!", "=">>, <<"=", "=">>, <<"=">> >>

Meaning == <<"notin", "in", "!=", "=", "=">>

\* parseRequirement
ParseRequirement(part) ==
    LET found == {n \in DOMAIN Operators : First(part, Operators[n]) # 0}
        n     == CHOOSE k \in found : \A l \in found : k <= l
    IN IF found # {}
       THEN [key    |-> Before(part, Operators[n]),
             op     |-> Meaning[n],
             values |-> ParseSet(After(part, Operators[n]))]
       ELSE IF Head(part) = "!"
       THEN [key |-> Tail(part), op |-> "!exists", values |-> {}]
       ELSE [key |-> part, op |-> "exists", values |-> {}]

\* ParseLabelSelector
ParseLabelSelector(text) ==
    {ParseRequirement(part) : part \in SplitAt(text, TopLevelCommas(text))}

\* strings.TrimPrefix(text, "=")
TrimEquals(text) == IF text # <<>> /\ Head(text) = "=" THEN Tail(text) ELSE text

\* ParseFieldSelector: every comma splits, a part without "=" is dropped.
ParseFieldSelector(text) ==
    LET parts  == SplitAt(text, EveryComma(text))
        unlike == {part \in parts : First(part, <<"!", "=">>) # 0}
        like   == {part \in parts \ unlike : First(part, <<"=">>) # 0}
    IN {[path   |-> Before(part, <<"!", "=">>),
         value  |-> After(part, <<"!", "=">>),
         negate |-> TRUE] : part \in unlike}
       \cup
       {[path   |-> Before(part, <<"=">>),
         value  |-> TrimEquals(After(part, <<"=">>)),
         negate |-> FALSE] : part \in like}

-----------------------------------------------------------------------------
(* Evaluation.                                                             *)

\* One requirement, on labels: a function from keys to values.
Satisfies(r, labels) ==
    LET ok == r.key \in DOMAIN labels
    IN CASE r.op = "exists"            -> ok
         [] r.op = "!exists"           -> ~ok
         [] r.op \in {"=", "in"}       -> ok /\ labels[r.key] \in r.values
         [] r.op \in {"!=", "notin"}   -> ~(ok /\ labels[r.key] \in r.values)

\* LabelSelectorExpr.Matches
LabelsMatch(reqs, labels) == \A r \in reqs : Satisfies(r, labels)

\* FieldSelectorExpr.Matches: a path the lookup does not know matches.
FieldsMatch(reqs, known, fields) ==
    \A r \in reqs : r.path \in known => ((fields[r.path] = r.value) # r.negate)

Name == <<"metadata.name">>
NS   == <<"metadata.namespace">>

\* Paths the FieldValue of each kind knows; services stand for the seven kinds
\* that know their name and namespace only.
PlainFields     == {Name, NS}
PodFields       == {Name, NS, <<"spec.nodeName">>, <<"status.phase">>}
NodeFields      == {Name, <<"spec.unschedulable">>}
NamespaceFields == {Name, <<"status.phase">>}
EventFields     == {Name, NS, <<"type">>, <<"reason">>, <<"involvedObject.kind">>,
                    <<"involvedObject.name">>, <<"involvedObject.uid">>,
                    <<"involvedObject.namespace">>}

FieldValue == [pods |-> PodFields, nodes |-> NodeFields, namespaces |-> NamespaceFields,
               events |-> EventFields, services |-> PlainFields]

\* Paths renderedField knows: the metadata of every kind, and some of its own.
RenderedField ==
    [pods       |-> {Name, NS, <<"spec.nodeName">>, <<"status.phase">>},
     nodes      |-> {Name, NS, <<"spec.unschedulable">>},
     namespaces |-> {Name, NS},
     events     |-> {Name, NS, <<"type">>, <<"reason">>, <<"involvedObject.kind">>,
                    <<"involvedObject.name">>, <<"involvedObject.uid">>},
     services   |-> {Name, NS}]

\* parseFilter
ParseFilter(query) ==
    [labels |-> ParseLabelSelector(query.labels), fields |-> ParseFieldSelector(query.fields)]

\* listFilter.matches
ListMatches(kind, f, o) ==
    /\ LabelsMatch(f.labels, o.labels)
    /\ FieldsMatch(f.fields, FieldValue[kind], o.fields)

\* Fault: a watch does not look at labels.
NoticeMatchesFieldsOnly(kind, ns, f, o) ==
    /\ ns # "" => o.ns = ns
    /\ FieldsMatch(f.fields, RenderedField[kind], o.fields)

\* noticeMatches
NoticeMatches(kind, ns, f, o) ==
    /\ ns # "" => o.ns = ns
    /\ LabelsMatch(f.labels, o.labels)
    /\ FieldsMatch(f.fields, RenderedField[kind], o.fields)

-----------------------------------------------------------------------------
(* What clients ask for, and the texts they write it in.                   *)

\* Keys and values are words that mean nothing else in a text.
IsWord(t) == t \notin {"(", ")", Comma, "!", "=", "in", "notin"}

IsSequence(s) == s \in Seq({s[i] : i \in DOMAIN s})

IsLabelWish(r) ==
    /\ IsWord(r.key) /\ IsSequence(r.values) /\ \A i \in DOMAIN r.values : IsWord(r.values[i])
    /\ \/ r.op \in {"exists", "!exists"} /\ r.values = <<>>
       \/ r.op \in {"=", "==", "!="} /\ Len(r.values) = 1
       \/ r.op \in {"in", "notin"} /\ r.values # <<>>

IsFieldWish(r) == IsWord(r.path) /\ IsWord(r.value) /\ r.op \in {"=", "==", "!="}

IsWish(wish) ==
    /\ IsSequence(wish.labels) /\ IsSequence(wish.fields)
    /\ \A i \in DOMAIN wish.labels : IsLabelWish(wish.labels[i])
    /\ \A i \in DOMAIN wish.fields : IsFieldWish(wish.fields[i])

\* Values with commas between.
ValueList(values) ==
    [k \in 1 .. 2 * Len(values) - 1 |-> IF k % 2 = 0 THEN Comma ELSE values[(k + 1) \div 2]]

Binary(key, op, value) ==
    CASE op = "="  -> <<key, "=", value>>
      [] op = "==" -> <<key, "=", "=", value>>
      [] op = "!=" -> <<key, "!", "=", value>>

SetText(key, op, values) == <<key, op, "(">> \o ValueList(values) \o <<")">>

LabelText(r) ==
    CASE r.op = "exists"             -> <<r.key>>
      [] r.op = "!exists"            -> <<"!", r.key>>
      [] r.op \in {"=", "==", "!="}  -> Binary(r.key, r.op, r.values[1])
      [] r.op \in {"in", "notin"}    -> SetText(r.key, r.op, r.values)

FieldText(r) == Binary(r.path, r.op, r.value)

\* Where each of parts ends, with the comma behind it.
Ends(parts) ==
    LET ends[i \in 0 .. Len(parts)] == IF i = 0 THEN 0 ELSE ends[i - 1] + Len(parts[i]) + 1
    IN ends

\* parts with commas between.
Joined(parts) ==
    LET ends    == Ends(parts)
        part(k) == CHOOSE i \in DOMAIN parts : ends[i - 1] < k /\ k <= ends[i]
    IN [k \in 1 .. ends[Len(parts)] - 1 |->
           IF k = ends[part(k)] THEN Comma ELSE parts[part(k)][k - ends[part(k) - 1]]]

Texts(wish) ==
    [labels |-> Joined([i \in DOMAIN wish.labels |-> LabelText(wish.labels[i])]),
     fields |-> Joined([i \in DOMAIN wish.fields |-> FieldText(wish.fields[i])])]

\* What those requirements say, as the parsers represent it.
LabelMeaning(r) ==
    [key    |-> <<r.key>>,
     op     |-> IF r.op = "==" THEN "=" ELSE r.op,
     values |-> {r.values[i] : i \in DOMAIN r.values}]

FieldMeaning(r) == [path |-> <<r.path>>, value |-> <<r.value>>, negate |-> r.op = "!="]

Meant(wish) ==
    [labels |-> {LabelMeaning(wish.labels[i]) : i \in DOMAIN wish.labels},
     fields |-> {FieldMeaning(wish.fields[i]) : i \in DOMAIN wish.fields}]
=============================================================================
