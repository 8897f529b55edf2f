------------------------------ MODULE Scenario ------------------------------
(***************************************************************************)
(* How a scenario is put together (config.Load, main.resolve): a preset,   *)
(* under a file, under the flags that were given, clamped by Normalize     *)
(* after each of the two; and how its pod budget is split (distribute).    *)
(* Of a scenario, the fields that are clamped against each other or decide *)
(* how many objects there are are kept, one range and one lower bound for  *)
(* each sort. A file or the flags are a function on the fields they set.   *)
(***************************************************************************)
EXTENDS Integers, Sequences

Fields == {"namespaces", "deployments", "lo", "hi", "pods", "cmin", "cmax", "max", "seed"}

\* Flags there are; the least number of containers and the seed have none.
FlagFields == Fields \ {"cmin", "seed"}

AtLeast(bound, v) == IF v < bound THEN bound ELSE v
AtMost(bound, v)  == IF v > bound THEN bound ELSE v

\* yaml.Unmarshal onto a scenario, and apply.
Over(cfg, edits) == [f \in Fields |-> IF f \in DOMAIN edits THEN edits[f] ELSE cfg[f]]

\* Scenario.Normalize, in its order: later clamps see the earlier ones.
Normalize(c) ==
    [c EXCEPT !.namespaces = AtLeast(1, @), !.deployments = AtLeast(1, @),
              !.cmin = AtLeast(1, @), !.cmax = AtLeast(AtLeast(1, c.cmin), @),
              !.hi = AtLeast(c.lo, @), !.max = AtLeast(0, @), !.seed = AtMost(AtLeast(0, c.max), @)]

\* Load, of a file over the preset it names.
Load(base, file) == Normalize(Over(base, file))

\* Fault: the file is read over the flags.
ResolveFileLast(base, file, flags) == Load(Load(base, flags), file)

\* resolve. Without a file the preset is taken as it is, normalized already.
Resolve(base, file, flags) == Normalize(Over(Load(base, file), flags))

-----------------------------------------------------------------------------
\* Go's division by two, which rounds to zero.
Half(v) == IF v < 0 THEN -((-v) \div 2) ELSE v \div 2

\* Scenario.TotalPods
TotalPods(c) == IF c.pods > 0 THEN c.pods ELSE Half(c.lo + c.hi) * c.deployments

\* intBetween, every draw of it.
Between(lo, hi) == IF hi <= lo THEN {lo} ELSE lo .. hi

\* Sum of a sequence, as the loops of distribute keep it.
SumSeq(s) ==
    LET sum[i \in 0 .. Len(s)] == IF i = 0 THEN 0 ELSE sum[i - 1] + s[i]
    IN sum[Len(s)]

\* The whole shares of a budget, without the remainder.
Shares(total, weights) == [i \in DOMAIN weights |-> (total * weights[i]) \div SumSeq(weights)]

\* Fault: the remainder goes to the first.
SplitUneven(total, weights) ==
    LET share == Shares(total, weights)
    IN [share EXCEPT ![1] = @ + total - SumSeq(share)]

\* distribute: what the shares leave goes round, one each.
Split(total, weights) ==
    LET share == Shares(total, weights)
        left  == total - SumSeq(share)
        n     == Len(weights)
    IN [i \in DOMAIN weights |-> share[i] + (left + n - i) \div n]
=============================================================================
