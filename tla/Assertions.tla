----------------------------- MODULE Assertions ----------------------------
(***************************************************************************)
(* The structural assertions (domain/assertions/structural.py, extended.py *)
(* and matches_subset of domain/mocking/resolver.py), which judge a trace  *)
(* by the sequence of its tool calls [name, args, malformed], in order     *)
(* across all turns.                                                       *)
(***************************************************************************)
EXTENDS Json, Integers, Sequences

(* Deep subset: objects recurse, other values compare by equality.         *)
matches_subset[when \in Objects] ==
  [args \in Objects |->
     \A key \in DOMAIN when.dict :
       /\ key \in DOMAIN args.dict
       /\ LET expected == when.dict[key]
              actual == args.dict[key]
          IN  IF IsDict(expected) /\ IsDict(actual)
                THEN matches_subset[expected][actual]
                ELSE actual = expected]

OfTool(calls, tool) == {i \in DOMAIN calls : calls[i].name = tool}

Occurrences(calls, tool) == Cardinality(OfTool(calls, tool))

CallsTool(calls, tool) == Occurrences(calls, tool) >= 1

CallsToolExactly(calls, tool, count) == Occurrences(calls, tool) = count

NotCallsTool(calls, tool) == Occurrences(calls, tool) = 0

MinToolCalls(calls, tool, count) == Occurrences(calls, tool) >= count

(* Faulty: judges the latest call of the tool.                             *)
ToolArgsLatest(calls, tool, match, index) ==
  \E i \in OfTool(calls, tool) :
    /\ \A j \in OfTool(calls, tool) : j <= i
    /\ calls[i].malformed = "none"
    /\ matches_subset[match][calls[i].args]

(* calls[index] as Python finds it among the calls of the tool: from the   *)
(* end where the index is negative.  One out of range is no call: the      *)
(* assertion fails, or raises and safe_evaluate makes that a failure.      *)
IsIndexed(calls, tool, index, i) ==
  IF index >= 0
    THEN Cardinality({j \in OfTool(calls, tool) : j < i}) = index
    ELSE Cardinality({j \in OfTool(calls, tool) : j > i}) = -index - 1

ToolArgs(calls, tool, match, index) ==
  \E i \in OfTool(calls, tool) :
    /\ IsIndexed(calls, tool, index, i)
    /\ calls[i].malformed = "none"
    /\ matches_subset[match][calls[i].args]

(* Faulty: every name is looked for from the start.                        *)
CallOrderAnew(calls, order) ==
  \A k \in DOMAIN order : \E i \in DOMAIN calls : calls[i].name = order[k]

(* all(name in names for name in order) over one iterator: each search     *)
(* starts behind the call that satisfied the one before, and a search that *)
(* fails has consumed the iterator.                                        *)
Found(calls, at, name) == {i \in at + 1 .. Len(calls) : calls[i].name = name}

Reached(calls, order) ==
  LET reached[k \in 0 .. Len(order)] ==
        IF k = 0 THEN 0
        ELSE LET found == Found(calls, reached[k - 1], order[k])
             IN  IF found = {} THEN Len(calls) + 1
                 ELSE CHOOSE i \in found : \A j \in found : i <= j
  IN  reached

CallOrder(calls, order) == Reached(calls, order)[Len(order)] <= Len(calls)

MaxTurns(turns, n) == turns <= n

============================================================================
