---------------------------- MODULE MCRunCommand ---------------------------
(* Small instances of RunCommand and CompareMatrix for TLC.                *)
EXTENDS CompareMatrix

Outcome(t, a) == [term |-> t, asserts |-> a]

Passes == Outcome("end_turn", "passed")
Fails == Outcome("end_turn", "failed")
Down == Outcome("provider_error", "failed")
Raises == Outcome("none", "failed")

AllOutcomes == {Passes, Fails, Down, Raises}
PassOrFail == {Passes, Fails}

(* A case of provider a that runs twice and may fail once, a passthrough   *)
(* case of the same provider, a fake case, and a case of provider b.       *)
FourProviders == <<"a", "a", "fake", "b">>
FourRepeat == <<2, 1, 1, 1>>
FourRequired == <<50, 100, 100, 100>>
TwoKnown == {"a", "b"}
SecondPassthrough == {2}
AllPass == [c \in Cases |-> Passes]
NoCases == {}

(* The first case of each of two suites has the same name.                 *)
TwoAlike == <<"lookup", "lookup", "greet", "refund">>

Cmd(kind, labels, mode, keys, selected, broken, yes) ==
  [kind |-> kind, labels |-> labels, mode |-> mode, keys |-> keys,
   selected |-> selected, broken |-> broken, yes |-> yes]

Run(mode, keys, selected) == Cmd("run", <<"m">>, mode, keys, selected, FALSE, FALSE)

Compare(labels, mode, keys, yes) ==
  Cmd("compare", labels, mode, keys, Cases, FALSE, yes)

Trace(keys, case) == Cmd("trace", <<"m">>, "off", keys, {case}, FALSE, FALSE)

(* Only one provider at a time has a key and selected cases.               *)
OneAtATime ==
  {Run(mode, keys, Cases) : mode \in {"auto", "record"}, keys \in {{"a"}, {"b"}}}
    \cup {Run("auto", {"a", "b"}, {1, 3}), Run("auto", {}, {1, 4}),
          Run("off", {"a"}, {1, 2}), Run("replay", {}, Cases),
          Run("bogus", {"a"}, {1}), Run("bogus", {"a"}, {}),
          [Run("auto", {"a"}, Cases) EXCEPT !.broken = TRUE],
          Compare(<<"m", "n">>, "auto", {"a"}, TRUE),
          Compare(<<"m", "n">>, "record", {"a"}, FALSE),
          Compare(<<"m", "n">>, "replay", {}, FALSE),
          Compare(<<"n">>, "auto", {"b"}, FALSE),
          Compare(<<"unreadable", "n">>, "record", {"a"}, TRUE),
          Compare(<<"m", "unreadable", "n">>, "replay", {}, FALSE),
          Trace({"a"}, 2), Trace({"a"}, 4)}

NotReadable == {"unreadable"}

(* Keys of both providers, and cases of both in one run.                   *)
BothAtOnce == {Run("auto", {"a", "b"}, {1, 4}), Run("replay", {}, {1, 4})}

============================================================================
