--------------------------- MODULE MCSpecLoading ---------------------------
(* A small instance of SpecLoading and of Planning after it for TLC.       *)
EXTENDS Planning

Clean == [p \in Places |-> {}]

(* What may be wrong at each place.                                        *)
Flaws ==
  [text |-> {{"yaml"}}, system |-> {{"wrong"}, {"var"}},
   max_turns |-> {{"wrong"}, {"var"}}, tool |-> {{"wrong"}, {"ref"}},
   entry |-> {{"kind"}, {"kind", "args"}, {"kind", "var"}, {"args"}, {"args2"}, {"pair"},
              {"pair", "kind"}, {"pair", "var"}, {"var"}},
   rule |-> {{"wrong"}, {"outcomes"}, {"wrong", "outcomes"}, {"impl"}, {"impl", "outcomes"}}]

(* A suite with flaws at one or two places.                                *)
Flawed ==
  UNION {UNION {{[Clean EXCEPT ![p] = m, ![q] = n] : m \in Flaws[p], n \in Flaws[q]} :
                 q \in Places} : p \in Places}

(* A second one that may refer to the same file or be no YAML.             *)
Second == {[Clean EXCEPT !["tool"] = t, !["text"] = y, !["system"] = s] :
             t \in {{}, {"ref"}}, y \in {{}, {"yaml"}}, s \in {{}, {"wrong"}}}

TwoFiles == <<Flawed \cup {Clean}, Second>>

AnyTarget == {None, {}, {"yaml"}, {"wrong"}, {"var"}, {"nested"}}

(* The suites have cases of the same name, and one of them has two; one    *)
(* case says 0, and leaves the others to what the suite, the project or    *)
(* the program says.                                                       *)
Case(name, says) == [name |-> name, says |-> says]
TwoCases == <<<<Case("refund", 0), Case("refund twice", None)>>,
              <<Case("refund", 2), Case("greet", None), Case("refund", None)>>>>
TwoTags == <<{"smoke"}, {"smoke", "slow"}>>
SuitesSay == <<None, 0>>

TheGreeting == {<<2, 2>>}

Refunds == {"refund", "refund twice"}

AllRequests ==
  [patterns : {<<{}>>, <<{1}>>, <<{2}, {1, 2}>>, <<{1, 2}>>}, onCli : BOOLEAN,
   tags : {{}, {"slow"}, {"smoke"}}, filter : {None, Refunds, {"greet"}},
   override : {None, 9}]

============================================================================
