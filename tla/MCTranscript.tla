---------------------------- MODULE MCTranscript ---------------------------
(* Small instances of Transcript for TLC.                                  *)
EXTENDS Transcript

Atom(v) == [atom |-> v]
Obj(key, value) == [dict |-> key :> value]
Empty == [dict |-> <<>>]

AllProviders == {"openai", "anthropic", "gemini"}
OneProvider == {"anthropic"}
TwoTools == {"t", "u"}

(* {"order": {"no": v}}.                                                   *)
OrderNo(v) == Obj("order", Obj("no", Atom(v)))

Ask(tool, args) == [name |-> tool, args |-> args, malformed |-> "none"]

Garbled(tool) == [name |-> tool, args |-> Empty, malformed |-> "raw"]

MixedAnswers ==
  {<<>>, <<Ask("t", OrderNo("A"))>>, <<Ask("t", OrderNo("B")), Garbled("u")>>}

OneCall == {<<>>, <<Ask("t", OrderNo("A"))>>}

SomeMatches ==
  {Empty, OrderNo("A"), Obj("order", Empty), Obj("order", Atom("A")), Obj("no", Atom("A"))}

Says(content) == [content |-> content, isError |-> "ok"]
Fails(content) == [content |-> content, isError |-> "error"]

(* An edit changes the amount that t returns, and makes an error of what u  *)
(* says.                                                                   *)
Edited(v, u) == [t |-> Says(Obj("total", Atom(v))), u |-> u]
TwoMocks == {Edited("A", Says(Atom("done"))), Edited("B", Fails(Atom("done")))}

(* t's result has an id of its own: {"id": v}.                             *)
OwnId(v) == [t |-> Says(Obj("id", Atom(v))), u |-> Says(Atom("done"))]
TwoIds == {OwnId("A"), OwnId("B")}

SomeAtoms == {"A", "B", "done"}
SomeKeys == {"order", "no", "total"}
KeysWithId == {"order", "no", "id"}

FiveIds == <<"c1", "c2", "c3", "c4", "c5">>

============================================================================
