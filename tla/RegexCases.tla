----------------------------- MODULE RegexCases -----------------------------
(***************************************************************************)
(* The patterns and subjects on which the matcher is compared with what    *)
(* patterns mean: sequences and alternatives of two parts, and groups,     *)
(* back references and looks around them.                                  *)
(***************************************************************************)
EXTENDS RegexMeaning

Plain(k) == [k |-> k]
Only(c) == [k |-> "char", c |-> c]
CharSet(text, set, negated) == [k |-> "set", text |-> text, set |-> set, negated |-> negated]
Times(x, min, max, lazy) == [k |-> "repeat", node |-> x, min |-> min, max |-> max, lazy |-> lazy]
In(index, x) == [k |-> "group", index |-> index, node |-> x]
Then(nodes) == [k |-> "concat", nodes |-> nodes]
Alt(nodes) == [k |-> "alternate", nodes |-> nodes]
Ahead(negate, x) == [k |-> "look", negate |-> negate, node |-> x]
Again == [k |-> "backref", index |-> 1]

Quantified(trees) ==
  {Times(x, q[1], q[2], lazy) :
     x \in trees, lazy \in BOOLEAN,
     q \in {<<0, Unbounded>>, <<1, Unbounded>>, <<0, 1>>, <<1, 2>>, <<2, 2>>}}

Atoms ==
  {Only("a"), Only("b"), Plain("any"), Plain("start"), Plain("end"), Plain("wordend"), Plain("empty"),
   [k |-> "boundary", negate |-> FALSE],
   CharSet(<<"[", "^", "a", "-", "]">>, {"a", "-"}, TRUE),
   CharSet(<<"[", "%", "]", "a", "-", "c", "]">>, {"]", "a", "b", "c"}, FALSE),
   CharSet(<<"<", "upper", "|", "a", "-", "b", "|", " ", ">">>, {"a", "b", "A", "B", " "}, FALSE)}
    \cup Quantified({Only("a"), Plain("any")})

Pieces ==
  {Only("a"), Only("b"), Times(Only("a"), 0, Unbounded, FALSE), Times(Plain("any"), 0, 1, TRUE),
   Then(<<Only("b"), Only("a")>>)}
Choices == Pieces \cup {Alt(<<Only("a"), Then(<<Only("a"), Only("b")>>)>>)}

Shapes == {"pair", "either", "backref", "groups", "loop", "look", "nested"}
Trees(shape) ==
  CASE shape = "pair" -> {Then(<<x, y>>) : x, y \in Atoms}
    [] shape = "either" -> {Alt(<<x, y>>) : x, y \in Atoms}
    [] shape = "backref" -> {Then(<<In(1, x), y, Again>>) : x \in Choices, y \in Pieces}
    [] shape = "groups" -> {Alt(<<In(1, x), In(2, y)>>) : x, y \in Choices}
    [] shape = "loop" -> {Then(<<q, In(2, y)>>) : q \in Quantified({In(1, x) : x \in Choices}), y \in Choices}
    [] shape = "look" -> {Then(<<Ahead(n, x), In(1, y)>>) : n \in BOOLEAN, x, y \in Choices}
    [] shape = "nested" ->
         {In(1, Then(<<In(2, x), Times(In(0, y), 0, Unbounded, FALSE)>>)) : x, y \in Choices}

Subjects ==
  {<<>>, <<"a">>, <<"b">>, <<"a", "b">>, <<"b", "a">>, <<"a", "a">>, <<"a", "b", "a">>,
   <<"A", "a", "b">>, <<"a", " ", "b">>, <<"b", "a", "a", "b">>}

Cases(shape) == [tree : Trees(shape), mode : {"max", "min", "nocase"}]
AgreesOn(case) == Agrees(case.tree, case.mode, Subjects)
=============================================================================
