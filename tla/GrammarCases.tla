---------------------------- MODULE GrammarCases ----------------------------
(***************************************************************************)
(* The grammars and commands on which matching is compared with what rules *)
(* mean: a production s whose rules use every kind of part, groups, empty  *)
(* alternatives and badness, over a production n that may be ambiguous,    *)
(* empty or recursive.                                                     *)
(*                                                                         *)
(* Where a production begins with another that begins with it, some trees  *)
(* are not found (the README says how); those grammars are apart.          *)
(***************************************************************************)
EXTENDS GrammarMeaning

Literal(w) == [term |-> <<"literal", w>>, capture |-> ""]
Of(name, capture) == [term |-> <<"symbol", name, "">>, capture |-> capture]
Part(name, part, capture) == [term |-> <<"symbol", name, part>>, capture |-> capture]
Rest == [term |-> <<"wildcard">>, capture |-> ""]
Group(alternatives) == [group |-> alternatives]

Declared == [tokens |-> {"word"}, relations |-> {"vocab"}, labelled |-> {"kinds"}, vocabulary |-> {"noun", "kinds"},
             properties |-> {"noun", "adj", "vocab", "obj", "other"}]
Dictionary == {[word |-> "b", part |-> "noun", entity |-> 1], [word |-> "b", part |-> "vocab", entity |-> 1],
               [word |-> "b", part |-> "vocab", entity |-> 2], [word |-> "a", part |-> "adj", entity |-> 1]}

Parts == {Literal("a"), Of("n", "obj"), Of("n", "other"), Of("word", "obj"), Of("vocab", "other"),
          Of("noun", ""), Part("kinds", "adj", "obj"), Rest}
Groups == {Group(<<<<x>>, <<y>>>>) : x \in Parts, y \in {Of("n", "obj"), Of("word", "other")}}
            \cup {Group(<<<<>>, <<Literal("a"), x>>>>) : x \in Parts}
            \cup {Group(<<<<Group(<<<<>>, <<x>>>>)>>, <<>>>>) : x \in {Literal("a"), Of("n", "obj")}}

Alternative1(badness, parts) == [badness |-> badness, parts |-> parts]
Only(parts) == <<Alternative1(0, parts)>>

Shapes == {"pair", "either", "group"}
Starts(shape) ==
  CASE shape = "pair" -> {Only(<<x, y>>) : x, y \in Parts}
    [] shape = "either" -> {<<Alternative1(1, <<x>>), Alternative1(0, <<Of("n", "obj"), y>>)>> : x, y \in Parts}
    [] shape = "group" -> {Only(<<g, y>>) : g \in Groups, y \in {Of("n", "obj"), Literal("a"), Rest}}
                            \cup {Only(<<Of("n", "obj"), g>>) : g \in Groups}

Nouns == {Only(<<Literal("a")>>),
          <<Alternative1(0, <<>>), Alternative1(2, <<Of("word", "obj")>>)>>,
          <<Alternative1(0, <<Of("n", "obj"), Literal("a")>>), Alternative1(0, <<Literal("a")>>)>>,
          <<Alternative1(0, <<Literal("a")>>), Alternative1(0, <<Literal("a"), Literal("a")>>)>>}

Grammar(start, noun) ==
  <<[production |-> "s", match_name |-> "S", alternatives |-> start],
    [production |-> "n", match_name |-> "N", alternatives |-> noun]>>

Spoken(w) == [text |-> w, kind |-> "word"]
Commands == UNION {[1..k -> {Spoken("a"), Spoken("b")}] : k \in 0..3}

Ample == [states |-> 100, trees |-> 40, depth |-> 20]
Scant == {[Ample EXCEPT !.states = 8], [Ample EXCEPT !.trees = 2], [Ample EXCEPT !.depth = 2]}

Cases(shape) == {Grammar(start, noun) : start \in Starts(shape), noun \in Nouns}

Request(input, dictionary, limits) == [input |-> input, dictionary |-> dictionary, limits |-> limits]
Requests ==
  {Request(input, Dictionary, Ample) : input \in Commands}
    \cup {Request(<<Spoken("a"), Spoken("b")>>, {}, Ample)}
    \cup {Request(<<Spoken("a"), Spoken("a")>>, Dictionary, limits) : limits \in Scant}

AgreesOn(case) ==
  \A tables \in {Compiled(Declared, Source(case))} :
    \A request \in Requests : EveryReading(Declared, case, tables, request, request.limits = Ample)
=============================================================================
