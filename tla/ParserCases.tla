---------------------------- MODULE ParserCases ----------------------------
(***************************************************************************)
(* The forms and tokens on which the parser is checked: every way to put   *)
(* one expression into another, and one statement into another; functions  *)
(* and the loops that are short for others; and all short token sequences. *)
(***************************************************************************)
EXTENDS ParserMeaning
LOCAL INSTANCE SequencesExt
LOCAL INSTANCE FiniteSets
LOCAL INSTANCE TLC

A == Var("a")
B == Var("b")
Binary(sign, a, b) == Form("Binary", sign, <<a, b>>)
Short(e) == [k |-> "Short", x |-> "", names |-> <<Named("a"), Named("b")>>, parts |-> <<e>>]
Query(collection, value, condition) ==
  [k |-> "Query", x |-> "", names |-> <<Named("a")>>, parts |-> <<collection, value, condition>>]
Long(parameters, body) == [k |-> "Long", x |-> "", names |-> parameters, parts |-> <<body>>]
String(x) == Form("String", x, <<>>)
ListOf(items) == Form("List", "", items)
CallOf(items) == Form("Call", "", items)

Signs == {",", "=", "+=", "??", "||", "&&", "|", "^", "&", "==", "<", ">>>", "-", "*"}
\* An expression with e in it, in every place of every kind.
Operated(signs, e) ==
  {Binary(sign, e, B) : sign \in signs} \cup {Binary(sign, B, e) : sign \in signs}
  \cup {Form("Conditional", "", <<e, A, B>>), Form("Conditional", "", <<A, e, B>>), Form("Conditional", "", <<A, B, e>>),
        Form("Membership", "is", <<e, A>>), Form("Membership", "not", <<A, B, e>>), Form("Prefix", "-", <<e>>)}
Postfixed(e) ==
  {Form("Postfix", "++", <<e>>), Form("Index", "", <<e, B>>), Form("Index", "", <<A, e>>), Form("Property", "p", <<e>>),
   Form("IndirectProperty", "", <<e, B>>), Form("IndirectProperty", "", <<A, e>>), CallOf(<<e>>), CallOf(<<A, B, e>>),
   CallOf(<<e, A>>)}
  \cup {Form("Apply", at, <<A, B, e, A>>) : at \in {"1", "2", "3"}} \cup {Form("Apply", "1", <<e, B>>)}
Collected(e) ==
  {ListOf(<<e>>), ListOf(<<A, e, B>>), Form("Lookup", "", <<e, A, B, e>>), Form("Lookup", "", <<None, e, A, B>>),
   Form("Lookup", "", <<A, B, None, e>>), Query(e, A, None), Query(A, e, B), Query(A, B, e), Short(e),
   Form("Text", "", <<String("s"), e, String("")>>), Form("Text", "", <<String(""), A, String(""), e, String("t")>>),
   Form("Interpolation", "", <<String("s"), e, String("")>>), Form("PublishedConstruction", "published", <<A, e>>),
   Form("PublishedConstruction", "", <<A>>)}
Inside(e) == Operated(Signs, e) \cup Postfixed(e) \cup Collected(e)
Atoms == {A, Form("Integer", "1", <<>>), Form("nil", "nil", <<>>), Form("true", "true", <<>>), Form("Emitted", "e", <<>>),
          Form("PropertyAddress", "p", <<>>), Form("QualifiedInherited", "b", <<>>), Form("Delegated", "", <<B>>), ListOf(<<>>),
          Long(<<>>, Form("Block", "", <<>>))}
Nested2 == UNION {Inside(i) : i \in Atoms \cup UNION {Inside(B), Inside(Short(A))}}
Steep == {",", "=", "-", "&&"}
Nested3 == UNION {Operated(Steep, i) : i \in UNION {Operated(Steep, j) : j \in Operated(Steep, B) \cup Postfixed(B)}}

Do(e) == Form("Expression", "", <<e>>)
Block(items) == Form("Block", "", items)
Lifetimes(form) == [form |-> form, lifetimes |-> TRUE]
Ownership(form) == [form |-> form, lifetimes |-> FALSE]
\* Without lifetimes a construction says that it is published, and there are no queries.
RECURSIVE Sourced(_)
Sourced(t) ==
  ~(t.k = "Query" \/ (t.k = "PublishedConstruction" /\ t.x = "")) /\ \A i \in DOMAIN t.parts : Sourced(t.parts[i])

In_(word, how, body) ==
  [k |-> "In", x |-> word, names |-> <<[Named("a") EXCEPT !.how = how]>>, parts |-> <<B, body>>]
Arm(how, n) == [x |-> how, n |-> n, how |-> ""]
Switch(arms, parts) == [k |-> "Switch", x |-> "", names |-> arms, parts |-> <<A>> \o parts]
CatchOf(body) == <<Var("E"), Declaring("Local", "x", None), body>>
For(condition, step, body, inits) == Form("For", "", <<condition, step, body>> \o inits)

\* A statement with s in it, in a block of its own where what follows would be taken for a part of it.
Around(s) ==
  {Form("If", "", <<A, s, None>>), Form("If", "", <<A, Closed(s, {"else"}), Do(B)>>), Form("If", "", <<A, Do(B), s>>),
   Form("While", "", <<A, s>>), Form("DoWhile", "", <<A, s>>), Form("Label", "L", <<s>>), Block(<<s>>), Block(<<Do(A), s, Do(B)>>),
   For(None, None, s, <<>>), For(A, B, s, <<Do(A), Declaring("Local", "b", A)>>),
   Switch(<<Arm("case", 1)>>, <<B, s>>), Switch(<<Arm("case", 0), Arm("default", 2), Arm("case", 1)>>, <<B, s, Do(A), B, s>>),
   Form("Try", "", <<Closed(s, {"catch", "finally"})>> \o CatchOf(Do(A))),
   Form("Try", "", <<Do(A)>> \o CatchOf(Closed(s, {"catch", "finally"})) \o CatchOf(s)),
   Form("Finally", "", <<IF s.k = "Try" THEN s ELSE Closed(s, {"catch", "finally"}), Do(B)>>), Form("Finally", "", <<Do(A), s>>)}
  \cup {In_(word, how, s) : word \in {"foreach", "for"}, how \in {"", "local"}}
Bare == {Form("Empty", "", <<>>), Form("Return", "", <<None>>), Form("Break", "", <<>>), Form("Goto", "L", <<>>)}
Leaves ==
  Bare \cup {Form("Continue", "", <<>>), Form("NamedBreak", "L", <<>>), Form("NamedContinue", "L", <<>>), Form("Return", "", <<A>>),
             Form("Return", "", <<Form("Move", "", <<A>>)>>), Form("Throw", "", <<A>>),
             Form("Throw", "", <<Form("ExceptionConstruction", "", <<A>>)>>),
             Form("Throw", "", <<Form("ExceptionConstruction", "", <<A, B, A>>)>>),
             Form("Throw", "", <<Form("PublishedConstruction", "published", <<A, B>>)>>), Do(Binary(",", A, B)), Block(<<>>)}
Values == {A, None, Short(A), ListOf(<<A>>), Form("LocalVector", "", <<A>>), Form("LocalLookupSized", "", <<A, B>>),
           Form("Lookup", "", <<>>), Form("LocalStringBuffer", "", <<>>), Form("LocalOwnedCollection", "", <<>>),
           Form("PublishedConstruction", "", <<A>>)}
OwnedValues == (Values \ {A, None, Short(A), ListOf(<<A>>), Form("PublishedConstruction", "", <<A>>)})
  \cup {Form("LocalConstruction", "", <<A>>), Form("LocalConstruction", "", <<A, B>>), Form("OwnedCall", "", <<CallOf(<<A, B>>)>>),
        Form("LocalConstruction", "", <<A, Form("ExpandedArgument", "", <<B>>)>>), Form("Lookup", "", <<A, B>>)}
Locals == {[k |-> "Local", x |-> "", names |-> <<Named("a"), Named("owned")>>, parts |-> <<v, w>>] : v, w \in Values}
OwnedLocals == {Declaring("OwnedLocal", "a", v) : v \in OwnedValues}

\* Blocks that own something, or hold a block that does.
Owners == OwnedLocals \cup {Do(e) : e \in {Short(A), CallOf(<<Var("toString"), A>>), CallOf(<<A, B>>), CallOf(<<Var("toString")>>),
                                           CallOf(<<Form("Property", "substr", <<A>>), B>>), Form("Property", "substr", <<A>>)}}
Scopes == {Block(<<Do(A), Block(<<s>>), r>>) : s, r \in Owners \cup {Do(B)}}

\* Functions inside one another, and after one another.
Parameterised ==
  {<<>>, <<Named("a")>>, <<Named("a"), [Named("b") EXCEPT !.how = "?"]>>, <<[Named("a") EXCEPT !.how = "?"], [Named("b") EXCEPT !.how = "rest"]>>,
   <<Named("a"), [Named("$rest") EXCEPT !.how = "rest"]>>}
Bodies == {Block(<<Form("Return", "", <<e>>)>>) : e \in {A, Short(A), Short(Short(B))}}
Longs == {Long(p, b) : p \in Parameterised, b \in Bodies}
Functions ==
  Longs \cup {Long(<<>>, Block(<<Do(l), In_("foreach", "", Do(l))>>)) : l \in Longs}
        \cup {Short(l) : l \in Longs} \cup {CallOf(<<A, l, Short(A), l>>) : l \in Longs}

\* for over ranges, and the runs it has.
Integer(n) == IF n < 0 THEN Form("Prefix", "-", <<Form("Integer", ToString(-n), <<>>)>>) ELSE Form("Integer", ToString(n), <<>>)
RangeOf(x, how, from, to, step) ==
  [k |-> "Range", x |-> "", names |-> <<[Named(x) EXCEPT !.how = how]>>,
   parts |-> <<Integer(from), Integer(to), IF step = 1 THEN None ELSE Integer(step)>>]
Bounds == {<<from, to, step>> \in (0..3) \X (0..3) \X {-2, -1, 1, 2} : TRUE}
Ranges == {[one |-> b, two |-> c] : b \in Bounds, c \in {<<0, 9, 3>>, <<2, 0, -1>>}}
RangeFor(r, how) ==
  For(None, None, Form("Empty", "", <<>>),
      <<RangeOf("a", how, r.one[1], r.one[2], r.one[3]), RangeOf("b", "local", r.two[1], r.two[2], r.two[3])>>)

Alphabets == [signs |-> {"-", "=", "?", ":", "a"}, calls |-> {"(", ")", "a", ",", "++"},
              members |-> {"[", "]", "a", "is", "in", "("}, properties |-> {"a", ".", "+", "??", ","}]
Token(x) == [kind |-> IF x \in {"a", "is", "in"} THEN "identifier" ELSE "symbol", text |-> x]

Shapes == {"expressions", "deep", "statements", "locals", "functions", "ranges"} \cup (DOMAIN Alphabets)
Cases(shape) ==
  CASE shape = "expressions" -> {Lifetimes(Do(e)) : e \in Nested2} \cup {Ownership(Do(e)) : e \in {e \in Nested2 : Sourced(e)}}
    [] shape = "deep" -> {Lifetimes(Do(e)) : e \in Nested3}
    [] shape = "statements" -> {Lifetimes(s) : s \in UNION {Around(t) : t \in Leaves \cup UNION {Around(b) : b \in Bare}}}
    [] shape = "locals" -> {Lifetimes(s) : s \in Locals \cup OwnedLocals} \cup {Ownership(s) : s \in Scopes}
    [] shape = "functions" -> {Lifetimes(Do(e)) : e \in Functions}
    [] shape = "ranges" -> {[range |-> r, how |-> how] : r \in Ranges, how \in {"", "local"}}
    [] OTHER -> {[tokens |-> t] : t \in UNION {[1..n -> Alphabets[shape]] : n \in 1..5}}

RECURSIVE Placed(_)
\* A statement with the parentheses its expressions need: one that begins with { would be a block.
Opening(e) == IF Head(Written(e)).text = "{" THEN Form("Group", "", <<e>>) ELSE e
Placed(t) ==
  IF t.k \notin Statements THEN Grouped(t, Argument)
  ELSE [t EXCEPT !.parts = [i \in DOMAIN @ |-> IF t.k = "Expression" THEN Opening(Grouped(@[i], Full)) ELSE Placed(@[i])]]

ReadsBack(case) ==
  \A form \in {Placed(case.form)} : \A s \in {finished(Statement(Started(Written(form), case.lifetimes)))} :
    s.ok /\ Tree(s.nodes, s.v) = Meant(form, case.lifetimes) /\ PartsFirst(s.nodes) /\ OwnNames(s.nodes)

RunsThrough(case) ==
  \A s \in {finished(Statement(Started(Written(RangeFor(case.range, case.how)), TRUE)))} :
    LET one == RangeValues(case.range.one[1], case.range.one[2], case.range.one[3])
        two == RangeValues(case.range.two[1], case.range.two[2], case.range.two[3])
        n == IF Len(one) < Len(two) THEN Len(one) ELSE Len(two)
    IN  s.ok /\ Looped(Tree(s.nodes, s.v), Named("a") :> 7, 9) = [i \in 1..n |-> [a |-> one[i], b |-> two[i]]]

\* What is accepted is written so, and is what it is written as.
OnlyForms(case) ==
  \A tokens \in {[i \in DOMAIN case.tokens |-> Token(case.tokens[i])]} :
    \A s \in {Completed(Parse(Started(tokens, TRUE), Full))} :
      s.ok => \A t \in {Tree(s.nodes, s.v)} : Levelled(t, Full) /\ Written(t) = tokens

AgreesOn(case) ==
  CASE "form" \in DOMAIN case -> ReadsBack(case)
    [] "range" \in DOMAIN case -> RunsThrough(case)
    [] OTHER -> OnlyForms(case)
=============================================================================
