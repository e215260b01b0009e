--------------------------- MODULE ParserMeaning ---------------------------
(***************************************************************************)
(* How expressions and statements are written, and what is meant by each:  *)
(* the definition the parser is checked against.  A form is a tree, a node *)
(* with its parts in it; Written gives its tokens, Meant the tree it       *)
(* stands for where it is short for another.                               *)
(***************************************************************************)
EXTENDS Parser
LOCAL INSTANCE SequencesExt
LOCAL INSTANCE TLC
LOCAL INSTANCE FiniteSets

Form(k, x, parts) == [k |-> k, x |-> x, names |-> <<>>, parts |-> parts]
None == Form("None", "", <<>>)
Var(x) == [k |-> "Name", x |-> "", names |-> <<Named(x)>>, parts |-> <<>>]
Declaring(k, x, value) == [k |-> k, x |-> "", names |-> <<Named(x)>>, parts |-> <<value>>]
Fn(name, parameters, body) ==
  [k |-> "Function", x |-> "", names |-> <<Named(name)>> \o parameters, parts |-> <<body>>]

\* How tightly a form holds together: what stands where more is needed is put in parentheses.
Level(t) ==
  CASE t.k = "Binary" -> binding(t.x)[1]
    [] t.k = "Conditional" -> 3
    [] t.k = "Membership" -> 10
    [] t.k \in {"Prefix", "PublishedConstruction"} -> 15
    [] t.k \in {"Postfix", "Call", "Index", "Property", "IndirectProperty", "Apply"} -> 16
    [] OTHER -> 17
Receiver == Sub(16, FALSE)

\* What each part of an expression may hold, where the whole stands in c.
Slots(t, c) ==
  CASE t.k = "Binary" /\ t.x \in Assigning -> <<Sub(4, c.commas), Sub(2, c.commas)>>
    [] t.k = "Binary" -> <<Sub(binding(t.x)[1], c.commas), Sub(binding(t.x)[2], c.commas)>>
    [] t.k = "Conditional" -> <<Sub(4, c.commas), Sub(IF c.commas THEN 1 ELSE 2, c.commas), Sub(2, c.commas)>>
    [] t.k = "Prefix" -> <<Sub(15, c.commas)>>
    [] t.k = "Membership" -> [i \in DOMAIN t.parts |-> IF i = 1 THEN Sub(10, c.commas) ELSE Argument]
    [] t.k = "Postfix" -> <<Receiver>>
    [] t.k \in {"Call", "Property", "Apply"} -> [i \in DOMAIN t.parts |-> IF i = 1 THEN Receiver ELSE Argument]
    [] t.k \in {"Index", "IndirectProperty"} -> <<Receiver, Full>>
    [] t.k \in {"Group", "Interpolation", "Text", "Short"} -> [i \in DOMAIN t.parts |-> Full]
    [] OTHER -> [i \in DOMAIN t.parts |-> Argument]
Fitting(t, c) == Level(t) >= c.min /\ (c.commas \/ Level(t) > 1)

Statements == {"Block", "Empty", "Expression", "If", "While", "DoWhile", "For", "In", "Switch", "Try", "Finally", "Label",
               "Return", "Throw", "Local", "OwnedLocal", "Break", "Continue", "NamedBreak", "NamedContinue", "Goto"}

\* Is every part where it may stand without parentheses?
RECURSIVE Levelled(_, _), Grouped(_, _)
Levelled(t, c) == Fitting(t, c) /\ \A i \in DOMAIN t.parts : Levelled(t.parts[i], Slots(t, c)[i])
\* The expression with the parentheses it needs where c is allowed.
Grouped(t, c) ==
  IF ~Fitting(t, c) THEN Form("Group", "", <<Grouped(t, Full)>>)
  ELSE IF t.k \in {"Long", "None"} THEN t
  ELSE [t EXCEPT !.parts = [i \in DOMAIN @ |-> Grouped(@[i], Slots(t, c)[i])]]

\* The words that would go on with a statement, were they to follow it.
RECURSIVE Ends(_)
Ends(t) ==
  CASE t.k = "If" -> IF t.parts[3] = None THEN {"else"} \cup Ends(t.parts[2]) ELSE Ends(t.parts[3])
    [] t.k \in {"While", "In", "Label", "Finally"} -> Ends(Last(t.parts))
    [] t.k = "For" -> Ends(t.parts[3])
    [] t.k = "Try" -> {"catch", "finally"} \cup Ends(Last(t.parts))
    [] OTHER -> {}
\* A statement that the words in next follow.
Closed(t, next) == IF Ends(t) \cap next # {} THEN Form("Block", "", <<t>>) ELSE t

(***************************************************************************)
(* The tokens of a form.                                                   *)
(***************************************************************************)
W(x) == <<[kind |-> "identifier", text |-> x]>>
S(x) == <<[kind |-> "symbol", text |-> x]>>
Separated(lists, sign) ==
  IF lists = <<>> THEN <<>> ELSE FoldLeft(LAMBDA out, l : out \o sign \o l, Head(lists), Tail(lists))
Commas(lists) == Separated(lists, S(","))
WrittenParameter(p) ==
  IF p.x = "$rest" THEN S("...")
  ELSE IF p.how = "rest" THEN S("[") \o W(p.x) \o S("]")
  ELSE W(p.x) \o (IF p.how = "?" THEN S("?") ELSE <<>>)
WrittenNames(names) == Commas([i \in DOMAIN names |-> WrittenParameter(names[i])])

RECURSIVE Written(_)
All(ts) == [i \in DOMAIN ts |-> Written(ts[i])]
In(open, tokens, close) == S(open) \o tokens \o S(close)
Clause(word, t) == IF t = None THEN <<>> ELSE word \o Written(t)

WrittenText(t) ==
  LET n == Len(t.parts)
      head == IF t.k = "Text" THEN "head" ELSE "emittedhead"
      Piece(i) == IF i % 2 = 0 THEN Written(t.parts[i])
                  ELSE <<[kind |-> IF i = 1 THEN head ELSE IF i = n THEN "last" ELSE "middle", text |-> t.parts[i].x]>>
  IN  FlattenSeq([i \in 1..n |-> Piece(i)])
WrittenLookup(t) ==
  Commas([i \in 1..(Len(t.parts) \div 2) |->
            (IF t.parts[2 * i - 1] = None THEN S("*") ELSE Written(t.parts[2 * i - 1])) \o S("->") \o Written(t.parts[2 * i])])
\* Arguments, the one at t.x expanded.
WrittenApply(t) ==
  LET items == All(Tail(t.parts))
  IN  Commas([i \in DOMAIN items |-> IF ToString(i) = t.x THEN items[i] \o S("...") ELSE items[i]])
Constructing(word, t) ==
  W("new") \o word \o Written(t.parts[1])
    \o (IF Len(t.parts) = 1 THEN <<>> ELSE In("(", Commas(All(Tail(t.parts))), ")"))

WrittenExpression(t) ==
  LET p == t.parts
  IN  CASE t.k = "Name" -> W(t.names[1].x)
        [] t.k \in {"nil", "true"} -> W(t.k)
        [] t.k = "Integer" -> <<[kind |-> "integer", text |-> t.x]>>
        [] t.k \in {"String", "Emitted"} -> <<[kind |-> IF t.k = "String" THEN "quoted" ELSE "emitted", text |-> t.x]>>
        [] t.k = "PropertyAddress" -> S("&") \o W(t.x)
        [] t.k = "QualifiedInherited" -> W("inherited") \o W(t.x)
        [] t.k = "Delegated" -> W("delegated") \o Written(p[1])
        [] t.k = "Group" -> In("(", Written(p[1]), ")")
        [] t.k = "List" -> In("[", Commas(All(p)), "]")
        [] t.k = "Lookup" -> In("[", WrittenLookup(t), "]")
        [] t.k = "Query" ->
             In("[", W("for") \o W(t.names[1].x) \o W("in") \o Written(p[1]) \o S(":") \o Written(p[2])
                       \o Clause(W("if"), p[3]), "]")
        [] t.k \in {"Text", "Interpolation"} -> WrittenText(t)
        [] t.k = "Short" -> In("{", WrittenNames(t.names) \o S(":") \o Written(p[1]), "}")
        [] t.k = "Long" -> W("function") \o In("(", WrittenNames(t.names), ")") \o Written(p[1])
        [] t.k = "Prefix" -> S(t.x) \o Written(p[1])
        [] t.k = "Postfix" -> Written(p[1]) \o S(t.x)
        [] t.k = "Binary" -> Written(p[1]) \o S(t.x) \o Written(p[2])
        [] t.k = "Conditional" -> Written(p[1]) \o S("?") \o Written(p[2]) \o S(":") \o Written(p[3])
        [] t.k = "Membership" -> Written(p[1]) \o W(t.x) \o W("in") \o In("(", Commas(All(Tail(p))), ")")
        [] t.k = "Call" -> Written(p[1]) \o In("(", Commas(All(Tail(p))), ")")
        [] t.k = "Apply" -> Written(p[1]) \o In("(", WrittenApply(t), ")")
        [] t.k = "Index" -> Written(p[1]) \o In("[", Written(p[2]), "]")
        [] t.k = "Property" -> Written(p[1]) \o S(".") \o W(t.x)
        [] t.k = "IndirectProperty" -> Written(p[1]) \o S(".") \o In("(", Written(p[2]), ")")
        [] t.k = "PublishedConstruction" -> Constructing(IF t.x = "" THEN <<>> ELSE W(t.x), t)

\* One of for's initializers: a range from ... to ... by ..., a local, an expression.
Local1(t) == IF t.names[1].how = "local" THEN W("local") ELSE <<>>
WrittenInitializer(t) ==
  CASE t.k = "Range" -> Local1(t) \o W(t.names[1].x) \o W("in") \o Written(t.parts[1]) \o S("..") \o Written(t.parts[2])
                          \o Clause(W("step"), t.parts[3])
    [] t.k = "Local" -> W("local") \o W(t.names[1].x) \o S("=") \o Written(t.parts[1])
    [] OTHER -> Written(t.parts[1])
WrittenFor(t) ==
  LET inits == SubSeq(t.parts, 4, Len(t.parts))
      ranges == \E i \in DOMAIN inits : inits[i].k = "Range"
      header == Commas([i \in DOMAIN inits |-> WrittenInitializer(inits[i])])
      rest == S(";") \o Clause(<<>>, t.parts[1]) \o S(";") \o Clause(<<>>, t.parts[2])
  IN  W("for") \o In("(", header \o (IF ranges /\ t.parts[1] = None /\ t.parts[2] = None THEN <<>> ELSE rest), ")")
        \o Written(t.parts[3])
\* The arms of a switch: names says of each what it is, and how many statements it has.
WrittenSwitch(t) ==
  LET Arm(out, arm) ==
        LET case == arm.x = "case"
            n == IF case THEN arm.n + 1 ELSE arm.n
            label == IF case THEN W("case") \o Written(out.left[1]) ELSE W("default")
            body == SubSeq(out.left, IF case THEN 2 ELSE 1, n)
        IN  [tokens |-> out.tokens \o label \o S(":") \o FlattenSeq(All(body)), left |-> SubSeq(out.left, n + 1, Len(out.left))]
  IN  W("switch") \o In("(", Written(t.parts[1]), ")")
        \o In("{", FoldLeft(Arm, [tokens |-> <<>>, left |-> Tail(t.parts)], t.names).tokens, "}")
WrittenTry(t) ==
  LET Catch(i) == W("catch") \o In("(", Written(t.parts[3 * i - 1]) \o W(t.parts[3 * i].names[1].x), ")") \o Written(t.parts[3 * i + 1])
  IN  W("try") \o Written(t.parts[1]) \o FlattenSeq([i \in 1..((Len(t.parts) - 1) \div 3) |-> Catch(i)])
\* A try with clauses goes on with its finally.
WrittenFinally(t) ==
  (IF t.parts[1].k = "Try" THEN <<>> ELSE W("try")) \o Written(t.parts[1]) \o W("finally") \o Written(t.parts[2])
WrittenCollection(name, t) == W(name) \o In("(", Commas(All(t.parts)), ")")
WrittenValue(t) ==
  CASE t.k = "LocalStringBuffer" -> W("new") \o WrittenCollection("StringBuffer", t)
    [] t.k = "LocalOwnedCollection" -> W("new") \o WrittenCollection("OwnedCollection", t)
    [] t.k = "LocalVector" -> W("new") \o WrittenCollection("Vector", t)
    [] t.k = "LocalLookupSized" \/ (t.k = "Lookup" /\ t.parts = <<>>) -> W("new") \o WrittenCollection("LookupTable", t)
    [] t.k = "LocalConstruction" /\ Len(t.parts) = 2 /\ t.parts[2].k = "ExpandedArgument" ->
         W("new") \o Written(t.parts[1]) \o In("(", Written(t.parts[2].parts[1]) \o S("..."), ")")
    [] t.k = "LocalConstruction" -> Constructing(<<>>, t)
    [] t.k = "OwnedCall" -> Written(t.parts[1])
    [] OTHER -> Written(t)
WrittenLocal(t) ==
  LET One(i) == W(t.names[i].x) \o (IF t.parts[i] = None THEN <<>> ELSE S("=") \o WrittenValue(t.parts[i]))
  IN  W("local") \o (IF t.k = "OwnedLocal" THEN W("owned") ELSE <<>>) \o Commas([i \in DOMAIN t.names |-> One(i)]) \o S(";")

WrittenStatement(t) ==
  LET p == t.parts
      Header(word, e) == W(word) \o In("(", Written(e), ")")
  IN  CASE t.k = "Block" -> In("{", FlattenSeq(All(p)), "}")
        [] t.k = "Empty" -> S(";")
        [] t.k = "Expression" -> Written(p[1]) \o S(";")
        [] t.k = "If" -> Header("if", p[1]) \o Written(p[2]) \o Clause(W("else"), p[3])
        [] t.k = "While" -> Header("while", p[1]) \o Written(p[2])
        [] t.k = "DoWhile" -> W("do") \o Written(p[2]) \o Header("while", p[1]) \o S(";")
        [] t.k = "For" -> WrittenFor(t)
        [] t.k = "In" -> W(t.x) \o In("(", Local1(t) \o W(t.names[1].x) \o W("in") \o Written(p[1]), ")") \o Written(p[2])
        [] t.k = "Switch" -> WrittenSwitch(t)
        [] t.k = "Try" -> WrittenTry(t)
        [] t.k = "Finally" -> WrittenFinally(t)
        [] t.k = "Label" -> W(t.x) \o S(":") \o Written(p[1])
        [] t.k = "Return" ->
             W("return") \o (CASE p[1] = None -> <<>>
                               [] p[1].k = "Move" -> W("move") \o Written(p[1].parts[1])
                               [] OTHER -> Written(p[1])) \o S(";")
        [] t.k = "Throw" ->
             W("throw") \o (IF p[1].k = "ExceptionConstruction" THEN Constructing(<<>>, p[1]) ELSE Written(p[1])) \o S(";")
        [] t.k \in {"Local", "OwnedLocal"} -> WrittenLocal(t)
        [] t.k \in {"Break", "NamedBreak"} -> W("break") \o (IF t.k = "Break" THEN <<>> ELSE W(t.x)) \o S(";")
        [] t.k \in {"Continue", "NamedContinue"} -> W("continue") \o (IF t.k = "Continue" THEN <<>> ELSE W(t.x)) \o S(";")
        [] t.k = "Goto" -> W("goto") \o W(t.x) \o S(";")
Written(t) == IF t.k \in Statements THEN WrittenStatement(t) ELSE WrittenExpression(t)

(***************************************************************************)
(* What is meant.                                                          *)
(***************************************************************************)
Reference(parameters, body) == Form("FunctionReference", "", <<Fn("$callback", parameters, body)>>)
Giving(value) == Form("Return", "", <<value>>)
Running(body) == Form("Block", "", <<body, Giving(None)>>)
Value(e) == IF e.k \in {"Emitted", "Interpolation"} THEN Running(Form("Expression", "", <<e>>)) ELSE Giving(e)
Method(receiver, name, fn) == Form("Call", "", <<Form("Property", name, <<receiver>>), fn>>)
Selected(name, collection, condition) ==
  IF condition = None THEN collection ELSE Method(collection, "subset", Reference(<<Named(name)>>, Giving(condition)))

\* Does a block own something: a function, text that is built, an owned local of its own?
RECURSIVE Owner(_)
Owner(t) ==
  \/ t.k = "FunctionReference"
  \/ t.k = "Call" /\ Len(t.parts) > 1 /\ Building([nodes |-> t.parts], 1)
  \/ \E i \in DOMAIN t.parts : Owner(t.parts[i])
Owns(block) == Owner(block) \/ \E i \in DOMAIN block.parts : block.parts[i].k = "OwnedLocal"

RECURSIVE Meant(_, _)
Meant(t, lifetimes) ==
  LET p == [i \in DOMAIN t.parts |-> Meant(t.parts[i], lifetimes)]
      same == [t EXCEPT !.parts = p]
  IN  CASE t.k = "Query" ->
             Method(Selected(t.names[1].x, p[1], p[3]), "mapAll", Reference(<<Named(t.names[1].x)>>, Giving(p[2])))
        [] t.k = "Text" ->
             LET Piece(i) == IF i % 2 = 1 THEN p[i] ELSE Form("Call", "", <<Var("$valueText"), p[i]>>)
                 kept == SelectSeq([i \in DOMAIN p |-> Piece(i)], LAMBDA e : ~(e.k = "String" /\ e.x = ""))
             IN  FoldLeft(LAMBDA a, b : Form("Binary", "+", <<a, b>>), Head(kept), Tail(kept))
        [] t.k = "Short" -> Reference(t.names, Value(p[1]))
        [] t.k = "Long" -> Reference(t.names, Running(p[1]))
        [] t.k = "PublishedConstruction" -> [same EXCEPT !.x = ""]
        [] t.k = "Apply" ->
             LET at == CHOOSE i \in 1..Len(p) : ToString(i) = t.x
                 before == SubSeq(p, 2, at + 1)
                 after == SubSeq(p, at + 2, Len(p))
                 first == IF at = 1 THEN before[1] ELSE Form("ArgumentPack", "", before)
             IN  Form("Apply", "", <<p[1], IF after = <<>> THEN first ELSE Form("ArgumentPackTail", "", <<first>> \o after)>>)
        [] t.k = "In" ->
             LET own == t.names[1].how = "local"
                 variable == IF own THEN t.names[1].x ELSE "$foreach"
                 assign == Form("Expression", "", <<Form("Binary", "=", <<Var(t.names[1].x), Var("$foreach")>>)>>)
             IN  Form("ForEach", "", <<Declaring("Local", variable, None), p[1],
                                       IF own THEN p[2] ELSE Form("Block", "", <<assign, p[2]>>)>>)
        [] t.k = "Block" -> IF ~lifetimes /\ Owns(same) THEN Form("OwnerScope", "", <<same>>) ELSE same
        [] OTHER -> same

\* What the parser has made: the tree of a node, names of its own without their numbers.
Plainly(name) == IF name.x \in {"$callback", "$foreach"} THEN [name EXCEPT !.n = 0] ELSE name
RECURSIVE Tree(_, _)
Tree(nodes, id) ==
  IF id = 0 THEN None
  ELSE [k |-> nodes[id].k, x |-> nodes[id].x,
        names |-> [i \in DOMAIN nodes[id].names |-> Plainly(nodes[id].names[i])],
        parts |-> [i \in DOMAIN nodes[id].parts |-> Tree(nodes, nodes[id].parts[i])]]

\* Every node comes after its parts, and no two variables of the parser's own are one.
PartsFirst(nodes) == \A id \in DOMAIN nodes : \A i \in DOMAIN nodes[id].parts : nodes[id].parts[i] < id
Declared(nodes) == {i \in DOMAIN nodes : nodes[i].k \in {"Local", "Function"} /\ nodes[i].names[1].n > 0}
OwnNames(nodes) == \A i, j \in Declared(nodes) : nodes[i].names[1] = nodes[j].names[1] => i = j

(***************************************************************************)
(* The runs of a for over ranges: the values its variables have each time, *)
(* at most limit times, where everything in it is a number or a variable.  *)
(***************************************************************************)
RECURSIVE Number(_, _), Visits(_, _, _)
Digit(text) == CHOOSE n \in 0..9 : ToString(n) = text
\* A number, or 1 and 0 for what is true and false; "=" and "+=" are done by Assigned.
Number(env, t) ==
  CASE t.k = "Integer" -> Digit(t.x)
    [] t.k = "Prefix" -> -Number(env, t.parts[1])
    [] t.k = "Name" -> env[t.names[1]]
    [] t.k = "Conditional" -> IF Number(env, t.parts[1]) = 1 THEN Number(env, t.parts[2]) ELSE Number(env, t.parts[3])
    [] t.k = "Binary" ->
         LET a == Number(env, t.parts[1])
             b == Number(env, t.parts[2])
             Truth(x) == IF x THEN 1 ELSE 0
         IN  CASE t.x = "<" -> Truth(a < b)
               [] t.x = "<=" -> Truth(a <= b)
               [] t.x = ">=" -> Truth(a >= b)
               [] t.x = "&&" -> Truth(a = 1 /\ b = 1)
               [] t.x = "+=" -> a + b
               [] t.x = "=" -> b
RECURSIVE Assigned(_, _)
Assigned(env, t) ==
  CASE t.k = "Expression" -> Assigned(env, t.parts[1])
    [] t.k = "Local" -> (t.names[1] :> Number(env, t.parts[1])) @@ env
    [] t.k = "Binary" /\ t.x = "," -> Assigned(Assigned(env, t.parts[1]), t.parts[2])
    [] OTHER -> [env EXCEPT ![t.parts[1].names[1]] = Number(env, t)]
Visits(env, t, limit) ==
  IF limit = 0 \/ Number(env, t.parts[1]) = 0 THEN <<>>
  ELSE <<[x \in {n.x : n \in {n \in DOMAIN env : n.n = 0}} |-> env[Named(x)]]>> \o Visits(Assigned(env, t.parts[2]), t, limit - 1)
Looped(t, before, limit) == Visits(FoldLeft(Assigned, before, SubSeq(t.parts, 4, Len(t.parts))), t, limit)

\* A range names the numbers from ... on, by step, up or down to the end.
RangeValues(from, to, step) ==
  [i \in 1..Cardinality({n \in 0..20 : IF step < 0 THEN from + n * step >= to ELSE from + n * step <= to}) |->
     from + (i - 1) * step]
=============================================================================
