------------------------------- MODULE Parser -------------------------------
(***************************************************************************)
(* The parser of expressions and statements (parser.rs), which writes flat *)
(* nodes that name each other by their place.  Its worklists of tasks are  *)
(* the recursion they stand for.                                           *)
(*                                                                         *)
(* A parser s reads s.tokens from s.at on; s.v is the node it has just     *)
(* made, s.vs a list of them, s.name a name it has read.  A node has a     *)
(* kind k, a word or sign x, the names it binds and its parts, 0 for one   *)
(* that is absent.  A name the parser makes up has an n of its own.        *)
(***************************************************************************)
EXTENDS Integers, Sequences
LOCAL INSTANCE SequencesExt
LOCAL INSTANCE TLC

RECURSIVE Work(_, _), Interpolation(_, _, _, _), Items(_, _, _), LookupEntry(_, _, _, _)
RECURSIVE Arguments(_, _, _, _), TailArguments(_, _, _, _), Formals(_, _, _), Parameters(_, _)
RECURSIVE BlockFrom(_, _, _), SwitchFrom(_, _, _, _), TryFrom(_, _), ForFrom(_, _, _, _), Declarations(_, _, _, _)

Named(x) == [x |-> x, n |-> 0, how |-> ""]
Fresh(x, n) == [x |-> x, n |-> n, how |-> ""]

Failed(s) == [s EXCEPT !.ok = FALSE]
Then(s, f(_)) == IF s.ok THEN f(s) ELSE s
Kind(s) == s.tokens[s.at].kind
Text(s) == s.tokens[s.at].text
Symbol(s, x) == Kind(s) = "symbol" /\ Text(s) = x
Word(s, x) == Kind(s) = "identifier" /\ Text(s) = x
Followed(s, kind) == s.at < Len(s.tokens) /\ s.tokens[s.at + 1].kind = kind
Spelled(s, i, x) == i <= Len(s.tokens) /\ s.tokens[i].text = x
Skip(s) == [s EXCEPT !.at = @ + 1]
Expect(s, x) == IF Symbol(s, x) THEN Skip(s) ELSE Failed(s)
ExpectWord(s, x) == IF Word(s, x) THEN Skip(s) ELSE Failed(s)

Keywords == {"nil", "true", "return", "local", "if", "else", "while", "do", "break", "continue", "function"}
NameOf(s) == IF Kind(s) # "identifier" \/ Text(s) \in Keywords THEN Failed(s) ELSE Skip([s EXCEPT !.name = Text(s)])

Add(s, k, x, names, parts) ==
  [s EXCEPT !.nodes = Append(@, [k |-> k, x |-> x, names |-> names, parts |-> parts]), !.v = Len(s.nodes) + 1]
Node(s, k, x, parts) == Add(s, k, x, <<>>, parts)
NameNode(s, name) == Add(s, "Name", "", <<name>>, <<>>)
Leaf(s, k) == Skip(Node(s, k, Text(s), <<>>))
At(s, id) == s.nodes[id]
Is(s, id, k) == At(s, id).k = k

\* How tightly an operator binds what is to its left, and to its right.
Assigning == {"=", "+=", "-=", "*=", "/=", "%=", "&=", "|=", "^=", "<<=", ">>=", ">>>="}
Precedence ==
  (("," :> 1) @@ ("??" :> 4) @@ ("||" :> 5) @@ ("&&" :> 6) @@ ("|" :> 7) @@ ("^" :> 8) @@ ("&" :> 9))
  @@ [x \in {"==", "!="} |-> 10] @@ [x \in {"<", ">", "<=", ">="} |-> 11] @@ [x \in {"<<", ">>", ">>>"} |-> 12]
  @@ [x \in {"+", "-"} |-> 13] @@ [x \in {"*", "/", "%"} |-> 14]
binding(x) == IF x \in Assigning THEN <<2, 2>> ELSE <<Precedence[x], Precedence[x] + 1>>

\* What an expression may hold at its top: operators from min on, and perhaps commas.
Sub(min, commas) == [task |-> "Parse", min |-> min, commas |-> commas]
Full == Sub(1, TRUE)
Argument == Sub(2, FALSE)
\* The tasks: an expression, what follows an operand, a statement.
Parse(s, c) == Work(s, c)
Rest(s, c) == Work(s, [c EXCEPT !.task = "Rest"])
Statement(s) == Work(s, [task |-> "Statement"])
Parsed(s, c, f(_)) == Then(Parse(s, c), f)

AddFunction(s, k, name, parameters, body) == Add(s, k, "", <<name>> \o parameters, <<body>>)
\* A function without a name, and the reference that is its value.
AddAnonymous(s, parameters, body) ==
  LET made == AddFunction(s, "Function", Fresh("$callback", Len(s.anonymous) + 1), parameters, body)
  IN  Node([made EXCEPT !.anonymous = Append(@, made.v)], "FunctionReference", "", <<made.v>>)
callback(s, name, value) ==
  LET ret == Node(s, "Return", "", <<value>>) IN AddAnonymous(ret, <<Named(name)>>, ret.v)

\* [for NAME in COLLECTION : VALUE if CONDITION]
Mapped(s, source, method, fn) ==
  LET property == Node(s, "Property", method, <<source>>) IN Node(property, "Call", "", <<property.v, fn>>)
Queried(s, name, collection, value, condition) ==
  LET keep == callback(s, name, condition)
      kept == IF condition = 0 THEN [s EXCEPT !.v = collection] ELSE Mapped(keep, collection, "subset", keep.v)
      map == callback(kept, name, value)
  IN  Mapped(map, kept.v, "mapAll", map.v)
comprehension(s) ==
  Then(NameOf(Skip(s)), LAMBDA name : Then(ExpectWord(name, "in"), LAMBDA in :
  Parsed(in, Argument, LAMBDA collection : Then(Expect(collection, ":"), LAMBDA colon :
  Parsed(colon, Argument, LAMBDA value :
  Then(IF Word(value, "if") THEN Parse(Skip(value), Argument) ELSE [value EXCEPT !.v = 0], LAMBDA condition :
  Then(Expect(condition, "]"), LAMBDA end : Queried(end, name.name, collection.v, value.v, condition.v))))))))

\* The pieces of a string with expressions in it, joined by +; empty text is dropped.
joined_interpolation(s, parts) ==
  LET piece(r, i) ==
        IF i % 2 = 1 THEN [r EXCEPT !.v = parts[i]]
        ELSE LET name == NameNode(r, Named("$valueText")) IN Node(name, "Call", "", <<name.v, parts[i]>>)
      kept == SelectSeq([i \in 1..Len(parts) |-> i], LAMBDA i : i % 2 = 0 \/ At(s, parts[i]).x # "")
      Joined[i \in 1..Len(kept)] ==
        IF i = 1 THEN piece(s, kept[1])
        ELSE CHOOSE r \in {LET right == piece(left, kept[i]) IN Node(right, "Binary", "+", <<left.v, right.v>>) :
                             left \in {Joined[i - 1]}} : TRUE
      joined == Joined[Len(kept)]
  IN  [joined EXCEPT !.interpolated = Append(@, joined.v)]
Interpolation(s, emitting, parts, c) ==
  Parsed(s, Full, LAMBDA e :
  IF Kind(e) \notin {"middle", "last"} THEN Failed(e)
  ELSE LET text == Leaf(e, "String")
           all == parts \o <<e.v, text.v>>
       IN  IF Kind(e) = "middle" THEN Interpolation(text, emitting, all, c)
           ELSE Rest(IF emitting THEN Node(text, "Interpolation", "", all) ELSE joined_interpolation(text, all), c))

\* Expressions up to the closing sign, into vs.
Items(s, items, close) ==
  Parsed(s, Argument, LAMBDA e :
  IF Symbol(e, close) THEN Skip([e EXCEPT !.vs = Append(items, e.v)])
  ELSE Then(Expect(e, ","), LAMBDA more : Items(more, Append(items, e.v), close)))

\* The value of a key, or of the default, and the entries after it.
LookupEntry(s, entries, key, c) ==
  Parsed(s, Argument, LAMBDA value :
  LET all == entries \o <<key, value.v>>
  IN  IF key = 0 /\ \E i \in DOMAIN entries : i % 2 = 1 /\ entries[i] = 0 THEN Failed(value)
      ELSE IF Symbol(value, "]") THEN Rest(Node(Skip(value), "Lookup", "", all), c)
      ELSE Then(Expect(value, ","), LAMBDA more :
           IF Symbol(more, "*") THEN Then(Expect(Skip(more), "->"), LAMBDA to : LookupEntry(to, all, 0, c))
           ELSE Parsed(more, Argument, LAMBDA next :
                Then(Expect(next, "->"), LAMBDA to : LookupEntry(to, all, next.v, c)))))

Bracketed(s, c) ==
  CASE s.lifetimes /\ Word(s, "for") -> Then(comprehension(s), LAMBDA e : Rest(e, c))
    [] Symbol(s, "*") -> Then(Expect(Skip(s), "->"), LAMBDA to : LookupEntry(to, <<>>, 0, c))
    [] Symbol(s, "]") -> Rest(Node(Skip(s), "List", "", <<>>), c)
    [] OTHER ->
         Parsed(s, Argument, LAMBDA first :
         IF Symbol(first, "->") THEN LookupEntry(Skip(first), <<>>, first.v, c)
         ELSE IF Symbol(first, "]") THEN Rest(Node(Skip(first), "List", "", <<first.v>>), c)
         ELSE Then(Expect(first, ","), LAMBDA more :
              Then(Items(more, <<first.v>>, "]"), LAMBDA all : Rest(Node(all, "List", "", all.vs), c))))

\* Which } belongs to which {.
Braces(tokens) ==
  LET Step(m, i) ==
        CASE tokens[i].kind = "symbol" /\ tokens[i].text = "{" -> [m EXCEPT !.opens = Append(@, i)]
          [] tokens[i].kind = "symbol" /\ tokens[i].text = "}" /\ m.opens # <<>> ->
               [opens |-> Front(m.opens), pairs |-> (Last(m.opens) :> i) @@ m.pairs]
          [] OTHER -> m
  IN  FoldLeft(Step, [opens |-> <<>>, pairs |-> <<>>], [i \in 1..Len(tokens) |-> i]).pairs

\* (a, b?, [rest]) or (a, ...)
Formals(s, names, optional) ==
  IF Symbol(s, "...")
  THEN Then(Expect(Skip(s), ")"), LAMBDA e : [e EXCEPT !.vs = Append(names, [Named("$rest") EXCEPT !.how = "rest"])])
  ELSE LET rest == Symbol(s, "[")
       IN  Then(NameOf(IF rest THEN Skip(s) ELSE s), LAMBDA name :
           LET how == IF rest THEN "rest" ELSE IF Symbol(name, "?") THEN "?" ELSE ""
               all == Append(names, [Named(name.name) EXCEPT !.how = how])
               past == IF how = "?" THEN Skip(name) ELSE name
           IN  CASE rest ->
                      Then(Expect(name, "]"), LAMBDA b : Then(Expect(b, ")"), LAMBDA e : [e EXCEPT !.vs = all]))
                 [] how = "" /\ optional -> Failed(name)
                 [] Symbol(past, ")") -> Skip([past EXCEPT !.vs = all])
                 [] OTHER -> Then(Expect(past, ","), LAMBDA more : Formals(more, all, how = "?")))
formal_parameters(s) ==
  Then(Expect(s, "("), LAMBDA open :
  IF Symbol(open, ")") THEN Skip([open EXCEPT !.vs = <<>>]) ELSE Formals(open, <<>>, FALSE))

\* function (...) {...}: the body is parsed after everything else.
AnonymousFunction(s, c) ==
  Then(formal_parameters(s), LAMBDA f :
  IF ~Symbol(f, "{") \/ f.at \notin DOMAIN Braces(f.tokens) THEN Failed(f)
  ELSE LET end == Braces(f.tokens)[f.at] + 1
           body == Node([f EXCEPT !.at = end], "Block", "", <<>>)
           made == AddAnonymous(body, f.vs, body.v)
       IN  Rest([made EXCEPT !.deferred = Append(@, <<At(made, made.v).parts[1], f.at, end>>)], c))

\* { a, b: EXPRESSION }
Parameters(s, names) ==
  IF names = <<>> /\ Symbol(s, ":") THEN Skip([s EXCEPT !.vs = <<>>])
  ELSE Then(NameOf(s), LAMBDA name :
       LET all == Append(names, Named(name.name))
       IN  IF Symbol(name, ":") THEN Skip([name EXCEPT !.vs = all])
           ELSE Then(Expect(name, ","), LAMBDA more : Parameters(more, all)))
Emits(s, id) == At(s, id).k \in {"Emitted", "Interpolation"}
ThenReturns(s, id) ==
  LET ret == Node(s, "Return", "", <<0>>) IN Node(ret, "Block", "", <<id, ret.v>>)
Body(s, value) ==
  IF Emits(s, value) THEN LET run == Node(s, "Expression", "", <<value>>) IN ThenReturns(run, run.v)
  ELSE Node(s, "Return", "", <<value>>)
ShortFunction(s, c) ==
  Then(Parameters(s, <<>>), LAMBDA p : Parsed(p, Full, LAMBDA e : Then(Expect(e, "}"), LAMBDA end :
  LET body == Body(end, e.v) IN Rest(AddAnonymous(body, p.vs, body.v), c))))

\* A prototype by its name, and the arguments it is constructed with, in vs.
Constructed(s, id) ==
  IF Is(s, id, "Name") THEN [s EXCEPT !.vs = <<id>>]
  ELSE IF Is(s, id, "Call") /\ Is(s, At(s, id).parts[1], "Name") THEN [s EXCEPT !.vs = At(s, id).parts]
  ELSE Failed(s)
New(s, c) ==
  IF ~Word(s, "published") /\ ~s.lifetimes THEN Failed(s)
  ELSE Parsed(IF Word(s, "published") THEN Skip(s) ELSE s, Sub(15, FALSE), LAMBDA e :
       Then(Constructed(e, e.v), LAMBDA made : Rest(Node(made, "PublishedConstruction", "", made.vs), c)))

PrefixSigns == {"+", "-", "!", "~", "++", "--"}
LiteralKinds == [integer |-> "Integer", number |-> "Decimal", quoted |-> "String", emitted |-> "Emitted"]
Identifier(s) ==
  IF Text(s) \in {"nil", "true"} THEN Leaf(s, Text(s))
  ELSE Then(NameOf(s), LAMBDA name :
       IF name.name = "inherited" /\ Kind(name) = "identifier"
       THEN Then(NameOf(name), LAMBDA of : Node(of, "QualifiedInherited", of.name, <<>>))
       ELSE IF name.name = "delegated" /\ Kind(name) = "identifier"
       THEN Then(NameOf(name), LAMBDA to : LET target == NameNode(to, Named(to.name))
                                           IN  Node(target, "Delegated", "", <<target.v>>))
       ELSE NameNode(name, Named(name.name)))

(* The task Parse: an operand, and what follows it as far as c goes.       *)
ParseTask(s, c) ==
  CASE Kind(s) \in {"head", "emittedhead"} ->
         LET text == Leaf(s, "String") IN Interpolation(text, Kind(s) = "emittedhead", <<text.v>>, c)
    [] Symbol(s, "[") -> Bracketed(Skip(s), c)
    [] Word(s, "function") -> AnonymousFunction(Skip(s), c)
    [] Symbol(s, "{") -> ShortFunction(Skip(s), c)
    [] Word(s, "new") -> New(Skip(s), c)
    [] Symbol(s, "(") ->
         Parsed(Skip(s), Full, LAMBDA e : Then(Expect(e, ")"), LAMBDA end : Rest(Node(end, "Group", "", <<e.v>>), c)))
    [] Symbol(s, "&") -> Then(NameOf(Skip(s)), LAMBDA e : Rest(Node(e, "PropertyAddress", e.name, <<>>), c))
    [] Kind(s) = "symbol" /\ Text(s) \in PrefixSigns ->
         Parsed(Skip(s), Sub(15, c.commas), LAMBDA e : Rest(Node(e, "Prefix", Text(s), <<e.v>>), c))
    [] Kind(s) = "identifier" -> Then(Identifier(s), LAMBDA e : Rest(e, c))
    [] Kind(s) \in DOMAIN LiteralKinds -> Rest(Leaf(s, LiteralKinds[Kind(s)]), c)
    [] OTHER -> Failed(s)

Building(s, callee) ==
  \/ /\ Is(s, callee, "Name")
     /\ At(s, callee).names[1].x \in {"toString", "rexReplace"}
  \/ /\ Is(s, callee, "Property")
     /\ At(s, callee).x \in {"substr", "toString", "rexReplace"}
note_text_builder(s, callee) == IF Building(s, callee) THEN [s EXCEPT !.builders = @ + 1] ELSE s

\* f(a, b), f(a, list..., b): arguments before an expanded one, then those after it.
TailArguments(s, callee, items, c) ==
  Parsed(s, Argument, LAMBDA e :
  IF Symbol(e, "...") THEN Failed(e)
  ELSE LET all == Append(items, e.v)
       IN  IF Symbol(e, ",") THEN TailArguments(Skip(e), callee, all, c)
           ELSE Then(Expect(e, ")"), LAMBDA end :
                LET pack == Node(end, "ArgumentPackTail", "", all) IN Rest(Node(pack, "Apply", "", <<callee, pack.v>>), c)))
Arguments(s, callee, items, c) ==
  Parsed(s, Argument, LAMBDA e :
  LET all == Append(items, e.v)
  IN  IF Symbol(e, "...")
      THEN LET pack == IF items = <<>> THEN Skip(e) ELSE Node(Skip(e), "ArgumentPack", "", all)
           IN  IF Symbol(pack, ",") THEN TailArguments(Skip(pack), callee, <<pack.v>>, c)
               ELSE Then(Expect(pack, ")"), LAMBDA end : Rest(Node(end, "Apply", "", <<callee, pack.v>>), c))
      ELSE IF Symbol(e, ",") THEN Arguments(Skip(e), callee, all, c)
      ELSE Then(Expect(e, ")"), LAMBDA end :
           Rest(note_text_builder(Node(end, "Call", "", <<callee>> \o all), callee), c)))

Member(s, left, c) ==
  LET negated == Word(s, "not")
  IN  Then(ExpectWord(Skip(s), "in"), LAMBDA in : Then(Expect(in, "("), LAMBDA open :
      Then(Items(open, <<>>, ")"), LAMBDA all :
      Rest(Node(all, "Membership", IF negated THEN "not" ELSE "is", <<left>> \o all.vs), c))))
Choice(s, left, c) ==
  Parsed(s, Sub(IF c.commas THEN 1 ELSE 2, c.commas), LAMBDA yes : Then(Expect(yes, ":"), LAMBDA colon :
  Parsed(colon, Sub(2, c.commas), LAMBDA no : Rest(Node(no, "Conditional", "", <<left, yes.v, no.v>>), c))))
Property(s, left, c) ==
  IF Symbol(s, "(")
  THEN Parsed(Skip(s), Full, LAMBDA key :
       Then(Expect(key, ")"), LAMBDA end : Rest(Node(end, "IndirectProperty", "", <<left, key.v>>), c)))
  ELSE Then(NameOf(s), LAMBDA name : Rest(Node(name, "Property", name.name, <<left>>), c))
(* Slip: an operator of the same precedence goes to the right.            *)
InfixLoose(s, c) ==
  /\ Kind(s) = "symbol" /\ Text(s) \in Assigning \cup DOMAIN Precedence
  /\ binding(Text(s))[1] + 1 >= c.min
  /\ c.commas \/ Text(s) # ","
Infix(s, c) ==
  /\ Kind(s) = "symbol" /\ Text(s) \in Assigning \cup DOMAIN Precedence
  /\ binding(Text(s))[1] >= c.min
  /\ c.commas \/ Text(s) # ","

(* The task Rest: what may follow the operand in s.v.                      *)
RestTask(s, c) ==
  LET left == s.v
  IN  CASE Symbol(s, "[") ->
             Parsed(Skip(s), Full, LAMBDA e : Then(Expect(e, "]"), LAMBDA end : Rest(Node(end, "Index", "", <<left, e.v>>), c)))
        [] Symbol(s, ".") -> Property(Skip(s), left, c)
        [] Symbol(s, "(") ->
             IF Symbol(Skip(s), ")") THEN Rest(Node(Skip(Skip(s)), "Call", "", <<left>>), c)
             ELSE Arguments(Skip(s), left, <<>>, c)
        [] Symbol(s, "++") \/ Symbol(s, "--") -> Rest(Node(Skip(s), "Postfix", Text(s), <<left>>), c)
        [] c.min <= 10 /\ (Word(s, "is") \/ Word(s, "not")) -> Member(s, left, c)
        [] Symbol(s, "?") /\ c.min <= 3 -> Choice(Skip(s), left, c)
        [] Infix(s, c) ->
             Parsed(Skip(s), Sub(binding(Text(s))[2], c.commas), LAMBDA right :
             Rest(Node(right, "Binary", Text(s), <<left, right.v>>), c))
        [] OTHER -> s

\* [local] NAME in COLLECTION): the loop's own variable, its collection and, in
\* vs, the assignment to a variable that is not its own.
foreach_header(s) ==
  LET local == Word(s, "local")
  IN  Then(NameOf(IF local THEN Skip(s) ELSE s), LAMBDA name :
      LET variable == IF local THEN Named(name.name) ELSE Fresh("$foreach", Len(s.nodes) + 1)
          target == NameNode(name, Named(name.name))
          source == NameNode(target, variable)
          assign == Node(source, "Binary", "=", <<target.v, source.v>>)
          assigned == Node(assign, "Expression", "", <<assign.v>>)
          ready == IF local THEN [name EXCEPT !.vs = <<>>] ELSE [assigned EXCEPT !.vs = <<assigned.v>>]
      IN  Then(ExpectWord(ready, "in"), LAMBDA in : Parsed(in, Full, LAMBDA e : Then(Expect(e, ")"), LAMBDA end :
          LET declared == Add(end, "Local", "", <<variable>>, <<0>>)
          IN  [declared EXCEPT !.vs = <<declared.v, e.v>> \o ready.vs]))))

\* Does a loop over a collection follow: no range, comma or semicolon before its )?
for_in_collection(s) ==
  LET first == IF Word(s, "local") THEN s.at + 1 ELSE s.at
      After(i, d) == s.tokens[i].kind = "symbol" /\ s.tokens[i].text \in d
      Depth[i \in first..Len(s.tokens)] ==
        IF i <= first + 1 THEN 0
        ELSE Depth[i - 1] + (IF After(i, {"(", "[", "{"}) THEN 1 ELSE IF After(i, {")", "]", "}"}) THEN -1 ELSE 0)
      Ends(i) == Depth[i] < 0 \/ (Depth[i] = 0 /\ After(i, {"..", ",", ";"}))
  IN  /\ s.tokens[first].kind = "identifier" /\ Spelled(s, first + 1, "in") /\ s.tokens[first + 1].kind = "identifier"
      /\ \E i \in first + 2..Len(s.tokens) : Depth[i] < 0 /\ \A j \in first + 2..(i - 1) : ~Ends(j)

\* NAME in FROM .. TO step BY: what is done first into init, the condition and
\* the update into vs.
Saved(s, label, value) ==
  LET name == Fresh(label, Len(s.nodes) + 1)
      declared == Add(s, "Local", "", <<name>>, <<value>>)
  IN  [NameNode(declared, name) EXCEPT !.vs = <<declared.v, Len(declared.nodes) + 1>>]
Ranged(s, name, local, from, to, by) ==
  LET target == NameNode(s, name)
      assign == Node(target, "Binary", "=", <<target.v, from>>)
      first == IF local THEN Add(target, "Local", "", <<name>>, <<from>>) ELSE Node(assign, "Expression", "", <<assign.v>>)
      end == Saved(first, "$end", to)
      step == Saved(end, "$step", by)
      zero == Node(step, "Integer", "0", <<>>)
      descending == Node(zero, "Binary", "<", <<step.v, zero.v>>)
      down == Node(descending, "Binary", ">=", <<target.v, end.v>>)
      up == Node(down, "Binary", "<=", <<target.v, end.v>>)
      condition == Node(up, "Conditional", "", <<descending.v, down.v, up.v>>)
      update == Node(condition, "Binary", "+=", <<target.v, step.v>>)
  IN  [update EXCEPT !.vs = <<<<first.v, end.vs[1], step.vs[1]>>, condition.v, update.v>>]
range_initializer(s, name, local) ==
  Parsed(s, Argument, LAMBDA from : Then(Expect(from, ".."), LAMBDA dots : Parsed(dots, Argument, LAMBDA to :
  Then(IF Word(to, "step") THEN Parse(Skip(to), Argument) ELSE Node(to, "Integer", "1", <<>>), LAMBDA by :
  Ranged(by, name, local, from.v, to.v, by.v)))))

\* The initializers of a for, up to ; or ), with the conditions and updates of its ranges.
Joined(s, sign, items) ==
  IF items = <<>> THEN [s EXCEPT !.v = 0]
  ELSE FoldLeft(LAMBDA r, e : Node(r, "Binary", sign, <<r.v, e>>), [s EXCEPT !.v = items[1]], Tail(items))
OneInitializer(s) ==
  LET local == Word(s, "local")
      at == IF local THEN Skip(s) ELSE s
  IN  IF Kind(at) = "identifier" /\ Spelled(at, at.at + 1, "in")
      THEN Then(NameOf(at), LAMBDA name : range_initializer(Skip(name), Named(name.name), local))
      ELSE IF local
      THEN Then(NameOf(at), LAMBDA name : Then(Expect(name, "="), LAMBDA is : Parsed(is, Argument, LAMBDA e :
           LET made == Add(e, "Local", "", <<Named(name.name)>>, <<e.v>>) IN [made EXCEPT !.vs = <<<<made.v>>>>])))
      ELSE Parsed(at, Argument, LAMBDA e :
           LET made == Node(e, "Expression", "", <<e.v>>) IN [made EXCEPT !.vs = <<<<made.v>>>>])
\* ... : condition ; step ) and the body.
ForRest(s, init, conditions, updates) ==
  LET absent == [s EXCEPT !.v = 0, !.vs = <<0>>]
      Explicit ==
        Then(Expect(s, ";"), LAMBDA a : Then(IF Symbol(a, ";") THEN [a EXCEPT !.v = 0] ELSE Parse(a, Full), LAMBDA condition :
        Then(Expect(condition, ";"), LAMBDA b : Then(IF Symbol(b, ")") THEN [b EXCEPT !.v = 0] ELSE Parse(b, Full), LAMBDA step :
        [step EXCEPT !.vs = <<condition.v>>]))))
      some(id) == IF id = 0 THEN <<>> ELSE <<id>>
  IN  Then(IF conditions # <<>> /\ Symbol(s, ")") THEN absent ELSE Explicit, LAMBDA header :
      Then(Expect(header, ")"), LAMBDA closed :
      LET condition == Joined(closed, "&&", conditions \o some(header.vs[1]))
          step == Joined(condition, ",", some(header.v) \o updates)
      IN  Then(Statement(step), LAMBDA body : Node(body, "For", "", <<condition.v, step.v, body.v>> \o init))))
ForFrom(s, init, conditions, updates) ==
  IF Symbol(s, ";") \/ Symbol(s, ")") THEN ForRest(s, init, conditions, updates)
  ELSE Then(OneInitializer(s), LAMBDA e :
       LET range == Len(e.vs) = 3
           all == init \o e.vs[1]
           cs == IF range THEN Append(conditions, e.vs[2]) ELSE conditions
           us == IF range THEN Append(updates, e.vs[3]) ELSE updates
       IN  IF ~Symbol(e, ",") THEN ForRest(e, all, cs, us)
           ELSE IF Symbol(Skip(e), ";") \/ Symbol(Skip(e), ")") THEN Failed(e)
           ELSE ForFrom(Skip(e), all, cs, us))
Foreach(s) ==
  Then(foreach_header(s), LAMBDA h : Then(Statement(h), LAMBDA body :
  LET whole == IF Len(h.vs) = 3 THEN Node(body, "Block", "", <<h.vs[3], body.v>>) ELSE body
  IN  Node(whole, "ForEach", "", <<h.vs[1], h.vs[2], whole.v>>)))

\* case E: and default: start arms; a statement goes to the last one.
SwitchFrom(s, selector, arms, parts) ==
  LET Arm(how) == Append(arms, [x |-> how, n |-> 0, how |-> ""])
  IN  CASE Symbol(s, "}") -> Add(Skip(s), "Switch", "", arms, <<selector>> \o parts)
        [] Word(s, "case") ->
             Parsed(Skip(s), Argument, LAMBDA e : Then(Expect(e, ":"), LAMBDA colon :
             SwitchFrom(colon, selector, Arm("case"), Append(parts, e.v))))
        [] Word(s, "default") ->
             IF \E i \in DOMAIN arms : arms[i].x = "default" THEN Failed(s)
             ELSE Then(Expect(Skip(s), ":"), LAMBDA colon : SwitchFrom(colon, selector, Arm("default"), parts))
        [] OTHER ->
             IF arms = <<>> \/ Kind(s) = "end" THEN Failed(s)
             ELSE Then(Statement(s), LAMBDA e :
                  SwitchFrom(e, selector, [arms EXCEPT ![Len(arms)].n = @ + 1], Append(parts, e.v)))

\* catch (CLASS NAME) ..., then finally ...
TryFrom(s, catches) ==
  LET body == catches[1]
      Caught(r) == IF Len(catches) = 1 THEN [r EXCEPT !.v = body] ELSE Node(r, "Try", "", catches)
  IN  IF Word(s, "catch")
      THEN Then(Expect(Skip(s), "("), LAMBDA open : Then(NameOf(open), LAMBDA class :
           LET type == NameNode(class, Named(class.name))
           IN  Then(NameOf(type), LAMBDA name : Then(Expect(name, ")"), LAMBDA end :
               LET declared == Add(end, "Local", "", <<Named(end.name)>>, <<0>>)
               IN  Then(Statement(declared), LAMBDA e : TryFrom(e, catches \o <<type.v, declared.v, e.v>>))))))
      ELSE IF Word(s, "finally")
      THEN LET protected == Caught(Skip(s))
           IN  Then(Statement(protected), LAMBDA e : Node(e, "Finally", "", <<protected.v, e.v>>))
      ELSE IF Len(catches) = 1 THEN Failed(s) ELSE Caught(s)

Throw(s) ==
  Then(IF ~Word(s, "new") THEN Parse(s, Full)
       ELSE LET published == Word(Skip(s), "published")
            IN  Parsed(IF published THEN Skip(Skip(s)) ELSE Skip(s), Sub(15, FALSE), LAMBDA e :
                Then(Constructed(e, e.v), LAMBDA made :
                Node(made, IF published THEN "PublishedConstruction" ELSE "ExceptionConstruction", "", made.vs))),
       LAMBDA e : Then(Expect(e, ";"), LAMBDA end : Node(end, "Throw", "", <<e.v>>)))
Return(s) ==
  IF Symbol(s, ";") THEN Node(Skip(s), "Return", "", <<0>>)
  ELSE Parsed(IF Word(s, "move") THEN Skip(s) ELSE s, Full, LAMBDA e :
       LET moved == IF Word(s, "move") THEN Node(e, "Move", "", <<e.v>>) ELSE e
       IN  Then(Expect(moved, ";"), LAMBDA end : Node(end, "Return", "", <<moved.v>>)))

\* OwnedCollection(), StringBuffer(), LookupTable(...), Vector(...); v is 0 where none is named.
intrinsic_collection(s) ==
  CASE Word(s, "OwnedCollection") \/ Word(s, "StringBuffer") ->
         Then(Expect(Skip(s), "("), LAMBDA open : Then(Expect(open, ")"), LAMBDA end :
         Node(end, IF Word(s, "StringBuffer") THEN "LocalStringBuffer" ELSE "LocalOwnedCollection", "", <<>>)))
    [] Word(s, "LookupTable") ->
         Then(Expect(Skip(s), "("), LAMBDA open :
         IF Symbol(open, ")") THEN Node(Skip(open), "Lookup", "", <<>>)
         ELSE Parsed(open, Argument, LAMBDA buckets : Then(Expect(buckets, ","), LAMBDA comma :
              Parsed(comma, Argument, LAMBDA capacity : Then(Expect(capacity, ")"), LAMBDA end :
              Node(end, "LocalLookupSized", "", <<buckets.v, capacity.v>>))))))
    [] Word(s, "Vector") ->
         Then(Expect(Skip(s), "("), LAMBDA open : Parsed(open, Argument, LAMBDA capacity :
         Then(Expect(capacity, ")"), LAMBDA end : Node(end, "LocalVector", "", <<capacity.v>>))))
    [] OTHER -> [s EXCEPT !.v = 0]
OwnedConstruction(s) ==
  Parsed(s, Sub(15, FALSE), LAMBDA e :
  IF Is(e, e.v, "Apply") /\ Is(e, At(e, e.v).parts[1], "Name")
  THEN LET expanded == Node(e, "ExpandedArgument", "", <<At(e, e.v).parts[2]>>)
       IN  Node(expanded, "LocalConstruction", "", <<At(e, e.v).parts[1], expanded.v>>)
  ELSE Then(Constructed(e, e.v), LAMBDA made : Node(made, "LocalConstruction", "", made.vs)))
Owned(s) ==
  IF ~Word(s, "new")
  THEN Parsed(s, Argument, LAMBDA e : IF Is(e, e.v, "Lookup") THEN e ELSE Node(e, "OwnedCall", "", <<e.v>>))
  ELSE Then(intrinsic_collection(Skip(s)), LAMBDA made : IF made.v = 0 THEN OwnedConstruction(made) ELSE made)
Plain(s) ==
  LET intrinsic == IF s.lifetimes /\ Word(s, "new") THEN intrinsic_collection(Skip(s)) ELSE [s EXCEPT !.v = 0]
  IN  Then(intrinsic, LAMBDA made : IF made.v = 0 THEN Parse(s, Argument) ELSE made)
Declarations(s, owned, names, values) ==
  Then(NameOf(s), LAMBDA name :
  Then(IF owned THEN Then(Expect(name, "="), LAMBDA is : Owned(is))
       ELSE IF Symbol(name, "=") THEN Plain(Skip(name)) ELSE [name EXCEPT !.v = 0], LAMBDA e :
  LET all == Append(names, Named(name.name))
      inits == Append(values, e.v)
  IN  IF Symbol(e, ",") THEN Declarations(Skip(e), owned, all, inits)
      ELSE Then(Expect(e, ";"), LAMBDA end : Add(end, IF owned THEN "OwnedLocal" ELSE "Local", "", all, inits))))
Local(s) ==
  IF Word(s, "owned") /\ Followed(s, "identifier") THEN Declarations(Skip(s), TRUE, <<>>, <<>>)
  ELSE Declarations(s, FALSE, <<>>, <<>>)

\* A block has a scope of its own when it owns something: began is what was counted at its {.
(* Slip: functions made before the block count as its own.                 *)
OwningAll(s, began, items) ==
  /\ ~s.lifetimes
  /\ \/ Len(s.anonymous) > 0 \/ s.builders > began[2]
     \/ \E i \in DOMAIN items : Is(s, items[i], "OwnedLocal")
Owning(s, began, items) ==
  /\ ~s.lifetimes
  /\ \/ Len(s.anonymous) > began[1] \/ s.builders > began[2]
     \/ \E i \in DOMAIN items : Is(s, items[i], "OwnedLocal")
BlockFrom(s, began, items) ==
  IF Symbol(s, "}")
  THEN LET block == Node(Skip(s), "Block", "", items)
       IN  IF Owning(s, began, items) THEN Node(block, "OwnerScope", "", <<block.v>>) ELSE block
  ELSE IF Kind(s) = "end" THEN Failed(s)
  ELSE Then(Statement(s), LAMBDA e : BlockFrom(e, began, Append(items, e.v)))

Condition(s, f(_)) ==
  Then(Expect(s, "("), LAMBDA open : Parsed(open, Full, LAMBDA e : Then(Expect(e, ")"), f)))
If(s) ==
  Condition(s, LAMBDA c : Then(Statement(c), LAMBDA yes :
  IF Word(yes, "else") THEN Then(Statement(Skip(yes)), LAMBDA no : Node(no, "If", "", <<c.v, yes.v, no.v>>))
  ELSE Node(yes, "If", "", <<c.v, yes.v, 0>>)))
DoWhile(s) ==
  Then(Statement(s), LAMBDA body : Then(ExpectWord(body, "while"), LAMBDA while :
  Condition(while, LAMBDA c : Then(Expect(c, ";"), LAMBDA end : Node(end, "DoWhile", "", <<c.v, body.v>>)))))
\* break; continue; with a label, perhaps, and goto with one.
Jump(s, k, named) ==
  LET name == IF Kind(s) = "identifier" THEN NameOf(s) ELSE [s EXCEPT !.name = ""]
  IN  Then(name, LAMBDA n : Then(Expect(n, ";"), LAMBDA end :
      IF n.name = "" THEN Node(end, k, "", <<>>) ELSE Node(end, named, n.name, <<>>)))

(* The task Parse of a statement, and the tasks that finish it.            *)
StatementTask(s) ==
  CASE Kind(s) = "identifier" /\ Followed(s, "symbol") /\ Spelled(s, s.at + 1, ":") ->
         Then(NameOf(s), LAMBDA name : Then(Statement(Skip(name)), LAMBDA body : Node(body, "Label", Text(s), <<body.v>>)))
    [] Symbol(s, "{") -> BlockFrom(Skip(s), <<Len(s.anonymous), s.builders>>, <<>>)
    [] Symbol(s, ";") -> Node(Skip(s), "Empty", "", <<>>)
    [] Word(s, "if") -> If(Skip(s))
    [] Word(s, "while") ->
         Condition(Skip(s), LAMBDA c : Then(Statement(c), LAMBDA body : Node(body, "While", "", <<c.v, body.v>>)))
    [] Word(s, "do") -> DoWhile(Skip(s))
    [] Word(s, "foreach") -> Then(Expect(Skip(s), "("), LAMBDA open : Foreach(open))
    [] Word(s, "for") ->
         Then(Expect(Skip(s), "("), LAMBDA open :
         IF for_in_collection(open) THEN Foreach(open) ELSE ForFrom(open, <<>>, <<>>, <<>>))
    [] Word(s, "switch") ->
         Condition(Skip(s), LAMBDA c : Then(Expect(c, "{"), LAMBDA open : SwitchFrom(open, c.v, <<>>, <<>>)))
    [] Word(s, "try") -> Then(Statement(Skip(s)), LAMBDA body : TryFrom(body, <<body.v>>))
    [] Word(s, "throw") -> Throw(Skip(s))
    [] Word(s, "return") -> Return(Skip(s))
    [] Word(s, "local") -> Local(Skip(s))
    [] Word(s, "break") -> Jump(Skip(s), "Break", "NamedBreak")
    [] Word(s, "continue") -> Jump(Skip(s), "Continue", "NamedContinue")
    [] Word(s, "goto") ->
         Then(NameOf(Skip(s)), LAMBDA n : Then(Expect(n, ";"), LAMBDA end : Node(end, "Goto", n.name, <<>>)))
    [] OTHER -> Parsed(s, Full, LAMBDA e : Then(Expect(e, ";"), LAMBDA end : Node(end, "Expression", "", <<e.v>>)))

Work(s, c) ==
  CASE c.task = "Parse" -> ParseTask(s, c)
    [] c.task = "Rest" -> RestTask(s, c)
    [] c.task = "Statement" -> StatementTask(s)

\* The bodies of functions without names, each where its { is, and perhaps more of them.
RECURSIVE Deferred(_, _)
Deferred(s, next) ==
  IF next > Len(s.deferred) THEN s
  ELSE LET body == s.deferred[next]
       IN  Then(Statement([s EXCEPT !.at = body[2]]), LAMBDA e :
           IF e.at # body[3] THEN Failed(e)
           ELSE LET done == ThenReturns(e, e.v)
                IN  Deferred([done EXCEPT !.nodes[body[1]].parts = <<done.v>>], next + 1))

Started(tokens, lifetimes) ==
  [tokens |-> Append(tokens, [kind |-> "end", text |-> ""]), at |-> 1, nodes |-> <<>>, v |-> 0, vs |-> <<>>, name |-> "",
   ok |-> TRUE, lifetimes |-> lifetimes, anonymous |-> <<>>, builders |-> 0, deferred |-> <<>>, interpolated |-> <<>>]

\* Everything parsed, and the bodies that were put off.
Completed(s) ==
  Then(s, LAMBDA e :
  IF Kind(e) # "end" THEN Failed(e)
  ELSE Then(Deferred(e, 1), LAMBDA done : [done EXCEPT !.v = e.v]))

(***************************************************************************)
(* syntax_order.rs: the nodes again, each after its parts.                 *)
(***************************************************************************)
Parts(nodes, id) == SelectSeq(nodes[id].parts, LAMBDA p : p # 0)
RECURSIVE Visit(_, _, _)
\* w has the stack of work, which nodes are begun or done, and the order.
Visit(nodes, w, next) ==
  IF ~w.ok \/ (w.stack = <<>> /\ next > Len(nodes)) THEN w
  ELSE IF w.stack = <<>> THEN Visit(nodes, [w EXCEPT !.stack = <<<<next, FALSE>>>>], next + 1)
  ELSE LET id == Last(w.stack)[1]
           after == Last(w.stack)[2]
           popped == [w EXCEPT !.stack = Front(@)]
       IN  CASE w.states[id] = "done" -> Visit(nodes, popped, next)
             [] w.states[id] # "done" /\ after ->
                  Visit(nodes, [popped EXCEPT !.states[id] = "done", !.order = Append(@, id)], next)
             [] w.states[id] = "begun" /\ ~after -> [w EXCEPT !.ok = FALSE]
             [] OTHER ->
                  LET parts == Parts(nodes, id)
                  IN  Visit(nodes, [popped EXCEPT !.states[id] = "begun",
                                    !.stack = @ \o <<<<id, TRUE>>>> \o [i \in DOMAIN parts |-> <<parts[i], FALSE>>]], next)
remap(node, mapping) == [node EXCEPT !.parts = [i \in DOMAIN @ |-> IF @[i] = 0 THEN 0 ELSE mapping[@[i]]]]
restore(s) ==
  LET w == Visit(s.nodes, [stack |-> <<>>, states |-> [i \in DOMAIN s.nodes |-> "new"], order |-> <<>>, ok |-> TRUE], 1)
      mapping == [i \in DOMAIN s.nodes |-> CHOOSE n \in DOMAIN w.order : w.order[n] = i]
  IN  IF ~w.ok THEN Failed(s)
      ELSE [s EXCEPT !.nodes = [n \in DOMAIN w.order |-> remap(s.nodes[w.order[n]], mapping)],
                     !.v = mapping[@], !.anonymous = [i \in DOMAIN @ |-> mapping[@[i]]]]
finished(s) == Then(Completed(s), LAMBDA done : IF done.deferred # <<>> THEN restore(done) ELSE done)
=============================================================================
