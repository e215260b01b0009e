---------------------------- MODULE GrammarRules ----------------------------
(***************************************************************************)
(* Grammar rules of a source program (grammar_syntax.rs, the compiler's    *)
(* grammar.rs): the items of a rule, the flat rules that groups are        *)
(* lowered to, and the terms of the tables the runtime reads.              *)
(*                                                                         *)
(* A token is <<kind, value>>: punctuation, a name, a quoted word or the   *)
(* number of a badness annotation.  A program declares what a symbol that  *)
(* is no production can be: a token enumerator, a part of speech, or a     *)
(* vocabulary relation, with a label or without.                           *)
(***************************************************************************)
EXTENDS Integers, Sequences, FiniteSets
LOCAL INSTANCE SequencesExt

\* f of x, with x worked out first.
After(x, f(_)) == CHOOSE y \in {f(z) : z \in {x}} : TRUE

None == <<"none", "">>
Refused == [refused |-> TRUE]

(***************************************************************************)
(* grammar_rule: from the colon of a rule to the colon that ends it.       *)
(***************************************************************************)
P(c) == <<"p", c>>

RuleStart == [items |-> <<>>, depth |-> 0, capture_allowed |-> FALSE, at |-> 1, refused |-> FALSE, done |-> FALSE]

Item(r, item, allowed, n) ==
  [r EXCEPT !.items = Append(@, item), !.capture_allowed = allowed, !.at = @ + n]

RuleStep(tokens, r) ==
  LET t == tokens[r.at]
      following == IF r.at < Len(tokens) THEN tokens[r.at + 1] ELSE None
      refuse == [r EXCEPT !.refused = TRUE]
  IN CASE t = P(":") -> IF r.depth # 0 THEN refuse ELSE [r EXCEPT !.done = TRUE]
       [] t = P("(") -> [Item(r, <<"open", "">>, FALSE, 1) EXCEPT !.depth = @ + 1]
       [] t = P(")") -> IF r.depth = 0 THEN refuse ELSE [Item(r, <<"close", "">>, FALSE, 1) EXCEPT !.depth = @ - 1]
       [] t = P("|") -> Item(r, <<"alternative", "">>, FALSE, 1)
       [] t = P("->") -> IF ~r.capture_allowed \/ following[1] # "name" THEN refuse
                         ELSE Item(r, <<"capture", following[2]>>, FALSE, 2)
       [] t[1] = "badness" -> Item(r, t, FALSE, 1)
       [] t = P("*") -> Item(r, <<"wildcard", "">>, TRUE, 1)
       [] t[1] = "word" -> Item(r, <<"literal", t[2]>>, TRUE, 1)
       [] t[1] = "name" ->
            IF following = P(".") THEN Item(r, <<"symbol", t[2], tokens[r.at + 2][2]>>, TRUE, 3)
            ELSE Item(r, <<"symbol", t[2], "">>, TRUE, 1)
       [] OTHER -> refuse

grammar_rule(tokens) ==
  LET from[n \in 0..Len(tokens)] ==
        IF n = 0 THEN RuleStart
        ELSE After(from[n - 1], LAMBDA r :
               IF r.refused \/ r.done \/ r.at > Len(tokens) THEN r ELSE RuleStep(tokens, r))
  IN After(from[Len(tokens)], LAMBDA r : IF r.done THEN r ELSE [r EXCEPT !.refused = TRUE])

(***************************************************************************)
(* lower: a production for every name and every group, in that order, and  *)
(* flat rules in the order they end.                                       *)
(***************************************************************************)
Rule(production, match_name) ==
  [production |-> production, elements |-> <<>>, match_name |-> match_name, badness |-> 0]

Top(g) == g.stack[Len(g.stack)]
WithTop(g, rule) == [g EXCEPT !.stack[Len(g.stack)] = rule]
AddElement(rule, term) == [rule EXCEPT !.elements = Append(@, [term |-> term, capture |-> ""])]

\* The names in the order they are declared.
Names(declarations) ==
  FoldLeft(LAMBDA names, d : IF Contains(names, d.production) THEN names ELSE Append(names, d.production),
           <<>>, declarations)

Open(g) ==
  LET id == g.productions + 1
  IN [WithTop(g, AddElement(Top(g), <<"production", id>>)) EXCEPT
        !.productions = id, !.stack = Append(@, Rule(id, ""))]

Close(g) ==
  IF Len(g.stack) <= 1 THEN [g EXCEPT !.refused = TRUE]
  ELSE [g EXCEPT !.rules = Append(@, Top(g)), !.stack = Front(@)]

\* Slip: the next alternative keeps what the last one has.
AlternativeKept(g) ==
  [g EXCEPT !.rules = Append(@, Top(g))]

Alternative(g) ==
  [WithTop(g, Rule(Top(g).production, Top(g).match_name)) EXCEPT !.rules = Append(@, Top(g))]

Badness(g, value) ==
  IF Len(g.stack) # 1 \/ Top(g).elements # <<>> THEN [g EXCEPT !.refused = TRUE]
  ELSE WithTop(g, [Top(g) EXCEPT !.badness = value])

Capture(g, property) ==
  LET elements == Top(g).elements
  IN IF elements = <<>> \/ elements[Len(elements)].capture # "" THEN [g EXCEPT !.refused = TRUE]
     ELSE WithTop(g, [Top(g) EXCEPT !.elements[Len(elements)].capture = property])

Lowered(names, g, item) ==
  CASE g.refused -> g
    [] item[1] = "open" -> Open(g)
    [] item[1] = "close" -> Close(g)
    [] item[1] = "alternative" -> Alternative(g)
    [] item[1] = "badness" -> Badness(g, item[2])
    [] item[1] = "capture" -> Capture(g, item[2])
    [] item[1] = "symbol" /\ item[3] = "" /\ Contains(names, item[2]) ->
         WithTop(g, AddElement(Top(g), <<"production", IndexFirstSubSeq(<<item[2]>>, names)>>))
    [] OTHER -> WithTop(g, AddElement(Top(g), item))

LowerRule(names, g, d) ==
  IF d.match_name = "" \/ g.refused THEN g
  ELSE After(FoldLeft(LAMBDA h, item : Lowered(names, h, item),
                      [g EXCEPT !.stack = <<Rule(IndexFirstSubSeq(<<d.production>>, names), d.match_name)>>],
                      d.items), LAMBDA h :
         IF h.refused \/ Len(h.stack) # 1 THEN [h EXCEPT !.refused = TRUE]
         ELSE [h EXCEPT !.rules = Append(@, Top(h)), !.stack = <<>>])

lower(declarations) ==
  LET named == SelectSeq(declarations, LAMBDA d : d.match_name # "")
  IN IF \E m, n \in DOMAIN named : m # n /\ named[m].match_name = named[n].match_name
     THEN [refused |-> TRUE, rules |-> <<>>, productions |-> 0]
     ELSE FoldLeft(LAMBDA g, d : LowerRule(Names(declarations), g, d),
                   [rules |-> <<>>, stack |-> <<>>, productions |-> Len(Names(declarations)), refused |-> FALSE],
                   declarations)

(***************************************************************************)
(* rust_data: what a term is at run time.                                  *)
(***************************************************************************)
Emitted(program, term) ==
  CASE term[1] # "symbol" -> term
    [] term[3] = "" /\ term[2] \in program.tokens -> <<"token", term[2]>>
    [] term[3] = "" /\ term[2] \in program.relations -> <<"vocabulary", term[2]>>
    [] term[2] \in program.labelled /\ term[3] \in program.properties -> <<"vocabulary", term[3]>>
    [] term[3] = "" /\ term[2] \in program.vocabulary \ program.labelled -> <<"speech", term[2]>>
    [] OTHER -> None

Tables(program, declarations) ==
  After(lower(declarations), LAMBDA g :
    IF g.refused THEN Refused
    ELSE LET rules == [n \in DOMAIN g.rules |->
                         [g.rules[n] EXCEPT !.elements =
                            [k \in DOMAIN @ |-> [@[k] EXCEPT !.term = Emitted(program, @)]]]]
         IN IF \E n \in DOMAIN rules : \E k \in DOMAIN rules[n].elements :
                 \/ rules[n].elements[k].term = None
                 \/ rules[n].elements[k].capture \notin program.properties \cup {""}
            THEN Refused
            ELSE [refused |-> FALSE, rules |-> rules, productions |-> g.productions])

\* The tables of a program whose rules are still tokens.
Compiled(program, sources) ==
  LET declarations == [n \in DOMAIN sources |->
        [production |-> sources[n].production, match_name |-> sources[n].match_name,
         parsed |-> IF sources[n].match_name = "" THEN RuleStart ELSE grammar_rule(sources[n].tokens)]]
  IN IF \E n \in DOMAIN declarations : declarations[n].parsed.refused THEN Refused
     ELSE Tables(program, [n \in DOMAIN declarations |->
            [production |-> declarations[n].production, match_name |-> declarations[n].match_name,
             items |-> declarations[n].parsed.items]])
=============================================================================
