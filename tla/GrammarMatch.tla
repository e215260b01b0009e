---------------------------- MODULE GrammarMatch ----------------------------
(***************************************************************************)
(* Grammar matching at run time (the runtime's grammar.rs, and the parse   *)
(* request of native_objects.rs): the charts of Earley's algorithm, the    *)
(* match trees they allow, and the match objects made from them.  The      *)
(* limits on states, trees and depth are there; the count of work is not.  *)
(*                                                                         *)
(* A token is its text and its kind; a dictionary is a set of words filed  *)
(* under parts of speech, with what each names.                            *)
(***************************************************************************)
EXTENDS GrammarRules, TLC
LOCAL INSTANCE SequencesExt
LOCAL INSTANCE FiniteSetsExt

RECURSIVE Derive(_, _, _, _), Alternatives(_, _, _, _, _, _), Walk(_, _, _, _), Branches(_, _, _, _, _, _), Visits(_, _, _, _, _)

(***************************************************************************)
(* Which terms a token matches.                                            *)
(***************************************************************************)
Filed(request, word, part) ==
  {e.entity : e \in {d \in request.dictionary : d.word = word /\ d.part = part}}

Matches(request, term, position) ==
  LET token == request.input[position + 1]
  IN CASE term[1] = "literal" -> token.text = term[2]
       [] term[1] = "token" -> token.kind = term[2]
       [] term[1] \in {"speech", "vocabulary"} -> Filed(request, token.text, term[2]) # {}

(***************************************************************************)
(* build_charts: for each position, the rules that may have got so far, in *)
(* the order they were met; a state that waits for a production that is    *)
(* already complete, being empty, goes on at once.                         *)
(***************************************************************************)
State(rule, dot, origin) == [rule |-> rule, dot |-> dot, origin |-> origin]
Advanced(state) == [state EXCEPT !.dot = @ + 1]
Symbol(rules, state) ==
  IF state.dot < Len(rules[state.rule].elements) THEN rules[state.rule].elements[state.dot + 1].term ELSE None

Insert(chart, state) == IF Contains(chart, state) THEN chart ELSE Append(chart, state)
InsertAll(chart, states) == FoldLeft(Insert, chart, states)

Predicted(rules, production, position) ==
  LET starting == SelectSeq([n \in DOMAIN rules |-> n], LAMBDA n : rules[n].production = production)
  IN [n \in DOMAIN starting |-> State(starting[n], 0, position)]

\* Slip: a production that is already complete is not noticed.
PredictLate(rules, charts, state, production, position) ==
  [charts EXCEPT ![position] = InsertAll(@, Predicted(rules, production, position))]

Predict(rules, charts, state, production, position) ==
  LET chart == InsertAll(charts[position], Predicted(rules, production, position))
      done(s) == /\ s.origin = position /\ rules[s.rule].production = production
                 /\ Symbol(rules, s) = None
  IN [charts EXCEPT ![position] =
        IF \E n \in DOMAIN chart : done(chart[n]) THEN Insert(chart, Advanced(state)) ELSE chart]

Complete(rules, charts, state, position) ==
  LET waiting == SelectSeq(charts[state.origin], LAMBDA w :
                   Symbol(rules, w) = <<"production", rules[state.rule].production>>)
  IN [charts EXCEPT ![position] = InsertAll(@, [n \in DOMAIN waiting |-> Advanced(waiting[n])])]

ChartStep(request, rules, charts, position, cursor) ==
  LET state == charts[position][cursor]
      symbol == Symbol(rules, state)
      end == Len(request.input)
  IN CASE symbol = None -> Complete(rules, charts, state, position)
       [] symbol[1] = "production" -> Predict(rules, charts, state, symbol[2], position)
       [] symbol[1] = "wildcard" -> [charts EXCEPT ![end] = Insert(@, Advanced(state))]
       [] OTHER -> IF position < end /\ Matches(request, symbol, position)
                   THEN [charts EXCEPT ![position + 1] = Insert(@, Advanced(state))] ELSE charts

build_charts(request, rules, start) ==
  LET end == Len(request.input)
      first == [n \in 0..end |-> IF n = 0 THEN Predicted(rules, start, 0) ELSE <<>>]
      RECURSIVE Run(_, _, _)
      Run(charts, position, cursor) ==
        IF position > end THEN charts
        ELSE IF cursor > Len(charts[position]) THEN Run(charts, position + 1, 1)
        ELSE After(ChartStep(request, rules, charts, position, cursor), LAMBDA more :
               Run(more, position, cursor + 1))
  IN Run(first, 0, 1)

(***************************************************************************)
(* parse: every match tree, by the rules in order and shorter children     *)
(* first.  d holds the nodes made so far, what was found for each          *)
(* production and span, and whether a limit was met; active are the ones   *)
(* being looked for.                                                       *)
(***************************************************************************)
Limited(request, d) ==
  [d EXCEPT !.limited = @ \/ Len(d.nodes) > request.limits.trees]

Key(production, start, end) == <<production, start, end>>

Derive(m, d, key, active) ==
  IF key \in DOMAIN d.memo \/ key \in active \/ d.limited THEN d
  ELSE IF Cardinality(active) + 1 > m.request.limits.depth THEN [d EXCEPT !.limited = TRUE]
  ELSE After(Alternatives(m, [d EXCEPT !.found = <<>>], key, active \cup {key}, 1, <<>>), LAMBDA e :
         [e EXCEPT !.memo = [k \in DOMAIN @ \cup {key} |-> IF k = key THEN e.found ELSE @[k]]])

Known(d, key) == IF key \in DOMAIN d.memo THEN d.memo[key] ELSE <<>>

\* The rules of a production that are complete in the span, one after the other.
Alternatives(m, d, key, active, n, found) ==
  IF n > Len(m.rules) THEN [d EXCEPT !.found = found]
  ELSE IF m.rules[n].production # key[1] \/ <<n, key[2], key[3]>> \notin m.complete
  THEN Alternatives(m, d, key, active, n + 1, found)
  ELSE After(Walk(m, [d EXCEPT !.found = <<>>],
                  [rule |-> n, start |-> key[2], end |-> key[3], active |-> active],
                  [position |-> key[2], children |-> <<>>]), LAMBDA e :
         Alternatives(m, e, key, active, n + 1, found \o e.found))

Child(w, child, position) == [position |-> position, children |-> Append(w.children, child)]

\* The ways to go on from w; one that reaches the end of the rule and of the span is a node.
Walk(m, d, r, w) ==
  LET elements == m.rules[r.rule].elements
      term == elements[Len(w.children) + 1].term
  IN CASE d.limited -> d
       [] Len(w.children) = Len(elements) ->
            IF w.position # r.end THEN d
            ELSE Limited(m.request,
                   [d EXCEPT !.nodes = Append(@, [rule |-> r.rule, start |-> r.start, end |-> r.end,
                                                  children |-> w.children]),
                             !.found = Append(@, Len(d.nodes) + 1)])
       [] term[1] = "wildcard" ->
            IF r.end # Len(m.request.input) THEN d
            ELSE Walk(m, d, r, Child(w, <<"star", w.position>>, r.end))
       [] term[1] = "production" ->
            LET ends == {e \in w.position..r.end : <<term[2], w.position, e>> \in m.spans}
            IN Branches(m, d, r, w, SetToSortSeq(ends, <), <<>>)
       [] OTHER ->
            IF w.position < r.end /\ Matches(m.request, term, w.position)
            THEN Walk(m, d, r, Child(w, <<"token", w.position>>, w.position + 1)) ELSE d

\* Every way for the next child first, then what follows each of them.
Branches(m, d, r, w, ends, branches) ==
  IF ends # <<>>
  THEN LET key == Key(m.rules[r.rule].elements[Len(w.children) + 1].term[2], w.position, Head(ends))
       IN After(Derive(m, d, key, r.active), LAMBDA e :
            LET trees == Known(e, key)
            IN Branches(m, [e EXCEPT !.found = d.found], r, w, Tail(ends),
                        branches \o [n \in DOMAIN trees |-> Child(w, <<"tree", trees[n]>>, Head(ends))]))
  ELSE IF branches = <<>> THEN d
  ELSE After(Walk(m, d, r, Head(branches)), LAMBDA e : Branches(m, e, r, w, ends, Tail(branches)))

parse(request, rules, start) ==
  After(build_charts(request, rules, start), LAMBDA charts :
    LET ended == UNION {{<<s.rule, s.origin, end>> : s \in {t \in Range(charts[end]) : Symbol(rules, t) = None}} :
                          end \in DOMAIN charts}
        m == [request |-> request, rules |-> rules, complete |-> ended,
              spans |-> {<<rules[c[1]].production, c[2], c[3]>> : c \in ended}]
        states == FoldSet(LAMBDA n, sum : sum + Len(charts[n]), 0, DOMAIN charts)
        empty == [nodes |-> <<>>, memo |-> <<>>, found |-> <<>>, limited |-> FALSE]
    IN IF states > request.limits.states \/ Len(request.input) + 1 > request.limits.states
       THEN [empty EXCEPT !.limited = TRUE]
       ELSE Derive(m, empty, Key(start, 0, Len(request.input)), {}))

(***************************************************************************)
(* preorder: each match before its children, in order; a group has no      *)
(* object, and what it captures goes to the match around it.  v holds the  *)
(* steps, and how many objects they have met.                              *)
(***************************************************************************)
Visits(rules, nodes, v, tree, place) ==
  LET node == nodes[tree]
      named == rules[node.rule].match_name # ""
      own == IF named THEN v.met + 1 ELSE place.target
      met == IF ~named THEN v
             ELSE [met |-> v.met + 1,
                   steps |-> Append(v.steps, [k |-> "match", tree |-> tree, place |-> place])]
      Visit(u, n) ==
        LET child == node.children[n]
            element == rules[node.rule].elements[n]
            to == [target |-> own, capture |-> element.capture]
        IN CASE child[1] = "tree" -> Visits(rules, nodes, u, child[2], to)
             [] child[1] = "token" /\ element.capture # "" ->
                  [u EXCEPT !.steps = Append(@, [k |-> "token", position |-> child[2], place |-> to,
                                                 term |-> element.term])]
             [] OTHER -> u
  IN FoldLeftDomain(LAMBDA u, n : After(Visit(u, n), LAMBDA x : x), met, node.children)

preorder(rules, forest) ==
  FoldLeft(LAMBDA v, root : Visits(rules, forest.nodes, v, root, [target |-> 0, capture |-> ""]),
           [steps |-> <<>>, met |-> 0], forest.found).steps

(***************************************************************************)
(* finish_matches: the token range and badness of each object, and what it *)
(* captured, in the order of preorder; what is set last stays.             *)
(***************************************************************************)
RECURSIVE Tokens(_, _)
Tokens(nodes, tree) ==
  LET children == Range(nodes[tree].children)
  IN {c[2] : c \in {x \in children : x[1] = "token"}}
       \cup UNION {Tokens(nodes, c[2]) : c \in {x \in children : x[1] = "tree"}}

token_range(nodes, tree) ==
  LET tokens == Tokens(nodes, tree)
  IN IF tokens = {} THEN <<nodes[tree].start + 2, nodes[tree].start + 1>> ELSE <<Min(tokens) + 1, Max(tokens) + 1>>

Set(objects, place, value) ==
  [objects EXCEPT ![place.target].captures =
     [p \in DOMAIN @ \cup {place.capture} |-> IF p = place.capture THEN value ELSE @[p]]]

Finished(request, rules, forest, f, step) ==
  IF step.k = "token"
  THEN LET word == request.input[step.position + 1].text
           bound == IF step.term[1] = "vocabulary" THEN <<"names", Filed(request, word, step.term[2])>>
                    ELSE <<"word", word>>
       IN [f EXCEPT !.objects = Set(@, step.place, bound)]
  ELSE LET rule == rules[forest.nodes[step.tree].rule]
           made == Append(f.objects, [match |-> rule.match_name, badness |-> rule.badness,
                                      range |-> token_range(forest.nodes, step.tree), captures |-> <<>>])
       IN IF step.place.target = 0 THEN [f EXCEPT !.objects = made, !.roots = Append(@, Len(made))]
          ELSE [f EXCEPT !.objects = IF step.place.capture = "" THEN made
                                     ELSE Set(made, step.place, <<"match", Len(made)>>)]

finish_matches(request, rules, forest) ==
  FoldLeft(LAMBDA f, step : Finished(request, rules, forest, f, step),
           [objects |-> <<>>, roots |-> <<>>], preorder(rules, forest))

Parsed(request, tables, start) ==
  After(parse(request, tables.rules, start), LAMBDA forest :
    IF forest.limited THEN [limited |-> TRUE]
    ELSE [limited |-> FALSE] @@ finish_matches(request, tables.rules, forest))
=============================================================================
