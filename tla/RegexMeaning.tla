---------------------------- MODULE RegexMeaning ----------------------------
(***************************************************************************)
(* What regular expressions mean: a tree, the text that writes it and      *)
(* every way it can match, whatever is tried first.  The matcher of Regex  *)
(* has to find the longest of them, or the shortest when asked.            *)
(***************************************************************************)
EXTENDS Regex, TLC
LOCAL INSTANCE SequencesExt
LOCAL INSTANCE FiniteSetsExt

RECURSIVE Text(_), Ends(_, _, _, _)

(***************************************************************************)
(* The text of a tree.                                                     *)
(***************************************************************************)
Joined(texts, by) ==
  LET from[n \in 1..Len(texts)] ==
        IF n = Len(texts) THEN texts[n] ELSE texts[n] \o by \o from[n + 1]
  IN from[1]

QuantifierText(node) ==
  (CASE node.min = 0 /\ node.max = Unbounded -> <<"*">>
     [] node.min = 1 /\ node.max = Unbounded -> <<"+">>
     [] node.min = 0 /\ node.max = 1 -> <<"?">>
     [] node.max = Unbounded -> <<"{", ToString(node.min), ",", "}">>
     [] node.min = node.max -> <<"{", ToString(node.min), "}">>
     [] OTHER -> <<"{", ToString(node.min), ",", ToString(node.max), "}">>)
    \o (IF node.lazy THEN <<"?">> ELSE <<>>)

Text(node) ==
  CASE node.k = "char" -> IF node.c \in {"*", "%"} THEN <<"%", node.c>> ELSE <<node.c>>
    [] node.k = "any" -> <<".">>
    [] node.k = "start" -> <<"^">>
    [] node.k = "end" -> <<"$">>
    [] node.k = "boundary" -> <<"%", IF node.negate THEN "B" ELSE "b">>
    [] node.k = "wordbegin" -> <<"%", "<">>
    [] node.k = "wordend" -> <<"%", ">">>
    [] node.k = "backref" -> <<"%", ToString(node.index)>>
    [] node.k = "set" -> node.text
    [] node.k = "concat" -> Joined([n \in DOMAIN node.nodes |-> Text(node.nodes[n])], <<>>)
    [] node.k = "alternate" -> Joined([n \in DOMAIN node.nodes |-> Text(node.nodes[n])], <<"|">>)
    [] node.k = "group" ->
         <<"(">> \o (IF node.index = 0 THEN <<"?", ":">> ELSE <<>>) \o Text(node.node) \o <<")">>
    [] node.k = "look" ->
         <<"(", "?", IF node.negate THEN "!" ELSE "=">> \o Text(node.node) \o <<")">>
    [] node.k = "repeat" -> Text(node.node) \o QuantifierText(node)
    [] OTHER -> <<>>

(***************************************************************************)
(* Where a tree can end that begins in state m, a position and what the    *)
(* groups hold.                                                            *)
(***************************************************************************)
Alike(c, d, fold) == c = d \/ (fold /\ Lower(c) = Lower(d))

Held(m, g) == m.groups[g]
NoGroup == <<-1, -1>>

Closure(body(_), from, rounds) ==
  LET more[n \in Nat] ==
        IF n = 0 THEN from
        ELSE After(more[n - 1], LAMBDA all : all \cup UNION {body(m) : m \in all})
  IN more[rounds]

Ends(node, s, fold, m) ==
  LET takes(set) == IF m.at < Len(s) /\ s[m.at + 1] \in set THEN {[m EXCEPT !.at = @ + 1]} ELSE {}
      holds(b) == IF b THEN {m} ELSE {}
  IN CASE node.k = "char" -> takes({c \in Range(s) : Alike(c, node.c, fold)})
       [] node.k = "any" -> IF m.at < Len(s) THEN {[m EXCEPT !.at = @ + 1]} ELSE {}
       [] node.k = "set" ->
            takes({c \in Range(s) : (\E d \in node.set : Alike(c, d, fold)) # node.negated})
       [] node.k = "start" -> holds(m.at = 0)
       [] node.k = "end" -> holds(m.at = Len(s))
       [] node.k = "boundary" -> holds(Boundary(s, m.at) # node.negate)
       [] node.k = "wordbegin" -> holds(Boundary(s, m.at) /\ is_word(s, m.at))
       [] node.k = "wordend" -> holds(Boundary(s, m.at) /\ ~is_word(s, m.at))
       [] node.k = "backref" ->
            LET g == Held(m, node.index)
                end == m.at + g[2] - g[1]
            IN IF /\ g # NoGroup /\ end <= Len(s)
                  /\ \A n \in 1..(g[2] - g[1]) : Alike(s[g[1] + n], s[m.at + n], fold)
               THEN {[m EXCEPT !.at = end]} ELSE {}
       [] node.k = "concat" ->
            LET after[n \in 0..Len(node.nodes)] ==
                  IF n = 0 THEN {m} ELSE UNION {Ends(node.nodes[n], s, fold, x) : x \in after[n - 1]}
            IN after[Len(node.nodes)]
       [] node.k = "alternate" -> UNION {Ends(node.nodes[n], s, fold, m) : n \in DOMAIN node.nodes}
       [] node.k = "group" ->
            {IF node.index = 0 THEN x ELSE [x EXCEPT !.groups[node.index] = <<m.at, x.at>>] :
               x \in Ends(node.node, s, fold, m)}
       [] node.k = "look" -> holds((Ends(node.node, s, fold, m) # {}) # node.negate)
       [] node.k = "repeat" ->
            LET once(x) == Ends(node.node, s, fold, x)
                times[n \in Nat] == IF n = 0 THEN {m} ELSE UNION {once(x) : x \in times[n - 1]}
            IN IF node.max = Unbounded THEN Closure(once, times[node.min], Len(s) + 2)
               ELSE UNION {times[n] : n \in node.min..node.max}
       [] OTHER -> {m}

\* A loop whose body may match nothing never ends, and the budget does.
RECURSIVE MayIdle(_, _)
MayIdle(node, s) ==
  CASE node.k \in {"concat", "alternate"} -> \E n \in DOMAIN node.nodes : MayIdle(node.nodes[n], s)
    [] node.k \in {"group", "look"} -> MayIdle(node.node, s)
    [] node.k = "repeat" ->
         \/ MayIdle(node.node, s)
         \/ /\ node.max = Unbounded
            /\ \E at \in 0..Len(s) : \E g \in {NoGroup} \cup {<<from, to>> \in (0..at) \X (0..at) : from <= to} :
                 LET m == [at |-> at, groups |-> <<g, NoGroup>>]
                 IN \E x \in Ends(node.node, s, FALSE, m) : x.at = at
    [] OTHER -> FALSE

(***************************************************************************)
(* A search finds a match exactly where there is one, at the first place   *)
(* there is; of all that begin there it takes the longest, or the shortest *)
(* if so asked, and its groups are those of one way to match so; unless a  *)
(* loop may match nothing, which spends the budget.  And replacing every   *)
(* match by itself gives the subject back (regex.rs: "keeps the best one", *)
(* "A step budget bounds pathological patterns").                          *)
(***************************************************************************)
Written(tree, mode) == (IF mode = "max" THEN <<>> ELSE <<"<", mode, ">">>) \o Text(tree)

Finds(pattern, tree, mode, s) ==
  \A m \in {search(pattern, s, 0)} :
    LET ways(at) == Ends(tree, s, mode = "nocase", [at |-> at, groups |-> <<NoGroup, NoGroup>>])
        places == {at \in 0..Len(s) : ways(at) # {}}
        all == ways(Min(places))
        best == IF mode = "min" THEN Min({x.at : x \in all}) ELSE Max({x.at : x \in all})
    IN IF m = Budget THEN MayIdle(tree, s)
       ELSE IF places = {} THEN m = NoMatch
       ELSE /\ m # NoMatch /\ m.start = Min(places) /\ m.end = best
            /\ \E x \in all : x.at = best /\ \A g \in DOMAIN m.groups : m.groups[g] = x.groups[g]

ReplacesItself(pattern, s) ==
  \A r \in {Replace(pattern, <<"%", "*">>, s, 0, <<>>, FALSE)} : r # Budget => r.text = s

Agrees(tree, mode, subjects) ==
  \A pattern \in {compile(Written(tree, mode))} :
    /\ ~pattern.failed
    /\ \A s \in subjects : Finds(pattern, tree, mode, s) /\ ReplacesItself(pattern, s)
=============================================================================
