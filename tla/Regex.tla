-------------------------------- MODULE Regex --------------------------------
(***************************************************************************)
(* Regular expressions of the TADS dialect (regex.rs, and the requests of  *)
(* native_objects.rs that match and replace): the parser of patterns, the  *)
(* program it is compiled to, the backtracking search that keeps the best  *)
(* match, and replacement.  A text is a sequence of characters; positions  *)
(* are zero-based, as in the code.                                         *)
(***************************************************************************)
EXTENDS Integers, Sequences, FiniteSets
LOCAL INSTANCE SequencesExt
LOCAL INSTANCE FiniteSetsExt

RECURSIVE branches(_, _), items(_, _), Code(_, _), Paths(_, _, _, _, _, _), Replace(_, _, _, _, _, _)

\* f of x, with x worked out first.
After(x, f(_)) == CHOOSE y \in {f(z) : z \in {x}} : TRUE

(***************************************************************************)
(* Characters.                                                             *)
(***************************************************************************)
Lowers == [c \in {"A", "B"} |-> IF c = "A" THEN "a" ELSE "b"]
Lower(c) == IF c \in DOMAIN Lowers THEN Lowers[c] ELSE c
BothCases(c) == {d \in {"a", "b", "A", "B", c} : Lower(d) = Lower(c)}
Order == <<"1", "2", "A", "B", "a", "b", "c">>

Kinds == [alpha |-> {"a", "b", "c", "A", "B"}, digit |-> {"1", "2"}, space |-> {" "},
          upper |-> {"A", "B"}, lower |-> {"a", "b", "c"}]
Word == Kinds.alpha \cup Kinds.digit

\* A class: its characters, ranges and kinds, and whether it is all the others.
hit(class, c) ==
  \/ c \in class.chars
  \/ \E r \in class.ranges : \E n \in IndexFirstSubSeq(<<r[1]>>, Order)..IndexFirstSubSeq(<<r[2]>>, Order) :
       Order[n] = c
  \/ \E k \in class.kinds : c \in Kinds[k]

matches(class, c, fold) ==
  (IF fold THEN \E d \in BothCases(c) : hit(class, d) ELSE hit(class, c)) # class.negated

(***************************************************************************)
(* The parser: p is where it is, what it counted and set, and what it made *)
(* last; a pattern that is not one leaves it failed.                       *)
(***************************************************************************)
Start == [at |-> 0, groups |-> 0, fold |-> FALSE, shortest |-> FALSE, nodes |-> <<>>, failed |-> FALSE]
Failed == [Start EXCEPT !.failed = TRUE]

Made(p, nodes) == [p EXCEPT !.nodes = nodes]
peek(text, p) == IF p.at < Len(text) THEN text[p.at + 1] ELSE ""
Skip(p, n) == [p EXCEPT !.at = @ + n]

None == [k |-> "none"]
Leaf(k) == [k |-> k]
Literal(c) == [k |-> "char", c |-> c]
Class(negated, chars, ranges, kinds) ==
  [k |-> "class", class |-> [negated |-> negated, chars |-> chars, ranges |-> ranges, kinds |-> kinds]]

One(nodes, k) ==
  IF nodes = <<>> THEN Leaf("empty") ELSE IF Len(nodes) = 1 THEN nodes[1] ELSE [k |-> k, nodes |-> nodes]

alternation(text, p) ==
  After(branches(text, p), LAMBDA q : IF q.failed THEN q ELSE Made(q, <<One(q.nodes, "alternate")>>))

branches(text, p) ==
  After(items(text, Made(p, <<>>)), LAMBDA q :
    IF q.failed \/ peek(text, q) # "|" THEN Made(q, <<One(q.nodes, "concat")>>)
    ELSE After(branches(text, Skip(q, 1)), LAMBDA r : Made(r, <<One(q.nodes, "concat")>> \o r.nodes)))

\* One or more digits: how many there are, and the number.
Digits(text, at) ==
  Cardinality({n \in at..(Len(text) - 1) : \A m \in at..n : text[m + 1] \in Kinds.digit})
number(text, at) ==
  LET value[n \in 0..Digits(text, at)] ==
        IF n = 0 THEN 0 ELSE value[n - 1] * 10 + (IF text[at + n] = "1" THEN 1 ELSE 2)
  IN value[Digits(text, at)]

Unbounded == -1

\* {n}, {n,} and {n,m}; length 0 when it is none of them, and is literal text.
bounds(text, at) ==
  LET low == Digits(text, at + 1)
      comma == at + 1 + low < Len(text) /\ text[at + low + 2] = ","
      high == IF comma THEN Digits(text, at + low + 2) ELSE 0
      end == at + 1 + low + (IF comma THEN 1 + high ELSE 0)
  IN IF low = 0 \/ end >= Len(text) \/ text[end + 1] # "}" THEN [length |-> 0]
     ELSE [length |-> end + 1 - at, min |-> number(text, at + 1),
           max |-> IF ~comma THEN number(text, at + 1)
                   ELSE IF high = 0 THEN Unbounded ELSE number(text, at + low + 2)]

Quantifier(text, p) ==
  CASE peek(text, p) = "*" -> [length |-> 1, min |-> 0, max |-> Unbounded]
    [] peek(text, p) = "+" -> [length |-> 1, min |-> 1, max |-> Unbounded]
    [] peek(text, p) = "?" -> [length |-> 1, min |-> 0, max |-> 1]
    [] peek(text, p) = "{" -> bounds(text, p.at)
    [] OTHER -> [length |-> 0]

repeat(text, p) ==
  LET q == Quantifier(text, p)
      lazy == peek(text, Skip(p, q.length)) = "?"
  IN IF p.failed \/ p.nodes = <<>> \/ q.length = 0 THEN p
     ELSE IF q.max # Unbounded /\ q.max < q.min THEN Failed
     ELSE Made(Skip(p, q.length + (IF lazy THEN 1 ELSE 0)),
               <<[k |-> "repeat", node |-> p.nodes[1], min |-> q.min, max |-> q.max, lazy |-> lazy]>>)

\* (, (?:, (?= and (?!, after the bracket.
Bracket(text, p) ==
  LET kind == IF p.at + 1 < Len(text) THEN text[p.at + 2] ELSE ""
  IN IF peek(text, p) # "?" THEN [open |-> [p EXCEPT !.groups = @ + 1], k |-> "group"]
     ELSE IF kind \notin {":", "=", "!"} THEN [open |-> Failed, k |-> "none"]
     ELSE [open |-> Skip(p, 2), k |-> IF kind = ":" THEN "plain" ELSE IF kind = "=" THEN "ahead" ELSE "notahead"]

Enclosed(k, index, node) ==
  CASE k = "group" -> [k |-> "group", index |-> index, node |-> node]
    [] k = "plain" -> [k |-> "group", index |-> 0, node |-> node]
    [] OTHER -> [k |-> "look", negate |-> k = "notahead", node |-> node]

Group(text, p) ==
  After(Bracket(text, p), LAMBDA b :
    IF b.open.failed THEN Failed
    ELSE After(alternation(text, b.open), LAMBDA q :
           IF q.failed \/ peek(text, q) # ")" THEN Failed
           ELSE Made(Skip(q, 1), <<Enclosed(b.k, b.open.groups, q.nodes[1])>>)))

\* [...]: the first character may be a closing bracket, a percent sign takes the next one as it
\* is, and a dash between two is a range.
square_class(text, p) ==
  LET negated == peek(text, p) = "^"
      from == p.at + (IF negated THEN 1 ELSE 0)
      read[n \in Nat] ==
        LET at == IF text[n + 1] = "%" THEN n + 1 ELSE n
            range == at + 2 < Len(text) /\ text[at + 2] = "-" /\ text[at + 3] # "]"
            rest == read[IF range THEN at + 3 ELSE at + 1]
        IN IF n >= Len(text) THEN [closed |-> FALSE]
           ELSE IF text[n + 1] = "]" /\ n > from THEN [closed |-> TRUE, end |-> n + 1, chars |-> {}, ranges |-> {}]
           ELSE IF at >= Len(text) \/ ~rest.closed THEN [closed |-> FALSE]
           ELSE IF range THEN [rest EXCEPT !.ranges = @ \cup {<<text[at + 1], text[at + 3]>>}]
           ELSE [rest EXCEPT !.chars = @ \cup {text[at + 1]}]
      class == read[from]
  IN IF ~class.closed THEN Failed
     ELSE Made([p EXCEPT !.at = class.end], <<Class(negated, class.chars, class.ranges, {})>>)

\* <...>: a mode of the whole pattern, or kinds, characters and ranges with bars between, or their
\* opposite.  The names of modes and kinds are single characters here; those of characters are left out.
Modes == {"case", "nocase", "min", "max", "fb", "firstbegin", "fe", "firstend"}
angle(text, p) ==
  LET end == SelectInSubSeq(text, p.at + 1, Len(text), LAMBDA c : c = ">")
      body == SubSeq(text, p.at + 1, end - 1)
      negated == body # <<>> /\ body[1] = "^"
      list == IF negated THEN Tail(body) ELSE body
      bars == {0, Len(list) + 1} \cup {n \in DOMAIN list : list[n] = "|"}
      parts == {SubSeq(list, m + 1, Min({n \in bars : n > m}) - 1) : m \in bars \ {Len(list) + 1}}
      kinds == {<<k>> : k \in DOMAIN Kinds}
      chars == {part \in parts \ kinds : Len(part) = 1}
      ranges == {part \in parts : Len(part) = 3 /\ part[2] = "-"}
      q == [p EXCEPT !.at = end]
  IN IF end = 0 THEN Failed
     ELSE IF Len(body) = 1 /\ body[1] \in Modes THEN
       Made([q EXCEPT !.fold = IF body[1] \in {"case", "nocase"} THEN body[1] = "nocase" ELSE @,
                      !.shortest = IF body[1] \in {"min", "max"} THEN body[1] = "min" ELSE @], <<>>)
     ELSE IF parts \ (kinds \cup chars \cup ranges) # {} THEN Failed
     ELSE Made(q, <<Class(negated, {part[1] : part \in chars}, {<<part[1], part[3]>> : part \in ranges},
                          {part[1] : part \in parts \cap kinds})>>)

Escapes == [w |-> Word, s |-> Kinds.space, d |-> Kinds.digit]
Escape(c) ==
  CASE c \in {"1", "2"} -> [k |-> "backref", index |-> IF c = "1" THEN 1 ELSE 2]
    [] c = "<" -> Leaf("wordbegin")
    [] c = ">" -> Leaf("wordend")
    [] c = "b" -> [k |-> "boundary", negate |-> FALSE]
    [] c = "B" -> [k |-> "boundary", negate |-> TRUE]
    [] c \in DOMAIN Escapes -> Class(FALSE, Escapes[c], {}, {})
    [] c \in {"W", "S", "D"} ->
         Class(TRUE, Escapes[IF c = "W" THEN "w" ELSE IF c = "S" THEN "s" ELSE "d"], {}, {})
    [] OTHER -> Literal(c)

\* Leaves no node for a mode.
atom(text, p) ==
  LET c == peek(text, p)
      q == Skip(p, 1)
  IN CASE c = "(" -> Group(text, q)
       [] c = "[" -> square_class(text, q)
       [] c = "<" -> angle(text, q)
       [] c = "." -> Made(q, <<Leaf("any")>>)
       [] c = "^" -> Made(q, <<Leaf("start")>>)
       [] c = "$" -> Made(q, <<Leaf("end")>>)
       [] c = "%" -> IF peek(text, q) = "" THEN Failed ELSE Made(Skip(q, 1), <<Escape(peek(text, q))>>)
       [] OTHER -> Made(q, <<Literal(c)>>)

items(text, p) ==
  IF p.failed \/ peek(text, p) \in {"", "|", ")"} THEN p
  ELSE After(repeat(text, atom(text, p)), LAMBDA q :
         IF q.failed THEN q ELSE After(items(text, Made(q, p.nodes \o q.nodes)), LAMBDA r : r))

(***************************************************************************)
(* The compiler: a program whose jumps count from where they stand.        *)
(***************************************************************************)
Split(a, b) == [op |-> "split", a |-> a, b |-> b]
Jump(n) == [op |-> "jump", a |-> n]
Choice(greedy, body, end) == IF greedy THEN Split(body, end) ELSE Split(end, body)

Alternated(codes) ==
  LET from[n \in 1..Len(codes)] ==
        IF n = Len(codes) THEN codes[n]
        ELSE After(from[n + 1], LAMBDA rest :
               <<Split(1, Len(codes[n]) + 2)>> \o codes[n] \o <<Jump(Len(rest) + 1)>> \o rest)
  IN from[1]

Copies(code, n) == FlattenSeq([k \in 1..n |-> code])

\* Slip: the copies that must match are one too few.
RepeatedShort(code, min, max, greedy) ==
  LET more[n \in Nat] ==
        IF n = 0 THEN <<>>
        ELSE <<Choice(greedy, 1, n * (Len(code) + 1))>> \o code \o more[n - 1]
  IN Copies(code, IF min > 0 THEN min - 1 ELSE 0) \o
     IF max # Unbounded THEN more[max - min]
     ELSE <<Choice(greedy, 1, Len(code) + 2)>> \o code \o <<Jump(-(Len(code) + 1))>>

Repeated(code, min, max, greedy) ==
  LET more[n \in Nat] ==
        IF n = 0 THEN <<>>
        ELSE <<Choice(greedy, 1, n * (Len(code) + 1))>> \o code \o more[n - 1]
  IN Copies(code, min) \o
     IF max # Unbounded THEN more[max - min]
     ELSE <<Choice(greedy, 1, Len(code) + 2)>> \o code \o <<Jump(-(Len(code) + 1))>>

Code(node, greedy) ==
  CASE node.k = "empty" -> <<>>
    [] node.k = "concat" -> FlattenSeq([n \in DOMAIN node.nodes |-> Code(node.nodes[n], greedy)])
    [] node.k = "alternate" -> Alternated([n \in DOMAIN node.nodes |-> Code(node.nodes[n], greedy)])
    [] node.k = "group" ->
         IF node.index = 0 THEN Code(node.node, greedy)
         ELSE <<[op |-> "save", slot |-> 2 * node.index - 1]>> \o Code(node.node, greedy)
                \o <<[op |-> "save", slot |-> 2 * node.index]>>
    [] node.k = "look" ->
         After(Code(node.node, greedy), LAMBDA code :
           <<[op |-> "look", negate |-> node.negate], Jump(Len(code) + 2)>> \o code \o <<[op |-> "match"]>>)
    [] node.k = "repeat" ->
         After(Code(node.node, greedy), LAMBDA code :
           Repeated(code, node.min, node.max, greedy /\ ~node.lazy))
    [] OTHER -> <<[op |-> "one", node |-> node]>>

compile(text) ==
  After(alternation(text, Start), LAMBDA p :
    IF p.failed \/ p.at # Len(text) THEN [failed |-> TRUE]
    ELSE [failed |-> FALSE, program |-> Code(p.nodes[1], ~p.shortest) \o <<[op |-> "match"]>>,
          groups |-> p.groups, fold |-> p.fold, shortest |-> p.shortest])

(***************************************************************************)
(* The search.  From an instruction and a position it goes on to every     *)
(* match there is, in the order of its stack; of those that end best it    *)
(* keeps the first.                                                        *)
(***************************************************************************)
Char(s, at) == IF at \in 0..(Len(s) - 1) THEN s[at + 1] ELSE ""
is_word(s, at) == Char(s, at) \in Word
Boundary(s, at) == is_word(s, at - 1) # is_word(s, at)

Endless == [end |-> -1]     \* the step budget runs out

\* How many characters an instruction without a choice takes; -1 when it fails.  A group begun again
\* can hold an end before its start: the subtraction of the code wraps, and the comparison fails at the
\* first character that differs, as here; if none does it goes past the end of the subject and stops
\* there, and a checked build stops at the subtraction.  No pattern of RegexCases refers back to the
\* group it is in.
Takes(pattern, s, node, at, saves) ==
  LET same(c, d) == c = d \/ (pattern.fold /\ Lower(c) = Lower(d))
      is(b, n) == IF b THEN n ELSE -1
  IN CASE node.k = "char" -> is(at < Len(s) /\ same(node.c, Char(s, at)), 1)
       [] node.k = "any" -> is(at < Len(s), 1)
       [] node.k = "class" -> is(at < Len(s) /\ matches(node.class, Char(s, at), pattern.fold), 1)
       [] node.k = "start" -> is(at = 0, 0)
       [] node.k = "end" -> is(at = Len(s), 0)
       [] node.k = "wordbegin" -> is(is_word(s, at) /\ ~is_word(s, at - 1), 0)
       [] node.k = "wordend" -> is(is_word(s, at - 1) /\ ~is_word(s, at), 0)
       [] node.k = "boundary" -> is(Boundary(s, at) # node.negate, 0)
       [] OTHER ->
            LET from == saves[2 * node.index - 1]
                length == saves[2 * node.index] - from
            IN is(/\ node.index <= pattern.groups /\ from >= 0 /\ length >= 0
                  /\ at + length <= Len(s)
                  /\ \A n \in 0..(length - 1) : same(Char(s, from + n), Char(s, at + n)), length)

NoSaves(pattern) == [slot \in 1..(2 * (IF pattern.groups > 2 THEN pattern.groups ELSE 2)) |-> -1]

\* seen: where the search has been since it last took a character.
Paths(pattern, s, pc, at, saves, seen) ==
  LET i == pattern.program[pc]
      step(next) == Paths(pattern, s, next, at, saves, seen \cup {<<pc, saves>>})
  IN IF <<pc, saves>> \in seen THEN <<Endless>>
     ELSE CASE i.op = "match" -> <<[end |-> at, saves |-> saves]>>
            [] i.op = "split" -> step(pc + i.a) \o step(pc + i.b)
            [] i.op = "jump" -> step(pc + i.a)
            [] i.op = "save" -> Paths(pattern, s, pc + 1, at, [saves EXCEPT ![i.slot] = at], seen)
            [] i.op = "look" ->
                 After(Paths(pattern, s, pc + 2, at, NoSaves(pattern), {}), LAMBDA found :
                   IF Contains(found, Endless) THEN <<Endless>>
                   ELSE IF (found # <<>>) # i.negate THEN step(pc + 1) ELSE <<>>)
            [] OTHER ->
                 After(Takes(pattern, s, i.node, at, saves), LAMBDA n :
                   IF n < 0 THEN <<>> ELSE IF n = 0 THEN step(pc + 1)
                   ELSE Paths(pattern, s, pc + 1, at + n, saves, {}))

NoMatch == [found |-> FALSE]
Budget == [found |-> FALSE, budget |-> TRUE]

Best(pattern, s, start, found) ==
  LET ends == {found[n].end : n \in DOMAIN found}
      end == IF pattern.shortest THEN Min(ends) ELSE Max(ends)
      first == Min({n \in DOMAIN found : found[n].end = end})
  IN [found |-> TRUE, start |-> start, end |-> end,
      groups |-> [g \in 1..pattern.groups |-> <<found[first].saves[2 * g - 1], found[first].saves[2 * g]>>]]

match_at(pattern, s, at) ==
  After(Paths(pattern, s, 1, at, NoSaves(pattern), {}), LAMBDA found :
    IF Contains(found, Endless) THEN Budget
    ELSE IF found = <<>> THEN NoMatch ELSE Best(pattern, s, at, found))

search(pattern, s, from) ==
  LET first[at \in 0..(Len(s) + 1)] ==
        IF at > Len(s) THEN NoMatch
        ELSE After(match_at(pattern, s, at), LAMBDA m : IF m # NoMatch THEN m ELSE first[at + 1])
  IN first[from]

(***************************************************************************)
(* Replacement (op 7): matches from left to right, an empty one moving on  *)
(* by a character.                                                         *)
(***************************************************************************)
expand(replacement, s, m) ==
  LET at[n \in 1..(Len(replacement) + 1)] ==
        IF n > Len(replacement) THEN <<>>
        ELSE IF replacement[n] # "%" \/ n = Len(replacement) THEN <<replacement[n]>> \o at[n + 1]
        ELSE (CASE replacement[n + 1] = "*" -> SubSeq(s, m.start + 1, m.end)
                [] replacement[n + 1] \in {"1", "2"} ->
                     LET g == IF replacement[n + 1] = "1" THEN 1 ELSE 2
                     IN IF g > Len(m.groups) \/ -1 \in {m.groups[g][1], m.groups[g][2]} THEN <<>>
                        ELSE SubSeq(s, m.groups[g][1] + 1, m.groups[g][2])
                [] OTHER -> <<replacement[n + 1]>>) \o at[n + 2]
  IN at[1]

Replace(pattern, replacement, s, at, out, once) ==
  After(IF at > Len(s) THEN NoMatch ELSE search(pattern, s, at), LAMBDA m :
    IF m = Budget THEN Budget
    ELSE IF m = NoMatch THEN [found |-> TRUE, text |-> out \o SubSeq(s, at + 1, Len(s))]
    ELSE LET empty == m.end = m.start
             next == IF empty THEN m.end + 1 ELSE m.end
             more == out \o SubSeq(s, at + 1, m.start) \o expand(replacement, s, m)
                       \o (IF empty /\ m.end < Len(s) THEN <<s[m.end + 1]>> ELSE <<>>)
         IN IF once THEN [found |-> TRUE, text |-> more \o SubSeq(s, next + 1, Len(s))]
            ELSE Replace(pattern, replacement, s, next, more, once))
=============================================================================
