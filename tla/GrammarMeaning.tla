--------------------------- MODULE GrammarMeaning ---------------------------
(***************************************************************************)
(* What grammar rules mean: the readings of a command, straight from the   *)
(* alternatives as they are written, groups and all.                       *)
(*                                                                         *)
(* An alternative is a sequence of parts; a part is a term and the         *)
(* property that captures it, or a group of alternatives.                  *)
(***************************************************************************)
EXTENDS GrammarMatch
LOCAL INSTANCE SequencesExt

RECURSIVE Written(_), Readings(_, _, _, _, _), PartReadings(_, _, _, _, _), OfSequence(_, _, _, _, _)

(***************************************************************************)
(* The tokens of a rule.                                                   *)
(***************************************************************************)
Joined(texts) ==
  LET from[n \in 1..Len(texts)] ==
        IF n = Len(texts) THEN texts[n] ELSE texts[n] \o <<P("|")>> \o from[n + 1]
  IN from[1]

TermText(term) ==
  CASE term[1] = "literal" -> <<<<"word", term[2]>>>>
    [] term[1] = "wildcard" -> <<P("*")>>
    [] term[3] # "" -> <<<<"name", term[2]>>, P("."), <<"name", term[3]>>>>
    [] OTHER -> <<<<"name", term[2]>>>>

WrittenPart(part) ==
  IF "group" \in DOMAIN part
  THEN <<P("(")>> \o Joined([n \in DOMAIN part.group |-> Written(part.group[n])]) \o <<P(")")>>
  ELSE TermText(part.term) \o (IF part.capture = "" THEN <<>> ELSE <<P("->"), <<"name", part.capture>>>>)

Written(parts) == FlattenSeq([n \in DOMAIN parts |-> WrittenPart(parts[n])])

WrittenRule(rule) ==
  Joined([n \in DOMAIN rule.alternatives |->
            (IF rule.alternatives[n].badness = 0 THEN <<>> ELSE <<<<"badness", rule.alternatives[n].badness>>>>)
              \o Written(rule.alternatives[n].parts)]) \o <<P(":")>>

Source(rules) ==
  [n \in DOMAIN rules |-> [production |-> rules[n].production, match_name |-> rules[n].match_name,
                           tokens |-> WrittenRule(rules[n])]]

(***************************************************************************)
(* Readings: what a span can be read as, in order; each says which tokens  *)
(* it takes and what it captures, in order too.  A production that is      *)
(* being read does not read the same span again.                           *)
(***************************************************************************)
Pairs(first, second, joined(_, _)) ==
  FlattenSeq([m \in DOMAIN first |-> [n \in DOMAIN second |-> joined(first[m], second[n])]])

NoReading == [tokens |-> {}, captures |-> <<>>]
And(a, b) == [tokens |-> a.tokens \cup b.tokens, captures |-> a.captures \o b.captures]

Latest(captures) ==
  [p \in {captures[n][1] : n \in DOMAIN captures} |->
     captures[CHOOSE n \in DOMAIN captures :
       captures[n][1] = p /\ \A k \in DOMAIN captures : captures[k][1] = p => k <= n][2]]

Match(rule, alternative, from, to, reading) ==
  [match |-> rule.match_name, badness |-> alternative.badness,
   range |-> IF reading.tokens = {} THEN <<from + 2, from + 1>>
             ELSE <<CHOOSE t \in reading.tokens : \A u \in reading.tokens : t <= u,
                    CHOOSE t \in reading.tokens : \A u \in reading.tokens : t >= u>>,
   captures |-> Latest(reading.captures)]

Capturing(capture, value, tokens) ==
  <<[tokens |-> tokens, captures |-> IF capture = "" THEN <<>> ELSE <<<<capture, value>>>>]>>

\* How a word of the input can be what the term says, and what it is bound to.
WordReadings(g, part, from) ==
  LET token == g.request.input[from + 1]
      term == part.term
      found(p) == Filed(g.request, token.text, p)
      yes(value) == Capturing(part.capture, value, {from + 1})
      word == <<"word", token.text>>
  IN CASE term[1] = "literal" -> IF token.text = term[2] THEN yes(word) ELSE <<>>
       [] term[2] \in g.program.tokens -> IF token.kind = term[2] THEN yes(word) ELSE <<>>
       [] term[3] # "" -> IF found(term[3]) # {} THEN yes(<<"names", found(term[3])>>) ELSE <<>>
       [] term[2] \in g.program.relations -> IF found(term[2]) # {} THEN yes(<<"names", found(term[2])>>) ELSE <<>>
       [] OTHER -> IF found(term[2]) # {} THEN yes(word) ELSE <<>>

Productions(g) == {g.rules[n].production : n \in DOMAIN g.rules}

PartReadings(g, part, from, to, active) ==
  CASE "group" \in DOMAIN part ->
         FlattenSeq([n \in DOMAIN part.group |-> OfSequence(g, part.group[n], from, to, active)])
    [] part.term[1] = "wildcard" -> IF to = Len(g.request.input) THEN <<NoReading>> ELSE <<>>
    [] part.term[1] = "symbol" /\ part.term[2] \in Productions(g) ->
         LET read == Readings(g, part.term[2], from, to, active)
         IN [n \in DOMAIN read |->
               [tokens |-> read[n].tokens,
                captures |-> IF part.capture = "" THEN <<>> ELSE <<<<part.capture, <<"match", read[n].match>>>>>>]]
    [] OTHER -> IF to = from + 1 THEN WordReadings(g, part, from) ELSE <<>>

OfSequence(g, parts, from, to, active) ==
  IF parts = <<>> THEN IF from = to THEN <<NoReading>> ELSE <<>>
  ELSE FlattenSeq([k \in 1..(to - from + 1) |->
         After(PartReadings(g, Head(parts), from, from + k - 1, active), LAMBDA first :
           IF first = <<>> THEN <<>>
           ELSE Pairs(first, OfSequence(g, Tail(parts), from + k - 1, to, active), And))])

Readings(g, production, from, to, active) ==
  LET own == SelectSeq(g.rules, LAMBDA r : r.production = production)
      of(rule) ==
        FlattenSeq([n \in DOMAIN rule.alternatives |->
          LET read == OfSequence(g, rule.alternatives[n].parts, from, to, active \cup {<<production, from, to>>})
          IN [k \in DOMAIN read |->
                [tokens |-> read[k].tokens, match |-> Match(rule, rule.alternatives[n], from, to, read[k])]]])
  IN IF <<production, from, to>> \in active THEN <<>>
     ELSE FlattenSeq([n \in DOMAIN own |-> of(own[n])])

Meant(g, production) ==
  LET read == Readings(g, production, 0, Len(g.request.input), {})
  IN [n \in DOMAIN read |-> read[n].match]

(***************************************************************************)
(* The match objects as the game sees them, from a root down.              *)
(***************************************************************************)
RECURSIVE Seen(_, _)
Seen(objects, n) ==
  [objects[n] EXCEPT !.captures =
     [p \in DOMAIN @ |-> IF @[p][1] = "match" THEN <<"match", Seen(objects, @[p][2])>> ELSE @[p]]]

(***************************************************************************)
(* A parse gives every reading of the command, once each, rules in source  *)
(* order and shorter earlier parts first, with the tokens and the captures *)
(* each has; or it says that a limit was met (grammar.rs: "Enumerate every *)
(* complete match tree", "Roots follow rule source order; within a rule,   *)
(* earlier children with shorter spans come first").                       *)
(***************************************************************************)
EveryReading(program, rules, tables, request, ample) ==
  \A parsed \in {Parsed(request, tables, 1)} :
    IF parsed.limited THEN ~ample
    ELSE [n \in DOMAIN parsed.roots |-> Seen(parsed.objects, parsed.roots[n])]
           = Meant([program |-> program, rules |-> rules, request |-> request], rules[1].production)
=============================================================================
