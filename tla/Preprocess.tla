----------------------------- MODULE Preprocess -----------------------------
(***************************************************************************)
(* The preprocessor (preprocess.rs): files become tokens that know their   *)
(* place, lines that begin with # say what to do with the others, and the  *)
(* names of macros are replaced.  Everything written keeps the place it    *)
(* came from.                                                              *)
(*                                                                         *)
(* A disk is a function from directory and name to text; env has the disk, *)
(* the include paths and the limits.  Texts of tokens are strings.         *)
(***************************************************************************)
EXTENDS Lexer
LOCAL INSTANCE FiniteSets
LOCAL INSTANCE FiniteSetsExt
LOCAL INSTANCE SequencesExt

Site(file, byte) == [file |-> file, byte |-> byte]
Piece(text, site) == [text |-> text, site |-> site]

First(text) == IF text = "" THEN "" ELSE SubSeq(text, 1, 1)
LastOf(text) == IF text = "" THEN "" ELSE SubSeq(text, Len(text), Len(text))
space(t) == \A n \in 1..Len(t.text) : SubSeq(t.text, n, n) \in Blanks \cup Breaks
word(t) == First(t.text) \in Letters \cup {"_"}
EndsLine(t) == t.text \in {"\n", "\r", "\r\n"}
InOrder(places, last) == SelectSeq([n \in 1..last |-> n], LAMBDA n : n \in places)
Significant(tokens) == SelectSeq(tokens, LAMBDA t : ~space(t))
Together(tokens) == FoldLeft(LAMBDA s, t : s \o t.text, "", tokens)

(***************************************************************************)
(* Tokens: a backslash at the end of a line becomes a space and the line   *)
(* goes on; a comment becomes a space, with its line ends after it.        *)
(***************************************************************************)
Swallowed(text, n) ==
  \/ n > 1 /\ text[n] \in Breaks /\ text[n - 1] = "\\"
  \/ n > 2 /\ text[n] = "\n" /\ text[n - 1] = "\r" /\ text[n - 2] = "\\"
Joined(text, file) ==
  LET kept == SelectSeq([n \in DOMAIN text |-> n], LAMBDA n : ~Swallowed(text, n))
  IN [file |-> file,
      chars |-> [k \in DOMAIN kept |->
                   IF text[kept[k]] = "\\" /\ kept[k] < Len(text) /\ text[kept[k] + 1] \in Breaks
                   THEN " " ELSE text[kept[k]]],
      byte |-> [k \in DOMAIN kept |-> kept[k] - 1]]

\* Past a literal or a part of one: more when << ends it.
EndStep(u, quote, triple, s) ==
  LET c == ch(u, s.at)
      run == All(u, s.at, {quote})
      escaped == ch(u, s.at + 1)
      after == Min({s.at + 2, Len(u)})
  IN CASE c = "" -> [s EXCEPT !.phase = "wrong"]
       [] c = "\\" ->
            [s EXCEPT !.at = after + (IF triple /\ escaped = quote THEN All(u, after, {quote}) ELSE 0)]
       [] c = "<" /\ ch(u, s.at + 1) = "<" -> [s EXCEPT !.at = @ + 2, !.phase = "ended", !.more = TRUE]
       [] c = quote /\ ~triple -> [s EXCEPT !.at = @ + 1, !.phase = "ended"]
       [] c = quote /\ triple -> [s EXCEPT !.at = @ + run, !.phase = IF run >= 3 THEN "ended" ELSE @]
       [] OTHER -> [s EXCEPT !.at = @ + 1]
RECURSIVE EndFound(_, _, _, _)
EndFound(u, quote, triple, s) ==
  IF s.phase # "text" THEN s ELSE EndFound(u, quote, triple, EndStep(u, quote, triple, s))
string_end(u, at, quote, triple) ==
  EndFound(u, quote, triple, [at |-> at, phase |-> "text", more |-> FALSE])

Cutting == [at |-> 0, tokens |-> <<>>, embeddings |-> <<>>, phase |-> "text"]

SiteAt(u, at) == Site(u.file, u.byte[at + 1])
\* One token up to end.
Cut(u, s, end) ==
  [s EXCEPT !.tokens = Append(@, Piece(Spelled(SubSeq(u.chars, s.at + 1, end)), SiteAt(u, s.at))), !.at = end]

Nested(s, c) ==
  IF s.embeddings = <<>> THEN s
  ELSE LET e == Last(s.embeddings)
           depth == IF c \in {"(", "[", "{"} THEN e.depth + 1
                    ELSE IF c \in {")", "]", "}"} /\ e.depth > 0 THEN e.depth - 1 ELSE e.depth
       IN [s EXCEPT !.embeddings = Append(Front(@), [e EXCEPT !.depth = depth])]

CommentEnds(u, s) ==
  LET u_ == u.chars
  IN IF ch(u_, s.at + 1) = "*" THEN {n \in (s.at + 4)..Len(u_) : u_[n - 1] = "*" /\ u_[n] = "/"}
     ELSE {n \in (s.at + 2)..Len(u_) : n = Len(u_) \/ u_[n + 1] \in Breaks}

CutComment(u, s) ==
  LET end == Min(CommentEnds(u, s))
      breaks == InOrder({n \in (s.at + 2)..(end - 1) : u.chars[n + 1] \in Breaks}, end)
  IN IF CommentEnds(u, s) = {} THEN [s EXCEPT !.phase = "wrong"]
     ELSE [s EXCEPT !.at = end,
                    !.tokens = Append(@, Piece(" ", SiteAt(u, s.at)))
                                 \o [k \in DOMAIN breaks |-> Piece("\n", SiteAt(u, breaks[k]))]]

CutLiteral(u, s) ==
  LET quote == ch(u.chars, s.at)
      triple == Triple(u.chars, s.at)
      end == string_end(u.chars, s.at + (IF triple THEN 3 ELSE 1), quote, triple)
  IN IF end.phase = "wrong" THEN [s EXCEPT !.phase = "wrong"]
     ELSE [Cut(u, s, end.at) EXCEPT
             !.embeddings = IF end.more THEN Append(@, [quote |-> quote, triple |-> triple, depth |-> 0]) ELSE @]

CutContinued(u, s) ==
  LET e == Last(s.embeddings)
      end == string_end(u.chars, s.at + 2, e.quote, e.triple)
  IN IF end.phase = "wrong" THEN [s EXCEPT !.phase = "wrong"]
     ELSE [Cut(u, s, end.at) EXCEPT !.embeddings = IF end.more THEN @ ELSE Front(@)]

CutStep(u, s) ==
  LET c == ch(u.chars, s.at)
      next == ch(u.chars, s.at + 1)
  IN CASE c = "" -> [s EXCEPT !.phase = "ended"]
       [] c = ">" /\ next = ">" /\ Embedding(s) -> CutContinued(u, s)
       [] c = "/" /\ next \in {"/", "*"} -> CutComment(u, s)
       [] c \in Quotes -> CutLiteral(u, s)
       [] c \in Alphanumerics \cup {"_"} -> Cut(u, s, s.at + All(u.chars, s.at, Alphanumerics \cup {"_"}))
       [] c \in Blanks -> Cut(u, s, s.at + All(u.chars, s.at, Blanks))
       [] c \in Breaks -> Cut(u, s, s.at + BreakLength(u.chars, s.at))
       [] OTHER -> Nested(Cut(u, s, s.at + 1), c)

RECURSIVE CutAll(_, _)
CutAll(u, s) == IF s.phase # "text" THEN s ELSE CutAll(u, CutStep(u, s))
tokenize(text, file) == CutAll(Joined(text, file), Cutting)

\* Does any line of a text begin with #?  One that cannot be read may.
has_directives(text) ==
  LET cut == tokenize(text, 0)
      kept == SelectSeq(cut.tokens, LAMBDA t : EndsLine(t) \/ ~space(t))
  IN /\ "#" \in Range(text)
     /\ \/ cut.phase = "wrong"
        \/ \E n \in DOMAIN kept : kept[n].text = "#" /\ (n = 1 \/ EndsLine(kept[n - 1]))

(***************************************************************************)
(* Macros: whether they take arguments, their parameters, the last of      *)
(* which may take the rest, and what they stand for.                       *)
(***************************************************************************)
Macro(takes, parameters, variadic, body) ==
  [takes |-> takes, parameters |-> parameters, variadic |-> variadic, body |-> body]
Position(name, parameters) ==
  IF Contains(parameters, name) THEN CHOOSE n \in DOMAIN parameters : parameters[n] = name ELSE 0

\* The arguments of a use, up to the ) that closes it.  A comma in brackets of any kind separates nothing.
Collecting(at) ==
  [at |-> at, argument |-> <<>>, arguments |-> <<>>, nesting |-> 0, brackets |-> 0, braces |-> 0, phase |-> "open"]
Less(n) == IF n = 0 THEN 0 ELSE n - 1
\* Slip: only round brackets keep a comma inside an argument.
AtTopRound(s) == s.nesting = 0
AtTop(s) == s.nesting = 0 /\ s.brackets = 0 /\ s.braces = 0

\* A ) while only a [ or a { is open leaves nesting at -1, for the largest number that the code wraps to in a
\* release build: neither is 0, so that no comma separates, and the next ( makes it 0.  A checked build stops there.
CollectStep(tokens, parameters, s) ==
  LET t == tokens[s.at]
      next == [s EXCEPT !.at = @ + 1]
      whole == Append(s.arguments, s.argument)
  IN CASE s.at > Len(tokens) -> [s EXCEPT !.phase = "unterminated"]
       [] s.at <= Len(tokens) /\ t.text = ")" /\ AtTop(s) ->
            [next EXCEPT !.phase = "closed",
                         !.arguments = IF parameters # <<>> \/ Significant(s.argument) # <<>> THEN whole ELSE @]
       [] s.at <= Len(tokens) /\ t.text = "," /\ AtTop(s) ->
            [next EXCEPT !.arguments = whole, !.argument = <<>>]
       [] OTHER ->
            [next EXCEPT !.argument = Append(@, t),
                         !.nesting = IF t.text = "(" THEN @ + 1 ELSE IF t.text = ")" THEN @ - 1 ELSE @,
                         !.brackets = IF t.text = "[" THEN @ + 1 ELSE IF t.text = "]" THEN Less(@) ELSE @,
                         !.braces = IF t.text = "{" THEN @ + 1 ELSE IF t.text = "}" THEN Less(@) ELSE @]
RECURSIVE Collected(_, _, _)
Collected(tokens, parameters, s) ==
  IF s.phase # "open" THEN s ELSE Collected(tokens, parameters, CollectStep(tokens, parameters, s))

\* The last parameter of a variadic macro takes all that is left, with its commas.
Tail_(macro, arguments, site) ==
  LET n == Len(macro.parameters)
      rest == SubSeq(arguments, n, Len(arguments))
      joined == FoldLeft(LAMBDA all, a : all \o <<Piece(",", site)>> \o a, <<>>, rest)
  IN IF ~macro.variadic THEN arguments
     ELSE Append(SubSeq(arguments, 1, n - 1), IF joined = <<>> THEN <<>> ELSE Tail(joined))

\* What is wrong with the arguments of a use, or "".
ArgumentError(macro, s, site) ==
  CASE s.phase = "unterminated" -> "unterminated macro invocation"
    [] s.phase = "closed" /\ macro.variadic /\ Len(s.arguments) < Len(macro.parameters) - 1 -> "too few macro arguments"
    [] s.phase = "closed" /\ Len(Tail_(macro, s.arguments, site)) # Len(macro.parameters) -> "wrong macro argument count"
    [] OTHER -> ""

(***************************************************************************)
(* # and a parameter: its argument as a literal.  #@ makes it a single     *)
(* quoted one; ## is left for later.                                       *)
(***************************************************************************)
Escaped(text, quote) ==
  FoldLeft(LAMBDA s, c : s \o (IF c \in {quote, "\\"} THEN "\\" \o c ELSE c), "", Chars(text))
Stringized(argument, quote) ==
  LET said == {n \in DOMAIN argument : ~space(argument[n])}
      apart(n) == n # Min(said) /\ space(argument[n - 1])
  IN quote \o FoldLeft(LAMBDA s, n : s \o (IF apart(n) THEN " " ELSE "") \o Escaped(argument[n].text, quote),
                       "", InOrder(said, Len(argument))) \o quote

Hash(body, at) == at \in DOMAIN body /\ body[at].text = "#"
RECURSIVE PastSpace(_, _)
PastSpace(tokens, at) == IF at <= Len(tokens) /\ space(tokens[at]) THEN PastSpace(tokens, at + 1) ELSE at

StringizeStep(macro, arguments, site, s) ==
  LET t == macro.body[s.at]
      single == s.at < Len(macro.body) /\ macro.body[s.at + 1].text = "@"
      named == PastSpace(macro.body, s.at + (IF single THEN 2 ELSE 1))
      parameter == IF named > Len(macro.body) THEN 0 ELSE Position(macro.body[named].text, macro.parameters)
  IN IF t.text # "#" \/ Hash(macro.body, s.at - 1) \/ Hash(macro.body, s.at + 1)
     THEN [s EXCEPT !.at = @ + 1, !.out = Append(@, t)]
     ELSE IF parameter = 0 THEN [s EXCEPT !.error = "stringizing requires a macro parameter"]
     ELSE [s EXCEPT !.at = named + 1,
                    !.out = Append(@, Piece(Stringized(arguments[parameter], IF single THEN "'" ELSE "\""), site))]
RECURSIVE StringizeAll(_, _, _, _)
StringizeAll(macro, arguments, site, s) ==
  IF s.error # "" \/ s.at > Len(macro.body) THEN s
  ELSE StringizeAll(macro, arguments, site, StringizeStep(macro, arguments, site, s))

(***************************************************************************)
(* ## puts what is left of it and what is right of it together: the result *)
(* is read again, and may be several tokens.  Two literals in the same     *)
(* quotes become one.  After a comma, the rest of a variadic macro that is *)
(* empty takes the comma with it.                                          *)
(***************************************************************************)
SameQuotes(left, right) ==
  /\ First(left) \in Quotes /\ First(right) = First(left)
  /\ LastOf(left) = First(left) /\ LastOf(right) = First(left)
  /\ ~(Len(left) >= 3 /\ SubSeq(left, 1, 3) \in {"'''", "\"\"\""})
Glued(left, right) ==
  IF SameQuotes(left, right) THEN SubSeq(left, 1, Len(left) - 1) \o SubSeq(right, 2, Len(right)) ELSE left \o right

RECURSIVE WithoutSpace(_)
WithoutSpace(tokens) ==
  IF tokens # <<>> /\ space(Last(tokens)) /\ Last(tokens).text # "" THEN WithoutSpace(Front(tokens)) ELSE tokens
RECURSIVE PastWritten(_, _)
PastWritten(tokens, at) ==
  IF at <= Len(tokens) /\ space(tokens[at]) /\ tokens[at].text # "" THEN PastWritten(tokens, at + 1) ELSE at

Reread(text, read, site) ==
  IF text = <<>> THEN [error |-> "", tokens |-> <<>>]
  ELSE IF read.phase = "wrong" THEN [error |-> "token paste does not form valid tokens", tokens |-> <<>>]
  ELSE [error |-> "", tokens |-> [n \in 1..(Len(read.tokens) - 1) |-> Piece(Spelled(spelling(text, read.tokens[n])), site)]]
Pasted(macro, left, right, site) ==
  LET text == Chars(Glued(left.text, right.text))
  IN IF left.text = "," /\ macro.variadic
     THEN [error |-> "", tokens |-> IF right.text = "" THEN <<>> ELSE <<left, Piece(right.text, site)>>]
     ELSE Reread(text, lex(text), left.site)

WithPasted(s, at, kept, glue) == [s EXCEPT !.at = at, !.error = glue.error, !.out = kept \o glue.tokens]
PasteStep(macro, body, site, s) ==
  LET before == WithoutSpace(s.out)
      right == PastWritten(body, s.at + 2)
  IN CASE body[s.at].text # "#" -> [s EXCEPT !.at = @ + 1, !.out = Append(@, body[s.at])]
       [] body[s.at].text = "#" /\ ~Hash(body, s.at + 1) ->
            [s EXCEPT !.error = "macro stringification and foreach are not implemented"]
       [] body[s.at].text = "#" /\ Hash(body, s.at + 1) ->
            IF before = <<>> THEN [s EXCEPT !.error = "token paste has no left operand"]
            ELSE IF right > Len(body) THEN [s EXCEPT !.error = "token paste has no right operand"]
            ELSE WithPasted(s, right + 1, Front(before), Pasted(macro, Last(before), body[right], site))
RECURSIVE PasteAll(_, _, _, _)
PasteAll(macro, body, site, s) ==
  IF s.error # "" \/ s.at > Len(body) THEN s ELSE PasteAll(macro, body, site, PasteStep(macro, body, site, s))

Writing(tokens) == [at |-> 1, out |-> tokens, error |-> ""]

(***************************************************************************)
(* Replacement.  A stack of texts being replaced: the argument of the      *)
(* whole at the bottom, the body of a macro whose name is not replaced     *)
(* again above it.  Arguments are replaced on their own, one deeper,       *)
(* before they are put in, unless they are pasted.                         *)
(***************************************************************************)
Layer(tokens, name) == [tokens |-> tokens, at |-> 1, name |-> name]
Expanding(tokens, depth) ==
  [stack |-> <<Layer(tokens, "")>>, out |-> <<>>, work |-> 0, depth |-> depth, error |-> ""]

RECURSIVE Expanded(_, _, _)

\* The tokens a parameter becomes, or the error met in replacing them.
Substituted(env, macros, macro, arguments, depth, replacement, n, site) ==
  LET parameter == Position(replacement[n].text, macro.parameters)
      said == {m \in DOMAIN replacement : ~space(replacement[m])}
      before == {m \in said : m < n}
      after == {m \in said : m > n}
      pasted == (before # {} /\ Hash(replacement, Max(before))) \/ (after # {} /\ Hash(replacement, Min(after)))
      argument == arguments[parameter]
  IN IF parameter = 0 THEN [error |-> "", out |-> <<Piece(replacement[n].text, site)>>]
     ELSE IF ~pasted THEN Expanded(env, macros, Expanding(argument, depth + 1))
     ELSE [error |-> "", out |-> IF Significant(argument) = <<>> THEN <<Piece("", site)>> \o argument ELSE argument]

\* What a use of a macro stands for: # first, then the arguments, then ##.
Whole(s, site) ==
  IF s.error # "" THEN [error |-> s.error] ELSE [error |-> "", tokens |-> Append(s.out, Piece(" ", site))]
PutTogether(env, macro, replacement, parts, site) ==
  LET errors == SelectSeq(parts, LAMBDA p : p.error # "")
      body == FoldLeft(LAMBDA all, p : all \o p.out, <<Piece(" ", site)>>, parts)
      full(n) == /\ Position(replacement[n].text, macro.parameters) # 0 /\ Together(parts[n].out) # ""
                 /\ 1 + FoldLeft(LAMBDA sum, p : sum + Len(p.out), 0, SubSeq(parts, 1, n)) > env.limit
  IN IF errors # <<>> THEN [error |-> Head(errors).error]
     ELSE IF \E n \in DOMAIN parts : full(n) THEN [error |-> "macro substitution exceeds limit"]
     ELSE Whole(PasteAll(macro, body, site, Writing(<<>>)), site)
PutIn(env, macros, macro, arguments, depth, s, site) ==
  IF s.error # "" THEN [error |-> s.error]
  ELSE PutTogether(env, macro, s.out,
         [n \in DOMAIN s.out |-> Substituted(env, macros, macro, arguments, depth, s.out, n, site)], site)
Replacement(env, macros, macro, arguments, depth, site) ==
  PutIn(env, macros, macro, arguments, depth, StringizeAll(macro, arguments, site, Writing(<<>>)), site)

Stacked(s, name, after, new) ==
  IF new.error # "" THEN [s EXCEPT !.error = new.error]
  ELSE [s EXCEPT !.stack = Append(Front(@), [Last(@) EXCEPT !.at = after]) \o <<Layer(new.tokens, name)>>]
ReplaceName(env, macros, s, macro) ==
  LET top == Last(s.stack)
      t == top.tokens[top.at]
      open == PastSpace(top.tokens, top.at + 1)
      called == open <= Len(top.tokens) /\ top.tokens[open].text = "("
      use == Collected(top.tokens, macro.parameters, Collecting(open + 1))
      wrong == IF macro.takes THEN ArgumentError(macro, use, t.site) ELSE ""
      arguments == IF macro.takes THEN Tail_(macro, use.arguments, t.site) ELSE <<>>
      after == IF macro.takes THEN use.at ELSE top.at + 1
  IN IF macro.takes /\ ~called
     THEN [s EXCEPT !.out = Append(@, t), !.stack[Len(s.stack)].at = @ + 1]
     ELSE IF wrong # "" THEN [s EXCEPT !.error = wrong]
     ELSE Stacked(s, t.text, after, Replacement(env, macros, macro, arguments, s.depth, t.site))

Hidden(s) == {s.stack[n].name : n \in DOMAIN s.stack}

ExpandStep(env, macros, s) ==
  LET top == Last(s.stack)
      t == top.tokens[top.at]
  IN CASE s.work > env.limit -> [s EXCEPT !.error = "macro expansion exceeds work limit"]
       [] s.work <= env.limit /\ top.at > Len(top.tokens) -> [s EXCEPT !.stack = Front(@)]
       [] s.work <= env.limit /\ top.at <= Len(top.tokens) ->
            IF word(t) /\ t.text \notin Hidden(s) /\ t.text \in DOMAIN macros
            THEN ReplaceName(env, macros, s, macros[t.text])
            ELSE [s EXCEPT !.out = Append(@, t), !.stack[Len(s.stack)].at = @ + 1]

Expanded(env, macros, s) ==
  IF s.depth >= env.depth THEN [s EXCEPT !.error = "macro argument nesting exceeds 128"]
  ELSE IF s.error # "" \/ s.stack = <<>> THEN s
  ELSE Expanded(env, macros, ExpandStep(env, macros, [s EXCEPT !.work = @ + 1]))

expand(env, macros, tokens) == Expanded(env, macros, Expanding(tokens, 0))

(***************************************************************************)
(* Files.  p: the files read, those being read with their conditions, the  *)
(* macros, the files read only once, what is written, where it is, and     *)
(* what went wrong.                                                        *)
(***************************************************************************)
Processing == [files |-> <<>>, frames |-> <<>>, macros |-> [x \in {} |-> {}], once |-> {}, out |-> <<>>, size |-> 0, read |-> 0,
               current |-> Site(1, 0), error |-> ""]
Fail(p, error) == [p EXCEPT !.error = error]
Top(p) == Last(p.frames)
InTop(p, frame) == [p EXCEPT !.frames[Len(p.frames)] = frame]
Active(frame) == frame.conditions = <<>> \/ Last(frame.conditions).active

load(env, p, path) ==
  LET text == Chars(env.disk[path])
      file == Len(p.files) + 1
      cut == tokenize(text, file)
      opened == [p EXCEPT !.files = Append(@, [path |-> path, text |-> text]), !.current = Site(file, 0), !.read = @ + Len(text)]
  IN IF path \in p.once THEN p
     ELSE IF Len(p.frames) >= env.nesting THEN Fail(p, "include nesting exceeds 256")
     ELSE IF p.read + Len(text) > env.limit THEN Fail(p, "source exceeds configured byte budget")
     ELSE IF cut.phase = "wrong" THEN Fail(opened, "unterminated")
     ELSE [opened EXCEPT !.frames = Append(@, [file |-> file, tokens |-> cut.tokens, at |-> 1, conditions |-> <<>>])]

emit(env, p, t) ==
  IF p.error # "" THEN p
  ELSE IF p.size + Len(t.text) > env.limit THEN Fail(p, "expanded source exceeds byte limit")
  ELSE [p EXCEPT !.out = Append(@, [at |-> p.size, text |-> t.text, site |-> t.site]), !.size = @ + Len(t.text)]

(***************************************************************************)
(* Lines beginning with #.                                                 *)
(***************************************************************************)
Conditional(p, words, name) ==
  LET active == Active(Top(p))
      chosen == active /\ ((words[1].text \in DOMAIN p.macros) = (name = "ifdef"))
  IN IF Len(words) # 1 \/ ~word(words[1]) THEN Fail(p, "conditional requires a macro name")
     ELSE InTop(p, [Top(p) EXCEPT !.conditions =
                      Append(@, [parent |-> active, active |-> chosen, taken |-> chosen, had_else |-> FALSE])])

\* Slip: the else of a condition in text that is left out is taken.
ElseAnyway(p, words) ==
  LET c == Last(Top(p).conditions)
  IN IF Top(p).conditions = <<>> THEN Fail(p, "unmatched else")
     ELSE IF c.had_else \/ words # <<>> THEN Fail(p, "invalid else")
     ELSE InTop(p, [Top(p) EXCEPT !.conditions =
                      Append(Front(@), [c EXCEPT !.active = ~c.taken, !.taken = TRUE, !.had_else = TRUE])])

Else(p, words) ==
  LET c == Last(Top(p).conditions)
  IN IF Top(p).conditions = <<>> THEN Fail(p, "unmatched else")
     ELSE IF c.had_else \/ words # <<>> THEN Fail(p, "invalid else")
     ELSE InTop(p, [Top(p) EXCEPT !.conditions =
                      Append(Front(@), [c EXCEPT !.active = c.parent /\ ~c.taken, !.taken = TRUE, !.had_else = TRUE])])

Endif(p, words) ==
  IF words # <<>> \/ Top(p).conditions = <<>> THEN Fail(p, "unmatched endif")
  ELSE InTop(p, [Top(p) EXCEPT !.conditions = Front(@)])

\* The parameters of a macro, up to the ) that closes them.
ParameterStep(rest, s) ==
  LET t == rest[s.at]
      next == [s EXCEPT !.at = @ + 1]
      dots == t.text = "." /\ s.at + 2 <= Len(rest) /\ rest[s.at + 1].text = "." /\ rest[s.at + 2].text = "."
      close == PastSpace(rest, s.at + 3)
  IN CASE space(t) -> next
       [] s.expect /\ word(t) ->
            IF Contains(s.parameters, t.text) THEN [s EXCEPT !.error = "duplicate macro parameter"]
            ELSE [next EXCEPT !.parameters = Append(@, t.text), !.expect = FALSE]
       [] ~s.expect /\ t.text = "," -> [next EXCEPT !.expect = TRUE]
       [] ~s.expect /\ dots ->
            IF close > Len(rest) \/ rest[close].text # ")" THEN [s EXCEPT !.error = "variadic parameter must be last"]
            ELSE [s EXCEPT !.at = close, !.variadic = TRUE]
       [] ~space(t) /\ ~(s.expect /\ word(t)) /\ ~(~s.expect /\ (t.text = "," \/ dots)) ->
            [s EXCEPT !.error = "unsupported macro parameter list"]
RECURSIVE Parameters(_, _)
Parameters(rest, s) ==
  IF s.error # "" \/ s.at > Len(rest) THEN s
  ELSE IF rest[s.at].text = ")" THEN s ELSE Parameters(rest, ParameterStep(rest, s))

Define(p, arguments, words) ==
  LET name == words[1]
      at == CHOOSE n \in DOMAIN arguments : arguments[n].site.byte = name.site.byte
      rest == SubSeq(arguments, at + 1, Len(arguments))
      takes == rest # <<>> /\ Head(rest).text = "("
      listed == Parameters(rest, [at |-> 2, parameters |-> <<>>, expect |-> TRUE, variadic |-> FALSE, error |-> ""])
      body == SelectSeq(IF takes THEN SubSeq(rest, listed.at + 1, Len(rest)) ELSE rest, LAMBDA t : ~EndsLine(t))
      macro == IF takes THEN Macro(TRUE, listed.parameters, listed.variadic, body) ELSE Macro(FALSE, <<>>, FALSE, body)
  IN CASE words = <<>> -> Fail(p, "missing macro name")
       [] words # <<>> /\ ~word(name) -> Fail(p, "invalid macro name")
       [] words # <<>> /\ word(name) ->
            IF takes /\ listed.error # "" THEN Fail(p, listed.error)
            ELSE IF takes /\ listed.at > Len(rest) THEN Fail(p, "unterminated macro parameters")
            ELSE IF takes /\ listed.expect /\ listed.parameters # <<>> THEN Fail(p, "trailing macro parameter comma")
            ELSE [p EXCEPT !.macros = [x \in DOMAIN p.macros \cup {name.text} |->
                                         IF x = name.text THEN macro ELSE p.macros[x]]]

Undef(p, words) ==
  IF Len(words) # 1 THEN Fail(p, "undef requires a macro name")
  ELSE [p EXCEPT !.macros = [x \in DOMAIN p.macros \ {words[1].text} |-> p.macros[x]]]

RECURSIVE Trimmed(_)
Trimmed(text) ==
  IF text = "" THEN text
  ELSE IF First(text) \in Blanks \cup Breaks THEN Trimmed(SubSeq(text, 2, Len(text)))
  ELSE IF LastOf(text) \in Blanks \cup Breaks THEN Trimmed(SubSeq(text, 1, Len(text) - 1)) ELSE text

\* A name in a directory; an absolute one is what it is in any of them, and its directory is "" here.
PathOf(directory, name) == <<IF First(name) = "/" THEN "" ELSE directory, name>>

\* A quoted name is looked for beside the files being read, innermost first, and then on the include paths;
\* an absolute one is taken as it is, if nothing else was found.
Candidates(env, p, quoted, name) ==
  SelectSeq((IF quoted THEN [n \in DOMAIN p.frames |-> PathOf(p.files[Reverse(p.frames)[n].file].path[1], name)] ELSE <<>>)
            \o [n \in DOMAIN env.paths |-> PathOf(env.paths[n], name)]
            \o (IF First(name) = "/" THEN <<PathOf("", name)>> ELSE <<>>),
            LAMBDA path : path \in DOMAIN env.disk)

IncludeNamed(env, p, read) ==
  LET text == Trimmed(Together(read.out))
      quoted == First(text) = "\"" /\ LastOf(text) = "\""
      found == Candidates(env, p, quoted, SubSeq(text, 2, Len(text) - 1))
  IN IF read.error # "" THEN Fail(p, read.error)
     ELSE IF ~quoted /\ ~(First(text) = "<" /\ LastOf(text) = ">") THEN Fail(p, "invalid include filename")
     ELSE IF found = <<>> THEN Fail(p, "include file not found")
     ELSE load(env, p, Head(found))
Include(env, p, arguments) == IncludeNamed(env, p, expand(env, p.macros, arguments))

Directive(env, p, name, arguments) ==
  LET words == Significant(arguments)
  IN CASE name \in {"ifdef", "ifndef"} -> Conditional(p, words, name)
       [] name = "else" -> Else(p, words)
       [] name = "endif" -> Endif(p, words)
       [] name \in {"if", "elif"} -> Fail(p, "conditional expressions are not implemented")
       [] name \notin {"ifdef", "ifndef", "else", "endif", "if", "elif"} ->
            IF ~Active(Top(p)) THEN p
            ELSE CASE name = "charset" -> IF p.current.byte = 0 THEN p ELSE Fail(p, "charset must be first in its file")
                   [] name = "pragma" /\ Len(words) = 1 /\ Head(words).text = "once" ->
                        [p EXCEPT !.once = @ \cup {p.files[Top(p).file].path}]
                   [] name = "define" -> Define(p, arguments, words)
                   [] name = "undef" -> Undef(p, words)
                   [] name = "include" -> Include(env, p, arguments)
                   [] name = "error" -> Fail(p, "source error directive")
                   [] OTHER -> Fail(p, "unsupported preprocessing directive")

(***************************************************************************)
(* The loop over lines.  A line that is no directive takes with it the     *)
(* lines after it, up to the next directive: a macro's arguments may go    *)
(* over several.                                                           *)
(***************************************************************************)
RECURSIVE LineFrom(_, _)
LineFrom(tokens, at) ==
  IF at > Len(tokens) \/ EndsLine(tokens[at]) THEN Min({at, Len(tokens)}) ELSE LineFrom(tokens, at + 1)
Directs(tokens) == Significant(tokens) # <<>> /\ Head(Significant(tokens)).text = "#"
RECURSIVE TextFrom(_, _)
TextFrom(tokens, end) ==
  LET next == LineFrom(tokens, end + 1)
  IN IF end = Len(tokens) \/ Directs(SubSeq(tokens, end + 1, next)) THEN end ELSE TextFrom(tokens, next)

EndFile(p) ==
  LET at_end == [p EXCEPT !.current = Site(Top(p).file, Len(p.files[Top(p).file].text))]
  IN IF Top(p).conditions # <<>> THEN Fail(at_end, "unterminated conditional")
     ELSE [at_end EXCEPT !.frames = Front(@)]

EndLine(env, p) == emit(env, p, Piece("\n", p.current))
DirectiveLine(env, p, line) ==
  LET hash == CHOOSE n \in DOMAIN line : line[n].text = "#" /\ \A m \in 1..(n - 1) : space(line[m])
      named == PastSpace(line, hash + 1)
  IN IF named > Len(line) THEN p
     ELSE EndLine(env, Directive(env, p, line[named].text, SubSeq(line, named + 1, Len(line))))

WriteAll(env, p, read) ==
  IF read.error # "" THEN Fail(p, read.error) ELSE FoldLeft(LAMBDA q, t : emit(env, q, t), p, read.out)
TextLines(env, p, line) ==
  IF Active(Top(p)) THEN WriteAll(env, p, expand(env, p.macros, line)) ELSE EndLine(env, p)

ProcessStep(env, p) ==
  LET tokens == Top(p).tokens
      at == Top(p).at
      first == LineFrom(tokens, at)
      directs == Directs(SubSeq(tokens, at, first))
      end == IF directs THEN first ELSE TextFrom(tokens, first)
      line == SubSeq(tokens, at, end)
      next == [InTop(p, [Top(p) EXCEPT !.at = end + 1]) EXCEPT !.current = line[1].site]
  IN IF at > Len(tokens) THEN EndFile(p)
     ELSE IF directs THEN DirectiveLine(env, next, line) ELSE TextLines(env, next, line)

RECURSIVE Processed(_, _)
Processed(env, p) ==
  IF p.error # "" \/ p.frames = <<>> THEN p ELSE Processed(env, ProcessStep(env, p))

process(env, path) == Processed(env, load(env, Processing, path))

\* The file and the byte that something written came from.
place(p, byte) ==
  LET before == {n \in DOMAIN p.out : p.out[n].at <= byte}
  IN IF before = {} THEN Site(1, 0) ELSE p.out[Max(before)].site
=============================================================================
