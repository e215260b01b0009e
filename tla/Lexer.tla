------------------------------- MODULE Lexer -------------------------------
(***************************************************************************)
(* The tokens of a program (lexer.rs) and the text of its literals         *)
(* (strings.rs).  A text is a sequence of characters; places are           *)
(* zero-based.  A literal that embeds expressions between << and >> is a   *)
(* head, the tokens of the expressions, middles, and a tail.               *)
(***************************************************************************)
EXTENDS Integers, Sequences
LOCAL INSTANCE FiniteSets
LOCAL INSTANCE FiniteSetsExt
LOCAL INSTANCE SequencesExt
LOCAL INSTANCE TLC

\* (Put together, so that it is worked out once.)
Chars(s) == [n \in 1..Len(s) |-> SubSeq(s, n, n)] \o <<>>
Spelled(chars) == FoldLeft(LAMBDA s, c : s \o c, "", chars)

ch(text, at) == IF at < Len(text) THEN text[at + 1] ELSE ""
Breaks == {"\n", "\r"}
Blanks == {" ", "\t"}
Quotes == {"'", "\""}

Digits10 == Range(Chars("0123456789"))
Digits16 == Digits10 \cup Range(Chars("abcdefABCDEF"))
Digits8 == Range(Chars("01234567"))
Letters == Range(Chars("abcdefghijklmnopqrstuvwxyzABCDEFGHIJKLMNOPQRSTUVWXYZ"))
Alphanumerics == Letters \cup Digits10

DigitValue(c) ==
  LET at(digits) == (CHOOSE n \in 1..16 : SubSeq(digits, n, n) = c) - 1
  IN IF c \in Range(Chars("ABCDEF")) THEN at("0123456789ABCDEF") ELSE at("0123456789abcdef")

\* How many characters of a set follow, at most so many.
Run(text, at, set, most) ==
  LET all == Min({most, Len(text) - at})
  IN CHOOSE n \in 0..all : (n = all \/ text[at + n + 1] \notin set) /\ \A m \in 1..n : text[at + m] \in set
All(text, at, set) == IF at >= Len(text) THEN 0 ELSE Run(text, at, set, Len(text))
Repeated(c, n) == [k \in 1..n |-> c]
\* The end of a line: CR LF is one.
BreakLength(text, at) == IF ch(text, at) = "\r" /\ ch(text, at + 1) = "\n" THEN 2 ELSE 1

(***************************************************************************)
(* A literal, or the part of one after an embedding, up to its quotes or   *)
(* to the next <<.  soft: the last thing was \n, and a line end adds       *)
(* nothing.                                                                *)
(***************************************************************************)
Scanning(at) == [at |-> at, value |-> <<>>, soft |-> FALSE, more |-> FALSE, phase |-> "text", code |-> ""]
Emit(s, chars, at) == [s EXCEPT !.value = @ \o chars, !.at = at, !.soft = FALSE]
Ended(s, at, more) == [s EXCEPT !.phase = "ended", !.at = at, !.more = more]
Wrong(s, code) == [s EXCEPT !.phase = "wrong", !.code = code]

QuoteRun(text, quote, triple, s) ==
  LET count == All(text, s.at, {quote})
  IN IF ~triple THEN Ended(s, s.at + 1, FALSE)
     ELSE IF count >= 3 THEN Ended(Emit(s, Repeated(quote, count - 3), 0), s.at + count, FALSE)
     ELSE Emit(s, Repeated(quote, count), s.at + count)

LineEnd(text, s) ==
  LET after == s.at + BreakLength(text, s.at)
  IN IF s.soft THEN Emit(s, <<>>, after) ELSE Emit(s, <<" ">>, after + All(text, after, Blanks))

Plain == {"\\", "'", "\"", "<", ">"}
Letter(code) ==
  CASE code = "n" -> "\n" [] code = "r" -> "\r" [] code = "t" -> "\t" [] code = "b" -> "U11"
    [] code = "v" -> "U14" [] code = "^" -> "U15" [] code = " " -> "U21"
\* A character written by its number, which names it here.
Numbered(value) == "U" \o ToString(value)
Value(text, at, count, base) ==
  FoldLeft(LAMBDA value, c : value * base + DigitValue(c), 0, SubSeq(text, at + 1, at + count))
IsScalar(value) == value \notin 55296..57343

NumberEscape(text, s, at, limit) ==
  LET count == IF at >= Len(text) THEN 0 ELSE Run(text, at, Digits16, limit)
      value == Value(text, at, count, 16)
  IN IF count = 0 \/ ~IsScalar(value) THEN Wrong(s, "lex-escape")
     ELSE Emit(s, <<Numbered(value)>>, at + count)

\* Slip: three digits whatever the first one is.
OctalAlwaysThree(code) == 3
OctalDigits(code) == IF DigitValue(code) <= 3 THEN 3 ELSE 2

Escape(text, quote, triple, s) ==
  LET code == ch(text, s.at + 1)
      after == s.at + 2
      count == IF triple /\ code = quote THEN All(text, after, {quote}) ELSE 0
      octal == Run(text, s.at + 1, Digits8, OctalDigits(code))
      done ==
        IF triple /\ code = quote THEN Emit(s, Repeated(quote, 1 + count), after + count) ELSE
        CASE code = "" -> Wrong(s, "lex-string")
          [] code \in Breaks -> Emit(s, <<>>, s.at + 1 + BreakLength(text, s.at + 1))
          [] code \in Plain -> Emit(s, <<code>>, after)
          [] code \in {"n", "r", "t", "b", "v", "^", " "} -> Emit(s, <<Letter(code)>>, after)
          [] code = "x" -> NumberEscape(text, s, after, 2)
          [] code = "u" -> NumberEscape(text, s, after, 4)
          [] code \in Digits8 -> Emit(s, <<Numbered(Value(text, s.at + 1, octal, 8))>>, s.at + 1 + octal)
          [] OTHER -> Emit(s, <<"\\", code>>, after)
  IN [done EXCEPT !.soft = code = "n"]

ScanStep(text, quote, triple, s) ==
  LET c == ch(text, s.at)
  IN CASE c = "" -> Wrong(s, "lex-string")
       [] c = quote -> QuoteRun(text, quote, triple, s)
       [] c = "<" /\ ch(text, s.at + 1) = "<" -> Ended(s, s.at, TRUE)
       [] c \in Breaks -> LineEnd(text, s)
       [] c = "\\" -> Escape(text, quote, triple, s)
       [] OTHER -> Emit(s, <<c>>, s.at + 1)

RECURSIVE Scanned(_, _, _, _)
Scanned(text, quote, triple, s) ==
  IF s.phase # "text" THEN s ELSE Scanned(text, quote, triple, ScanStep(text, quote, triple, s))

scan_part(text, start, quote, triple) == Scanned(text, quote, triple, Scanning(start))

Triple(text, start) == ch(text, start + 1) = ch(text, start) /\ ch(text, start + 2) = ch(text, start)
scan(text, start) ==
  scan_part(text, start + (IF Triple(text, start) THEN 3 ELSE 1), ch(text, start), Triple(text, start))

(***************************************************************************)
(* Tokens: what kind, how written or in which quotes, and from where to    *)
(* where.                                                                  *)
(***************************************************************************)
Token(k, x, triple, start, end) == [k |-> k, x |-> x, triple |-> triple, start |-> start, end |-> end]
Lexing == [at |-> 0, tokens |-> <<>>, embeddings |-> <<>>, phase |-> "text", code |-> ""]

\* Longer symbols before the shorter ones they begin with.
Symbols ==
  <<"->", "@", ">>>=", "<<=", ">>=", ">>>", "...", "++", "--", "+=", "-=", "*=", "/=", "%=", "&=", "|=", "^=",
    "==", "!=", "<=", ">=", "&&", "||", "<<", ">>", "??", "..", "{", "}", "(", ")", "[", "]", ";", ",", ":", "?",
    "+", "-", "*", "/", "%", "&", "|", "^", "~", "!", "=", "<", ">", ".">>
Matching(text, at) ==
  LET head == Spelled(SubSeq(text, at + 1, Min({Len(text), at + 4})))
  IN SelectSeq(Symbols, LAMBDA y : Len(y) <= Len(head) /\ SubSeq(head, 1, Len(y)) = y)

\* A bracket inside an embedding: its >> is not the first that comes.
Deeper(s, k, x) ==
  IF s.embeddings = <<>> \/ k # "Symbol" THEN s.embeddings
  ELSE LET e == Last(s.embeddings)
       IN Append(Front(s.embeddings),
                 [e EXCEPT !.depth = IF x \in {"(", "[", "{"} THEN @ + 1
                                     ELSE IF x \in {")", "]", "}"} /\ @ > 0 THEN @ - 1 ELSE @])

Take(s, k, x, triple, end) ==
  [s EXCEPT !.tokens = Append(@, Token(k, x, triple, s.at, end)), !.at = end, !.embeddings = Deeper(s, k, x)]
Bad(s, code) == [s EXCEPT !.phase = "wrong", !.code = code]

Comment(text, s) ==
  LET ends == {n \in (s.at + 2)..(Len(text) - 2) : text[n + 1] = "*" /\ text[n + 2] = "/"}
  IN IF ch(text, s.at + 1) = "/"
     THEN [s EXCEPT !.at = Min({n \in (s.at + 2)..Len(text) : n = Len(text) \/ text[n + 1] \in Breaks})]
     ELSE IF ends = {} THEN Bad(s, "lex-comment") ELSE [s EXCEPT !.at = Min(ends) + 2]

Identifier(text, s) ==
  Take(s, "Identifier", "", FALSE, s.at + All(text, s.at, Alphanumerics \cup {"_"}))

Hexadecimal(text, s) ==
  LET end == s.at + 2 + All(text, s.at + 2, Digits16)
  IN IF end = s.at + 2 \/ ch(text, end) \in Alphanumerics \cup {"_"} THEN Bad(s, "lex-number")
     ELSE Take(s, "Integer", "16", FALSE, end)

\* A dot that another dot follows is not a part of the number.
Fraction(text, at) ==
  IF ch(text, at) = "." /\ ch(text, at + 1) # "." THEN at + 1 + All(text, at + 1, Digits10) ELSE at
Power(text, at) ==
  LET signed == at + (IF ch(text, at + 1) \in {"+", "-"} THEN 2 ELSE 1)
      digits == All(text, signed, Digits10)
  IN IF ch(text, at) \notin {"e", "E"} THEN at ELSE IF digits = 0 THEN 0 ELSE signed + digits
\* A number whose digits end at whole, and that ends at end, or nowhere.
Numeral(text, s, whole, end) ==
  LET octal == text[s.at + 1] = "0" /\ end - s.at > 1
  IN IF end = 0 \/ ch(text, end) \in Letters \cup {"_"} THEN Bad(s, "lex-number")
     ELSE IF end > whole THEN Take(s, "BigNumber", "", FALSE, end)
     ELSE IF ~octal THEN Take(s, "Integer", "10", FALSE, end)
     ELSE IF All(text, s.at, Digits8) < end - s.at THEN Bad(s, "lex-number")
     ELSE Take(s, "Integer", "8", FALSE, end)
Decimal(text, s) ==
  LET whole == s.at + All(text, s.at, Digits10)
  IN Numeral(text, s, whole, Power(text, Fraction(text, whole)))

Number(text, s) ==
  IF ch(text, s.at) = "0" /\ ch(text, s.at + 1) \in {"x", "X"} THEN Hexadecimal(text, s) ELSE Decimal(text, s)

TakeLiteral(s, quote, triple, read) ==
  CASE read.phase = "wrong" -> Bad(s, read.code)
    [] read.phase = "ended" /\ ~read.more -> Take(s, "Quoted", quote, triple, read.at)
    [] OTHER ->
         [Take(s, "Head", quote, triple, read.at + 2) EXCEPT
            !.embeddings = Append(@, [quote |-> quote, triple |-> triple, depth |-> 0])]
Literal(text, s) == TakeLiteral(s, ch(text, s.at), Triple(text, s.at), scan(text, s.at))

Embedding(s) == s.embeddings # <<>> /\ Last(s.embeddings).depth = 0
\* The literal goes on after the >> that ends an embedding.
TakePart(s, e, read) ==
  LET from == [s EXCEPT !.at = @ + 2]
  IN IF read.phase = "wrong" THEN Bad(s, read.code)
     ELSE IF read.more THEN Take(from, "Middle", e.quote, e.triple, read.at + 2)
     ELSE [Take(from, "Tail", e.quote, e.triple, read.at) EXCEPT !.embeddings = Front(@)]
Continued(text, s) ==
  LET e == Last(s.embeddings)
  IN TakePart(s, e, scan_part(text, s.at + 2, e.quote, e.triple))

Symbol(text, s) ==
  LET found == Matching(text, s.at)
  IN IF found = <<>> THEN Bad(s, "lex-character")
     ELSE Take(s, "Symbol", Head(found), FALSE, s.at + Len(Head(found)))

LexStep(text, s) ==
  LET c == ch(text, s.at)
      next == ch(text, s.at + 1)
  IN CASE c = "" -> IF s.embeddings # <<>> THEN Bad(s, "lex-string")
                    ELSE [Take(s, "End", "", FALSE, s.at) EXCEPT !.phase = "ended"]
       [] c = ">" /\ next = ">" /\ Embedding(s) -> Continued(text, s)
       [] c \in Breaks \cup Blanks -> [s EXCEPT !.at = @ + 1]
       [] c = "/" /\ next \in {"/", "*"} -> Comment(text, s)
       [] c \in Letters \cup {"_"} -> Identifier(text, s)
       [] c \in Digits10 \/ (c = "." /\ next \in Digits10) -> Number(text, s)
       [] c \in Quotes -> Literal(text, s)
       [] c = "#" -> Bad(s, "lex-unavailable")
       [] OTHER -> Symbol(text, s)

RECURSIVE Lexed(_, _)
Lexed(text, s) == IF s.phase # "text" THEN s ELSE Lexed(text, LexStep(text, s))
lex(text) == Lexed(text, Lexing)

\* What is written in a token, and the text a literal or a part of one stands for.
spelling(text, t) == SubSeq(text, t.start + 1, t.end)
literal(text, t) ==
  IF t.k \in {"Middle", "Tail"} THEN scan_part(text, t.start, t.x, t.triple).value ELSE scan(text, t.start).value
=============================================================================
