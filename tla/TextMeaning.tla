---------------------------- MODULE TextMeaning ----------------------------
(***************************************************************************)
(* What a source text means, said of what it was written from: characters  *)
(* in an encoding; tokens, spaces, comments and literals.                  *)
(***************************************************************************)
EXTENDS Source, Preprocess
LOCAL INSTANCE FiniteSets
LOCAL INSTANCE FiniteSetsExt
LOCAL INSTANCE SequencesExt

(***************************************************************************)
(* Encodings.                                                              *)
(***************************************************************************)
Continuation(c, shift) == 128 + ((c \div shift) % 64)
InUtf8(c) ==
  IF c < 128 THEN <<c>>
  ELSE IF c < 2048 THEN <<192 + c \div 64, Continuation(c, 1)>>
  ELSE IF c < 65536 THEN <<224 + c \div 4096, Continuation(c, 64), Continuation(c, 1)>>
  ELSE <<240 + c \div 262144, Continuation(c, 4096), Continuation(c, 64), Continuation(c, 1)>>
BigEnd(w) == <<w \div 256, w % 256>>
InUtf16(c) ==
  IF c < 65536 THEN BigEnd(c) ELSE BigEnd(55296 + (c - 65536) \div 1024) \o BigEnd(56320 + ((c - 65536) % 1024))
Swapped(bytes) == [n \in DOMAIN bytes |-> bytes[IF n % 2 = 1 THEN n + 1 ELSE n - 1]]
Written1(c, encoding) ==
  CASE encoding = "utf-8" -> InUtf8(c) [] encoding = "utf-16be" -> InUtf16(c)
    [] encoding = "utf-16le" -> Swapped(InUtf16(c)) [] OTHER -> <<c>>
InBytes(text, encoding) == FlattenSeq([n \in DOMAIN text |-> Written1(text[n], encoding)])
Writable(text, encoding) ==
  \A n \in DOMAIN text : text[n] <= (CASE encoding = "ascii" -> 127 [] encoding = "latin-1" -> 255 [] OTHER -> 1114111)
MarkOf(encoding) ==
  CASE encoding = "utf-8" -> <<239, 187, 191>> [] encoding = "utf-16be" -> <<254, 255>>
    [] encoding = "utf-16le" -> <<255, 254>> [] OTHER -> <<>>

\* The line ends among the first n characters: CR LF is one, once its LF is there.
Breaks_(text, n) ==
  Cardinality({m \in 1..n : \/ text[m] = LF
                            \/ text[m] = CR /\ ~(m < Len(text) /\ text[m + 1] = LF)})

ReadsAs(source, text, encoding, mark) ==
  LET place_(n) == Len(mark) + Len(InBytes(SubSeq(text, 1, n - 1), encoding))
      line(n) == Breaks_(text, n - 1) + 1
      begins(n) == Min({m \in 1..n : line(m) = line(n)})
  IN /\ source.ok
     /\ [n \in DOMAIN source.units |-> source.units[n].ch] = text
     /\ \A n \in DOMAIN text :
          /\ source.units[n].start = place_(n) /\ source.units[n].end = place_(n + 1)
          /\ location(source, place_(n)) = <<line(n), place_(n) - place_(begins(n)) + 1>>

\* Bytes from anywhere: what is read says the same bytes, and what is refused is refused where it goes wrong.
ReadsBack(bytes, encoding) ==
  \A source \in {decode(bytes, encoding)} :
    LET text == [n \in DOMAIN source.units |-> source.units[n].ch]
    IN IF source.ok
       THEN /\ InBytes(text, Chosen(bytes, encoding)) = SubSeq(bytes, Skipped(bytes) + 1, Len(bytes))
            /\ \A n \in DOMAIN text : text[n] # 0 /\ IsScalar(text[n])
       ELSE /\ source.byte \in 0..(Len(bytes) - 1)
            /\ decode(SubSeq(bytes, 1, source.byte), encoding).ok \/ source.byte = Len(bytes) - 1

(***************************************************************************)
(* Tokens.  A piece is a token or a literal; a literal has parts, and      *)
(* between two parts the pieces of an expression.  A part is a sequence of *)
(* contents: how each is written, what it stands for, and what it stands   *)
(* for after \n.                                                           *)
(***************************************************************************)
Fence(l) == IF l.triple THEN l.quote \o l.quote \o l.quote ELSE l.quote
Contents(part) == FoldLeft(LAMBDA s, c : s \o c.written, "", part)
Stands(part) ==
  FlattenSeq([n \in DOMAIN part |->
                IF n > 1 /\ part[n - 1].written = "\\n" THEN part[n].soft ELSE part[n].value])

RECURSIVE PiecesWritten(_, _)
PiecesWritten(pieces, between) ==
  LET one(p) ==
        IF p.k # "literal" THEN p.text
        ELSE Fence(p) \o Contents(Head(p.parts))
               \o FoldLeft(LAMBDA s, n : s \o "<<" \o PiecesWritten(p.inner[n], " ") \o ">>" \o Contents(p.parts[n + 1]),
                           "", [n \in DOMAIN p.inner |-> n])
               \o Fence(p)
  IN IF pieces = <<>> THEN ""
     ELSE FoldLeft(LAMBDA s, p : s \o between \o one(p), one(Head(pieces)), Tail(pieces))

Meant(k, x, text, value) == [k |-> k, x |-> x, text |-> text, value |-> value]
RECURSIVE TokensOf(_)
TokensOf(pieces) ==
  LET middle(p, n) ==
        IF n = Len(p.inner) THEN Meant("Tail", p.quote, Contents(p.parts[n + 1]) \o Fence(p), Stands(p.parts[n + 1]))
        ELSE Meant("Middle", p.quote, Contents(p.parts[n + 1]) \o "<<", Stands(p.parts[n + 1]))
      head(p) ==
        IF p.inner = <<>> THEN Meant("Quoted", p.quote, Fence(p) \o Contents(Head(p.parts)) \o Fence(p), Stands(Head(p.parts)))
        ELSE Meant("Head", p.quote, Fence(p) \o Contents(Head(p.parts)) \o "<<", Stands(Head(p.parts)))
      one(p) ==
        IF p.k # "literal" THEN <<Meant(p.k, p.x, p.text, <<>>)>>
        ELSE <<head(p)>> \o FlattenSeq([n \in DOMAIN p.inner |-> Append(TokensOf(p.inner[n]), middle(p, n))])
  IN FlattenSeq([n \in DOMAIN pieces |-> one(pieces[n])])

Literals == {"Quoted", "Head", "Middle", "Tail"}
LexesAs(text, pieces) ==
  \A read \in {lex(text)} : \A meant \in {TokensOf(pieces)} :
    /\ read.phase = "ended" /\ Len(read.tokens) = Len(meant) + 1
    /\ \A n \in DOMAIN meant :
         LET t == read.tokens[n]
         IN /\ t.k = meant[n].k /\ t.x = meant[n].x /\ Spelled(spelling(text, t)) = meant[n].text
            /\ t.k \in Literals => literal(text, t) = meant[n].value

\* What the preprocessor cuts, put together, has the tokens the text has, each where it was.
CutsAs(text) ==
  \A cut \in {tokenize(text, 1)} : \A read \in {lex(text)} :
    LET again == Chars(Together(cut.tokens))
        same(a, s, b, t) == a.k = b.k /\ a.x = b.x /\ spelling(s, a) = spelling(t, b)
    IN read.phase = "ended" =>
         /\ cut.phase = "ended"
         /\ \A reread \in {lex(again)} :
              /\ reread.phase = "ended" /\ Len(reread.tokens) = Len(read.tokens)
              /\ \A n \in DOMAIN read.tokens : same(read.tokens[n], text, reread.tokens[n], again)
         /\ \A n \in DOMAIN cut.tokens :
              ~space(cut.tokens[n]) =>
                SubSeq(text, cut.tokens[n].site.byte + 1, cut.tokens[n].site.byte + Len(cut.tokens[n].text))
                  = Chars(cut.tokens[n].text)
=============================================================================
