----------------------------- MODULE TextCases -----------------------------
(***************************************************************************)
(* The files, programs and macros on which reading them is compared with   *)
(* what they mean.                                                         *)
(*                                                                         *)
(* Left out: an argument that is a macro standing for itself and more      *)
(* (replaced once as an argument and once again after it), macros that     *)
(* stand for a use of each other in an argument (replaced until the depth  *)
(* is reached), and a backslash at the end of a line inside a literal      *)
(* (a space for the preprocessor, nothing for the lexer).                  *)
(***************************************************************************)
EXTENDS TextMeaning, MacroMeaning
LOCAL INSTANCE FiniteSetsExt
LOCAL INSTANCE SequencesExt

Shapes == {"encoded", "bytes", "pieces", "characters", "macros", "spread", "conditions", "includes", "broken"}

(***************************************************************************)
(* Bytes.                                                                  *)
(***************************************************************************)
Scalars == {65, CR, LF, 233, 8364, 128512}
Requests(encoding) == IF MarkOf(encoding) = <<>> THEN {[requested |-> encoding, mark |-> FALSE]}
                      ELSE {[requested |-> encoding, mark |-> FALSE], [requested |-> "auto", mark |-> TRUE],
                            [requested |-> encoding, mark |-> TRUE]}
Encoded ==
  {[text |-> text, encoding |-> encoding] : text \in BoundedSeq(Scalars, 3), encoding \in Encodings}
Starts == {65, 128, 160, 191, 194, 224, 237, 240, 244, 255}
AnyBytes ==
  {[bytes |-> bytes, encoding |-> "utf-8"] :
     bytes \in BoundedSeq(Starts, 3) \cup {<<first>> \o rest : first \in {240, 244}, rest \in [1..3 -> {65, 128, 143, 144, 191}]}}
    \cup {[bytes |-> bytes, encoding |-> encoding] :
            bytes \in BoundedSeq({0, 65, 216, 220}, 4), encoding \in {"utf-16le", "utf-16be", "ascii"}}

AsWritten(case) ==
  Writable(case.text, case.encoding) =>
    /\ \A request \in Requests(case.encoding) :
         LET mark == IF request.mark THEN MarkOf(case.encoding) ELSE <<>>
         IN \A source \in {decode(mark \o InBytes(case.text, case.encoding), request.requested)} :
              ReadsAs(source, case.text, case.encoding, mark)
    /\ \A source \in {decode(InBytes(case.text \o <<0>> \o case.text, case.encoding), case.encoding)} :
         ~source.ok /\ source.code = "source-nul" /\ source.byte = Len(InBytes(case.text, case.encoding))

(***************************************************************************)
(* Tokens.                                                                 *)
(***************************************************************************)
Piece1(k, x, text) == [k |-> k, x |-> x, text |-> text]
SymbolPiece(x) == Piece1("Symbol", x, x)
Simple ==
  {Piece1("Identifier", "", "a_1"), Piece1("Integer", "10", "20"), Piece1("Integer", "8", "017"),
   Piece1("Integer", "16", "0xfE"), Piece1("BigNumber", "", "1.5e+2"), Piece1("BigNumber", "", ".5"),
   SymbolPiece(">>>="), SymbolPiece("<<"), SymbolPiece("/"), SymbolPiece("..")}
Content(written, value, soft) == [written |-> written, value |-> value, soft |-> soft]
Same(written, value) == Content(written, value, value)
ContentsOf(quote) ==
  {Same("b", <<"b">>), Same("\\n", <<"\n">>), Content("\n \t", <<" ">>, <<" ", "\t">>), Content("\r\n", <<" ">>, <<>>),
   Same("\\\n", <<>>), Same("\\400", <<"U32", "0">>), Same("\\x41", <<"U65">>), Same("\\q", <<"\\", "q">>),
   Same("\\<<z", <<"<", "<", "z">>), Same("\\" \o quote \o "z", <<quote, "z">>), Same("//", <<"/", "/">>),
   Same(IF quote = "'" THEN "\"" ELSE "'", <<IF quote = "'" THEN "\"" ELSE "'">>)}
LiteralPiece(quote, triple, parts, inner) ==
  [k |-> "literal", quote |-> quote, triple |-> triple, parts |-> parts, inner |-> inner]
Fences == {<<"'", FALSE>>, <<"\"", TRUE>>}
Plainly == UNION {{LiteralPiece(f[1], f[2], <<part>>, <<>>) : part \in BoundedSeq(ContentsOf(f[1]), 2)} : f \in Fences}

InnerPieces ==
  {<<SymbolPiece("("), SymbolPiece(">>"), SymbolPiece("{"), SymbolPiece("}"), SymbolPiece(">>"), SymbolPiece(")")>>,
   <<SymbolPiece("]"), Piece1("Integer", "10", "1")>>,
   <<LiteralPiece("\"", FALSE, <<<<Same("b", <<"b">>)>>, <<>>>>, <<<<Piece1("Identifier", "", "c")>>>>)>>,
   <<LiteralPiece("'", TRUE, <<<<>>, <<Same("'", <<"'">>)>>>>, <<<<SymbolPiece("<<")>>>>)>>}
Parted(quote) == {<<>>, <<Same("\\n", <<"\n">>)>>, <<Content("\n ", <<" ">>, <<" ">>), Same("b", <<"b">>)>>}
Embedded ==
  {LiteralPiece(f[1], f[2], <<p, q>>, <<i>>) : f \in Fences, p \in Parted("'"), q \in Parted("'"), i \in InnerPieces}
    \cup {LiteralPiece(f[1], f[2], <<p, <<>>, p>>, <<i, j>>) : f \in Fences, p \in Parted("'"), i \in InnerPieces, j \in InnerPieces}

Betweens == {" ", "\n", " /* >>'\n */", " // \"\r\n"}
PieceCases ==
  {[pieces |-> pieces, between |-> between] : pieces \in [1..2 -> Simple] \cup {<<l>> : l \in Plainly}, between \in Betweens}
    \cup {[pieces |-> <<SymbolPiece("("), l, Piece1("Identifier", "", "d")>>, between |-> between] :
            l \in Embedded, between \in {" ", " /* >>'\n */"}}

Alphabet == {"\"", "'", "<", ">", "/", "*", "\n", "a", "(", ")", "\\"}
Framed == {[before |-> "", after |-> ""], [before |-> "\"<<", after |-> ">>\""], [before |-> "'''", after |-> "'''"]}
CharacterCases == {Chars(f.before) \o s \o Chars(f.after) : f \in Framed, s \in BoundedSeq(Alphabet, 3)}
Spliced(text) == \E n \in 1..(Len(text) - 1) : text[n] = "\\" /\ text[n + 1] = "\n"

AgreesAsPieces(case) ==
  \A text \in {Chars(PiecesWritten(case.pieces, case.between))} :
    LexesAs(text, case.pieces) /\ (~Spliced(text) => CutsAs(text))

(***************************************************************************)
(* Macros.                                                                 *)
(***************************************************************************)
Fs == {<<P(1)>>, <<P(1), W("+"), P(1)>>, <<Text(1, "\"")>>, <<Text(1, "'"), W("p")>>, <<Paste(W("p"), P(1))>>,
       <<Paste(P(1), W("X"))>>, <<Use("g", <<<<P(1)>>, <<W("p")>>>>)>>, <<Use("f", <<<<P(1)>>>>), P(1)>>, <<W("X"), P(1)>>}
Gs == {<<P(2), W("-"), P(1)>>, <<Text(2, "\"")>>, <<Paste(P(1), P(2))>>, <<Use("f", <<<<P(1)>>>>), P(2)>>}
Xs == {<<W("p")>>, <<W("Y"), W("1")>>, <<Use("f", <<<<W("p")>>>>)>>, <<>>}
Ys == {<<W("q")>>, <<W("X"), W("2")>>}
\* A comma in brackets is part of its argument.
Bracketed == {<<Use("f", <<<<W(b[1]), W("a"), W(","), W("b"), W(b[2])>>>>)>> : b \in {<<"(", ")">>, <<"[", "]">>, <<"{", "}">>}}
Lines1 ==
  {<<W("X"), Use("f", <<<<W("a")>>>>)>>, <<Use("f", <<<<Use("f", <<<<W("b")>>>>)>>>>), W("Y")>>,
   <<Use("g", <<<<W("a")>>, <<W("b")>>>>), W("g")>>, <<Use("h", <<<<W("X")>>, <<W("f")>>>>), W("\"X\"")>>,
   <<Use("f", <<<<W("\"q\"")>>>>), Use("f", <<<<>>>>)>>} \cup Bracketed
Rests == {<<Use("v", <<<<W("a")>>>>)>>, <<Use("v", <<<<W("a")>>, <<W("b")>>, <<W("c")>>>>)>>}
Vs == {<<P(1), P(2)>>, <<W("("), Text(2, "\"")>>}

One(items) == [files |-> [p \in {<<"d", "main">>} |-> items], paths |-> <<>>, main |-> <<"d", "main">>]
F(template) == DefineTaking("f", <<"x">>, FALSE, template)
G(template) == DefineTaking("g", <<"x", "y">>, FALSE, template)
V(template) == DefineTaking("v", <<"x", "y">>, TRUE, template)
\* What is pasted is one token or none.
Pastes(f) == f[1].k = "paste"
Joins(f) == f[1].k \in {"paste", "text"}
Nests(l) == l[1].k = "use" /\ \E n \in DOMAIN l[1].args : \E m \in DOMAIN l[1].args[n] : l[1].args[n][m].k = "use"
\* What an argument stands for is not replaced further.
Stable(macros, l) ==
  \A n \in DOMAIN l[1].args : l[1].x \in DOMAIN macros =>
    \A m \in DOMAIN Mean(macros, l[1].args[n], {}) : Mean(macros, l[1].args[n], {})[m].x \notin DOMAIN macros
Macros(c) == [f |-> F(c.f).macro, g |-> G(c.g).macro, X |-> DefineAs("X", c.x).macro, Y |-> DefineAs("Y", c.y).macro]
Used ==
  {c \in [f : Fs, g : Gs, x : Xs, y : Ys, line : Lines1] : Stable(Macros(c), c.line) /\ (Nests(c.line) => ~Pastes(c.f))
     /\ (c.line \in Bracketed => ~Joins(c.f) /\ ~Joins(c.g) /\ c.x = <<W("p")>>)}
Uses(c) == One(<<F(c.f), G(c.g), DefineAs("X", c.x), DefineAs("Y", c.y), Line(c.line)>>)
MacroCases == {Uses(c) : c \in Used}
\* The same over several lines.
SpreadCases ==
  {Uses(c) : c \in {d \in Used : d.x = <<W("Y"), W("1")>> /\ d.y = <<W("X"), W("2")>>}}
    \cup {One(<<F(f), V(v), Line(<<W("a")>>), Line(r)>>) : f \in Fs, v \in Vs, r \in Rests}
Between == {" ", "/*\n*/", " \\\n"}

(***************************************************************************)
(* Conditions, and files.                                                  *)
(***************************************************************************)
Leaves == {<<Line(<<W("X")>>)>>, <<DefineAs("X", <<W("1")>>)>>, <<Undefine("X")>>}
Whens(bodies, others) == {<<When(d, "X", t, e)>> : d \in {TRUE, FALSE}, t \in bodies, e \in others}
Nested2 == Whens(Leaves, {<<>>} \cup Leaves)
ConditionCases ==
  {One(first \o w \o <<Line(<<W("X")>>)>>) : first \in {<<>>, <<DefineAs("X", <<W("0")>>)>>},
     w \in Whens(Nested2, {<<>>} \cup Leaves) \cup Whens(Leaves, Nested2)}

Headers == {<<Line(<<W("X"), W("h")>>)>>, <<Once, IncludeOf(FALSE, "/k"), Line(<<W("h")>>)>>,
            <<DefineAs("X", <<W("1")>>), IncludeOf(TRUE, "k")>>,
            <<When(FALSE, "X", <<DefineAs("X", <<W("2")>>), IncludeOf(FALSE, "k"), Line(<<W("X")>>)>>, <<>>)>>}
Mains == {<<IncludeOf(q, "h"), Line(<<W("X")>>), IncludeOf(r, "h")>> : q, r \in {TRUE, FALSE}}
IncludeCases ==
  {[files |-> [p \in {<<"d", "main">>, <<"d", "h">>, <<"i", "h">>, <<"i", "k">>, <<"d", "k">>, <<"", "/k">>} |->
                 CASE p = <<"d", "main">> -> main [] p = <<"d", "h">> -> h [] p = <<"i", "h">> -> i
                   [] p = <<"i", "k">> -> <<Line(<<W("i"), W("X")>>)>> [] p = <<"", "/k">> -> <<Line(<<W("k"), W("X")>>)>> [] OTHER -> <<Once, Line(<<W("X")>>)>>],
    paths |-> <<"i">>, main |-> <<"d", "main">>] : main \in Mains, h \in Headers, i \in Headers}

(***************************************************************************)
(* What cannot be processed says why.                                      *)
(***************************************************************************)
Fails(text, error) == [text |-> text, error |-> error]
Broken ==
  {Fails("#endif", "unmatched endif"), Fails("#else", "unmatched else"), Fails("#ifdef X\na", "unterminated conditional"),
   Fails("#ifdef X\n#else\n#else\n#endif", "invalid else"), Fails("#ifdef X\n#if 1\n#endif", "conditional expressions are not implemented"),
   Fails("#define f(a,)", "trailing macro parameter comma"), Fails("#define f(a", "unterminated macro parameters"),
   Fails("#define f(a, a) a", "duplicate macro parameter"), Fails("#define f(a..., b) a", "variadic parameter must be last"),
   Fails("#define f(a) a\nf(b\n#undef f\n)", "unterminated macro invocation"),
   Fails("#define f(a) a\nf(b, c)", "wrong macro argument count"), Fails("#define f(a, b, c...) a\nf(1)", "too few macro arguments"),
   Fails("#define p ## a\np", "token paste has no left operand"), Fails("#define p a ##\np", "token paste has no right operand"),
   Fails("#define f(a) #b\nf(1)", "stringizing requires a macro parameter"), Fails("#define f(a) a ## '\nf(1)", "unterminated"),
   Fails("#include \"h\"", "include file not found"), Fails("#include <main>", "include nesting exceeds 256"),
   Fails("#include h", "invalid include filename"), Fails("a\n#charset \"ascii\"", "charset must be first in its file"),
   Fails("#ifdef X\n#error a\n#wrong\n#else\n#error b\n#endif", "source error directive"),
   Fails("#define f(a) a a a a\nf(f(f(f(f(b)))))", "macro substitution exceeds limit"),
   Fails("#define a b b b b b b b b\n#define b c c c c c c c c\na a", "macro expansion exceeds work limit"), Fails("/*", "unterminated")}
Refuses(case) ==
  process([Ample EXCEPT !.paths = <<"d">>, !.limit = 150] @@ [disk |-> [p \in {<<"d", "main">>} |-> case.text]],
          <<"d", "main">>).error = case.error

Cases(shape) ==
  CASE shape = "encoded" -> [encoded : Encoded]
    [] shape = "bytes" -> [bytes : AnyBytes]
    [] shape = "pieces" -> [pieces : PieceCases]
    [] shape = "characters" -> [characters : CharacterCases]
    [] shape = "macros" -> [files : MacroCases]
    [] shape = "spread" -> [spread : SpreadCases]
    [] shape = "conditions" -> [files : ConditionCases]
    [] shape = "includes" -> [spread : IncludeCases]
    [] shape = "broken" -> [broken : Broken]

AgreesOn(case) ==
  LET k == CHOOSE f \in DOMAIN case : TRUE
  IN CASE k = "encoded" -> AsWritten(case.encoded)
       [] k = "bytes" -> ReadsBack(case.bytes.bytes, case.bytes.encoding)
       [] k = "pieces" -> AgreesAsPieces(case.pieces)
       [] k = "characters" -> ~Spliced(case.characters) => CutsAs(case.characters)
       [] k \in {"files", "spread"} ->
            \A between \in (IF k = "files" THEN {" "} ELSE Between) : ProcessesAs(case[k], between)
       [] k = "broken" -> Refuses(case.broken)
=============================================================================
