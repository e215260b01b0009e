---------------------------- MODULE MacroMeaning ----------------------------
(***************************************************************************)
(* What the preprocessor makes of files, said of the lines they are        *)
(* written from: conditions have a body and an else, a use of a macro has  *)
(* arguments, and what a macro stands for is a template.                   *)
(*                                                                         *)
(* An expression is a word, a use of a macro, or a token already replaced, *)
(* with its line.  A macro's template also has parameters, as they are, as *)
(* a literal, or pasted to what is beside them.                            *)
(***************************************************************************)
EXTENDS Preprocess
LOCAL INSTANCE FiniteSetsExt
LOCAL INSTANCE SequencesExt

W(x) == [k |-> "word", x |-> x, args |-> <<>>, line |-> 0]
Use(x, args) == [k |-> "use", x |-> x, args |-> args, line |-> 0]
Done(x, line) == [k |-> "done", x |-> x, args |-> <<>>, line |-> line]
P(n) == [k |-> "parameter", n |-> n]
Text(n, quote) == [k |-> "text", n |-> n, quote |-> quote]
Paste(left, right) == [k |-> "paste", left |-> left, right |-> right]

Join(strings, between) ==
  IF strings = <<>> THEN "" ELSE FoldLeft(LAMBDA s, t : s \o between \o t, Head(strings), Tail(strings))

RECURSIVE Said(_, _, _, _)
\* Expressions or a template as they are written: the parameters' names, what is between two, and after a comma.
Said(es, names, between, comma) ==
  LET one(e) ==
        CASE e.k \in {"word", "done"} -> e.x
          [] e.k = "parameter" -> names[e.n]
          [] e.k = "text" -> (IF e.quote = "'" THEN "#@" ELSE "#") \o names[e.n]
          [] e.k = "paste" -> Said(<<e.left>>, names, "", "") \o " ## " \o Said(<<e.right>>, names, "", "")
          [] e.k = "use" -> e.x \o "(" \o Join([n \in DOMAIN e.args |-> Said(e.args[n], names, " ", "")], "," \o comma) \o ")"
  IN Join([n \in DOMAIN es |-> one(es[n])], between)

LineEnds(s) == Cardinality({n \in 1..Len(s) : SubSeq(s, n, n) = "\n"})
\* Expressions at their lines, written one after the other with this between them.
Placed(es, line, between) ==
  LET gap == LineEnds(between)
      height(e) == gap * (IF e.k = "use" THEN Len(e.args) ELSE 1)
      at(n) == line + FoldLeft(LAMBDA sum, e : sum + height(e), 0, SubSeq(es, 1, n - 1))
      inside(arg, l) == [m \in DOMAIN arg |-> [arg[m] EXCEPT !.line = l,
                           !.args = [k \in DOMAIN @ |-> [j \in DOMAIN @[k] |-> [@[k][j] EXCEPT !.line = l]]]]]
  IN [n \in DOMAIN es |-> [es[n] EXCEPT !.line = at(n),
                             !.args = [k \in DOMAIN @ |-> inside(@[k], at(n) + gap * (k - 1))]]]

(***************************************************************************)
(* A use of a macro stands for its template, with each argument replaced   *)
(* on its own, or as it is written where it becomes a literal or a part of *)
(* a token; in that, the macro's name is not replaced again.               *)
(***************************************************************************)
Quoted(arg, quote) ==
  LET said == FoldLeft(LAMBDA s, e : s \o (IF s = "" \/ e.x = "," THEN "" ELSE " ") \o Said(<<e>>, <<>>, "", ""), "", arg)
  IN quote \o Escaped(said, quote) \o quote

RECURSIVE Inst(_, _, _, _)
Inst(template, args, means, line) ==
  LET side(e) == IF e.k = "word" THEN [e EXCEPT !.line = line]
                 ELSE IF args[e.n] = <<>> THEN [W("") EXCEPT !.line = line] ELSE args[e.n][1]
      whole(l, r) == IF {First(l.x), First(r.x)} \cap {"", "\""} = {"\""} THEN <<l, [r EXCEPT !.line = l.line]>>
                     ELSE IF l.x \o r.x = "" THEN <<>> ELSE <<[l EXCEPT !.x = @ \o r.x]>>
      one(e) ==
        CASE e.k = "word" -> <<[e EXCEPT !.line = line]>>
          [] e.k = "parameter" -> means[e.n]
          [] e.k = "text" -> <<Done(Quoted(args[e.n], e.quote), line)>>
          [] e.k = "paste" -> whole(side(e.left), side(e.right))
          [] e.k = "use" -> <<[k |-> "use", x |-> e.x, line |-> line,
                               args |-> [n \in DOMAIN e.args |-> Inst(e.args[n], args, means, line)]]>>
  IN FlattenSeq([n \in DOMAIN template |-> one(template[n])])

Stand(takes, parameters, variadic, template) ==
  [takes |-> takes, parameters |-> parameters, variadic |-> variadic, template |-> template]
\* The arguments of a use: the last parameter of a variadic macro takes all that are left.
Given(macro, e) ==
  LET n == Len(macro.parameters)
      comma == <<[W(",") EXCEPT !.line = e.line]>>
      rest == SubSeq(e.args, n, Len(e.args))
  IN IF ~macro.variadic THEN e.args
     ELSE Append(SubSeq(e.args, 1, n - 1),
                 IF rest = <<>> THEN <<>> ELSE FoldLeft(LAMBDA all, a : all \o comma \o a, Head(rest), Tail(rest)))

RECURSIVE Mean(_, _, _)
Mean(macros, es, hidden) ==
  LET replaced(e) == /\ e.k # "done" /\ e.x \in DOMAIN macros /\ e.x \notin hidden
                     /\ macros[e.x].takes = (e.k = "use")
      stands(e, args) ==
        Mean(macros, Inst(macros[e.x].template, args, [n \in DOMAIN args |-> Mean(macros, args[n], {})], e.line),
             hidden \cup {e.x})
      at(e, n) == IF e.args[n] = <<>> THEN e.line ELSE e.args[n][1].line
      listed(e) == FlattenSeq([n \in DOMAIN e.args |->
                     IF n = 1 THEN e.args[n] ELSE <<[W(",") EXCEPT !.line = at(e, n - 1)]>> \o e.args[n]])
      one(e) ==
        IF replaced(e) THEN stands(e, IF e.k = "use" THEN Given(macros[e.x], e) ELSE <<>>)
        ELSE IF e.k # "use" THEN <<Done(e.x, e.line)>>
        ELSE Mean(macros, <<[W(e.x) EXCEPT !.line = e.line]>>, hidden)
               \o <<Done("(", e.line)>> \o Mean(macros, listed(e), hidden) \o <<Done(")", at(e, Len(e.args)))>>
  IN FlattenSeq([n \in DOMAIN es |-> one(es[n])])

(***************************************************************************)
(* Files: items, one after the other.                                      *)
(***************************************************************************)
Line(words) == [k |-> "line", words |-> words]
DefineAs(name, template) == [k |-> "define", name |-> name, macro |-> Stand(FALSE, <<>>, FALSE, template)]
DefineTaking(name, parameters, variadic, template) ==
  [k |-> "define", name |-> name, macro |-> Stand(TRUE, parameters, variadic, template)]
Undefine(name) == [k |-> "undef", name |-> name]
When(defined, name, then, else) ==
  [k |-> "when", defined |-> defined, name |-> name, then |-> then, else |-> else]
IncludeOf(quoted, name) == [k |-> "include", quoted |-> quoted, name |-> name]
Once == [k |-> "once"]

RECURSIVE LinesOf(_, _)
\* The lines of items, with this between the words of a line.
LinesOf(items, between) ==
  LET parameters(m) == IF ~m.takes THEN "" ELSE "(" \o Join(m.parameters, ", ") \o (IF m.variadic THEN "...)" ELSE ")")
      inText == IF LineEnds(between) = 0 THEN " " ELSE " \\\n"
      one(i) ==
        CASE i.k = "line" -> <<Said(i.words, <<>>, between, between)>>
          [] i.k = "define" -> <<"#define " \o i.name \o parameters(i.macro) \o " "
                                    \o Said(i.macro.template, i.macro.parameters, inText, "")>>
          [] i.k = "undef" -> <<"  #undef " \o i.name>>
          [] i.k = "once" -> <<"#pragma once">>
          [] i.k = "include" -> <<"#include " \o (IF i.quoted THEN "\"" \o i.name \o "\"" ELSE "<" \o i.name \o ">")>>
          [] i.k = "when" -> <<(IF i.defined THEN "# ifdef " ELSE "# ifndef ") \o i.name>> \o LinesOf(i.then, between)
                               \o (IF i.else = <<>> THEN <<>> ELSE <<"#else // no">> \o LinesOf(i.else, between))
                               \o <<"#endif">>
  IN FlattenSeq([n \in DOMAIN items |-> one(items[n])])
FileText(items, between) == FoldLeft(LAMBDA s, l : s \o l \o "\n", "", LinesOf(items, between))
Tall(items, between) == LineEnds(FileText(items, between))

From(path, meant) == [n \in DOMAIN meant |-> [x |-> meant[n].x, line |-> meant[n].line, path |-> path]]
\* m: the macros, the files read once, the files being read, the line, and what was written.
RECURSIVE Does(_, _, _, _)
Does(case, m, items, between) ==
  LET i == Head(items)
      height == Tall(<<i>>, between)
      path == m.reading[1]
      places == SelectSeq((IF i.quoted THEN [n \in DOMAIN m.reading |-> <<m.reading[n][1], i.name>>] ELSE <<>>)
                            \o [n \in DOMAIN case.paths |-> <<case.paths[n], i.name>>] \o <<<<"", i.name>>>>,
                          LAMBDA p : p \in DOMAIN case.files)
      inside(p) == Does(case, [m EXCEPT !.reading = <<p>> \o @, !.line = 1], case.files[p], between)
      chosen == (i.name \in DOMAIN m.macros) = i.defined
      bodies == IF chosen THEN i.then ELSE i.else
      begin == m.line + 1 + (IF chosen THEN 0 ELSE Tall(i.then, between) + 1)
      done ==
        CASE i.k = "line" ->
               [m EXCEPT !.out = @ \o From(path, Mean(m.macros, Placed(i.words, m.line, between), {}))]
          [] i.k = "define" -> [m EXCEPT !.macros = [x \in {i.name} |-> i.macro] @@ @]
          [] i.k = "undef" -> [m EXCEPT !.macros = [x \in DOMAIN @ \ {i.name} |-> @[x]]]
          [] i.k = "once" -> [m EXCEPT !.once = @ \cup {path}]
          [] i.k = "include" ->
               IF Head(places) \in m.once THEN m
               ELSE [inside(Head(places)) EXCEPT !.reading = m.reading]
          [] i.k = "when" -> Does(case, [m EXCEPT !.line = begin], bodies, between)
  IN IF items = <<>> THEN m ELSE Does(case, [done EXCEPT !.line = m.line + height], Tail(items), between)

\* The files as they are written, and the environment they are processed in.
Written(case, between) == [p \in DOMAIN case.files |-> FileText(case.files[p], between)]
LineAt(text, byte) == 1 + Cardinality({n \in 1..byte : text[n] = "\n"})

Ample == [paths |-> <<>>, limit |-> 500, nesting |-> 8, depth |-> 8]
Environment(case, between) == [Ample EXCEPT !.paths = case.paths] @@ [disk |-> Written(case, between)]
Begun == [macros |-> [x \in {} |-> {}], once |-> {}, reading |-> <<>>, line |-> 1, out |-> <<>>]
MeaningOf(case, between) ==
  Does(case, [Begun EXCEPT !.reading = <<case.main>>], case.files[case.main], between).out

ProcessesAs(case, between) ==
  \A p \in {process(Environment(case, between), case.main)} : \A meant \in {MeaningOf(case, between)} :
    LET out == Significant(p.out)
        from(t) == p.files[t.site.file]
    IN /\ p.error = ""
       /\ Len(out) = Len(meant)
       /\ \A n \in DOMAIN meant :
            /\ out[n].text = meant[n].x
            /\ from(out[n]).path = meant[n].path /\ LineAt(from(out[n]).text, out[n].site.byte) = meant[n].line
            /\ place(p, out[n].at + Len(out[n].text) - 1) = out[n].site
=============================================================================
