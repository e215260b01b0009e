------------------------------ MODULE MCParts ------------------------------
(* Small instances of the parts that work alone, in one run: the event       *)
(* stream, the cache of runtimes, the supervision of a child, sorts, guarded *)
(* stacks, regular expressions, grammars, the text of a program and the      *)
(* parser.  A behaviour runs one of them; the others stay where they begin,  *)
(* or, for those that would have to go on, where they end.                   *)
(*                                                                           *)
(* An algorithm without a state of its own, as the matcher of regular        *)
(* expressions, is run on a case: the first step of its behaviour takes one. *)
(*                                                                           *)
(* The sorts: one of its own of every vector up to a length, and one that    *)
(* others interrupt, of a shorter vector, with a sort inside it of the same  *)
(* vector or of a second one.  The comparator may answer anything there, so  *)
(* one content of a length stands for all.                                   *)
EXTENDS EventStream, RuntimeCache, Supervisor, Sort, Charges
CONSTANTS outer, inner, LongestAlone

Rex == INSTANCE RegexCases
Gra == INSTANCE GrammarCases
Par == INSTANCE ParserCases
Txt == INSTANCE TextCases

VARIABLE part    \* which part runs, [k |-> its name], and the case it runs on

Both(elements) == [x \in Vectors |-> IF x = outer THEN elements ELSE <<2, 1>>]

Alone ==
  [vectors : {Both(elements) : elements \in BoundedSeq(Keys, LongestAlone)},
   bounds : {[sorts |-> 1, changes |-> 0, scopes |-> 0]}]

\* A change and a nested sort together for two elements, one of them at a time for three.
Interrupted ==
  [vectors : {Both(<<>>), Both(<<2>>), Both(<<2, 1>>)},
   bounds : {[sorts |-> 2, changes |-> 1, scopes |-> 1]}]
    \cup [vectors : {Both(<<2, 1, 2>>)},
          bounds : {[sorts |-> 1, changes |-> 1, scopes |-> 1],
                    [sorts |-> 2, changes |-> 0, scopes |-> 1]}]

AloneAndInterrupted == Alone \cup Interrupted

(* The text emitted for every table, for a function that calls itself, and  *)
(* what may be taken for the text of the first table.                      *)
Emission(t) ==
  [code |-> [e \in Natives \cup {Wrapper} |->
               IF e = Wrapper THEN stack_entry("zfn0", t["zfn0"])
               ELSE guarded_call("zsp0", t["zsp0"], TRUE)],
   charged |-> t]

Altered(f) ==
  {[f EXCEPT !["entry"].end.no = "invoke"],
   [f EXCEPT !["admit"].end = Branch("small", "invoke", "exhausted")],
   [f EXCEPT !["admit"].end = Branch("version", "exhausted", "invoke")],
   [f EXCEPT !["admit"].end.kind = "jump", !["admit"].end.yes = "invoke"],
   [f EXCEPT !["admit"].body[1].amount = 1], [f EXCEPT !["admit"].body[1].op = "other"],
   [f EXCEPT !["exhausted"].end = Branch("small", "invoke", "otherwise")],
   [f EXCEPT !["invoke"].body[1].amount = 1], [f EXCEPT !["invoke"].body[1].op = "other"],
   [f EXCEPT !["invoke"].body[2].budget = "version"],
   [f EXCEPT !["invoke"].end = Branch("result", "admit", "otherwise")]}

FirstTable == [e \in Natives |-> 16]

Emissions ==
  LET first == Emission(FirstTable)
  IN {Emission(t) : t \in [Natives -> {16, 32, 48}]}
       \cup {[first EXCEPT !.charged["zsp0"] = 32]}
       \cup {[first EXCEPT !.code[e] = f] : <<e, f>> \in
               UNION {{e} \X Altered(first.code[e]) : e \in {"zsp0", Wrapper}}}

FirstTables == {FirstTable, [FirstTable EXCEPT !["zsp0"] = 8]}

NoCharges ==
  /\ target = "MacArm64" /\ floor = 0 /\ table = FirstTable /\ round = 0
  /\ emitted = Nowhere /\ frames = <<>> /\ stage = "ended" /\ granted = 0 /\ calls = <<>>

NoSort ==
  /\ vectors = Both(<<>>)
  /\ left = [sorts |-> 0, changes |-> 0, scopes |-> 0]
  /\ sorts = <<>> /\ program = <<>> /\ order = 0

NoChild ==
  /\ deadline = FALSE /\ late = FALSE /\ live = {} /\ holds = {} /\ zombie = FALSE
  /\ written = [w \in Pipes |-> 0] /\ reader = [w \in Pipes |-> "finished"]
  /\ exceeded = FALSE /\ pc = "done" /\ result = "none"

partsVars == <<part, streamVars, cacheVars, superVars, vars, chargesVars>>

PartsInit ==
  /\ part \in [k : {"stream", "cache", "child", "sort", "stack"}] \cup [k : {"regex"}, of : Rex!Shapes]
              \cup [k : {"grammar"}, of : Gra!Shapes] \cup [k : {"parser"}, of : Par!Shapes]
              \cup [k : {"text"}, of : Txt!Shapes]
  /\ StreamInit
  /\ CacheInit
  /\ IF part.k = "child" THEN SuperInit ELSE NoChild
  /\ IF part.k = "sort" THEN Init ELSE NoSort
  /\ IF part.k = "stack" THEN ChargesInit ELSE NoCharges

TakeCase(k, cases(_)) ==
  /\ part.k = k /\ "of" \in DOMAIN part
  /\ part' \in [k : {k}, case : cases(part.of)]
  /\ UNCHANGED <<streamVars, cacheVars, superVars, vars, chargesVars>>

OnCase(k, agrees(_)) == part.k = k /\ "case" \in DOMAIN part => agrees(part.case)

PartsNext ==
  \/ /\ part.k = "stream" /\ StreamNext
     /\ UNCHANGED <<part, cacheVars, superVars, vars, chargesVars>>
  \/ /\ part.k = "cache" /\ CacheNext
     /\ UNCHANGED <<part, streamVars, superVars, vars, chargesVars>>
  \/ /\ part.k = "child" /\ SuperNext
     /\ UNCHANGED <<part, streamVars, cacheVars, vars, chargesVars>>
  \/ /\ part.k = "sort" /\ Next
     /\ UNCHANGED <<part, streamVars, cacheVars, superVars, chargesVars>>
  \/ /\ part.k = "stack" /\ ChargesNext
     /\ UNCHANGED <<part, streamVars, cacheVars, superVars, vars>>
  \/ TakeCase("regex", Rex!Cases)
  \/ TakeCase("grammar", Gra!Cases)
  \/ TakeCase("parser", Par!Cases)
  \/ TakeCase("text", Txt!Cases)

PartsSpec ==
  /\ PartsInit /\ [][PartsNext]_partsVars
  /\ SuperFair
  /\ WF_vars(part.k = "sort" /\ Next)

(***************************************************************************)
(* The compiled program and its backtracking search (regex.rs compile,     *)
(* search) find what the pattern means, and replacing every match by       *)
(* itself (native_objects.rs op 7) changes nothing.                        *)
(***************************************************************************)
RegexAgrees == OnCase("regex", Rex!AgreesOn)

(***************************************************************************)
(* The rules a program declares, lowered to flat tables, and the parse of  *)
(* a command by them give every reading of the command, once, in order,    *)
(* with its tokens and captures, or say that a limit was met (grammar.rs   *)
(* of the compiler and of the runtime, native_objects.rs grammar).         *)
(***************************************************************************)
GrammarAgrees == OnCase("grammar", Gra!AgreesOn)

(***************************************************************************)
(* What the parser reads is the tree the text was written from: operators  *)
(* group by their levels, a node follows its parts, a block owns what its  *)
(* own text mentions, and a body read later takes its place (parser.rs     *)
(* expressions, statements and syntax_order).                              *)
(***************************************************************************)
ParserAgrees == OnCase("parser", Par!AgreesOn)

(***************************************************************************)
(* A text is read as what it was written from: its characters in every     *)
(* encoding, its tokens and literals whichever way they are spelled, and,  *)
(* through directives, macros and inclusion, what those mean, with each    *)
(* name left alone where it is being replaced (source.rs decode, strings.rs*)
(* scan, lexer.rs lex, preprocess.rs process, expand).                     *)
(***************************************************************************)
TextAgrees == OnCase("text", Txt!AgreesOn)
=============================================================================
