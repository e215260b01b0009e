------------------------------ MODULE Language -----------------------------
(***************************************************************************)
(* What a function of the source language means, statement by statement,   *)
(* with no blocks: the definition the lowering is checked against.  A run  *)
(* r holds the locals, the answers other code has yet to give, and how the *)
(* last statement ended: r.t is "value" (it went on), "break", "continue", *)
(* "goto", "return", "throw", "fault" (which nothing handles), "more" (the *)
(* answers are used up, and r.ask is the question) or "wrong" (the code    *)
(* asked something else).                                                  *)
(***************************************************************************)
EXTENDS Machine
LOCAL INSTANCE SequencesExt

RECURSIVE Eval(_, _), EvalAll(_, _), Find(_, _, _, _), WalkFrom(_, _, _, _, _, _), SortFrom(_, _, _, _)
RECURSIVE Exec(_, _, _), ExecAll(_, _), ExecFrom(_, _, _), Repeat(_, _, _), Choice(_, _, _, _), Each(_, _, _)

Begin(trace) ==
  [env |-> <<>>, answers |-> trace, token |-> 1, count |-> 0, t |-> "value", v |-> Nil, to |-> "",
   gone |-> {}, vs |-> <<>>, ask |-> <<>>]
Ended(r, t) == [r EXCEPT !.t = t]
Set(r, x, v) == [r EXCEPT !.env = With(@, x, v), !.v = v]
Get(r, x) == IF x \in DOMAIN r.env THEN r.env[x] ELSE Nil

Ask(r, op, name, arguments) ==
  LET question == [op |-> op, name |-> name, arguments |-> arguments]
      answer == Head(r.answers).answer
      next == [r EXCEPT !.answers = Tail(@), !.count = @ + 1]
  IN  IF r.answers = <<>> THEN [r EXCEPT !.t = "more", !.ask = question]
      ELSE IF Head(r.answers).question # question THEN Ended(r, "wrong")
      ELSE CASE answer.t = "value" -> [next EXCEPT !.v = answer.v]
             [] answer.t = "fault" -> Ended(next, "fault")
             [] OTHER -> [next EXCEPT !.t = "throw", !.v = Exception(answer.class, r.token), !.token = @ + 1]

Logical(r) == IF r.t = "value" /\ r.v \notin {True, Nil} THEN Ended(r, "fault") ELSE r
(* What goes on after r, unless r ended otherwise. *)
After(r, f(_)) == IF r.t = "value" THEN f(r) ELSE r
Value(r, v) == [r EXCEPT !.v = v]

(* The values of expressions, from the first to the last. *)
EvalAll(r, es) ==
  IF es = <<>> THEN [r EXCEPT !.vs = <<>>]
  ELSE After(Eval(r, Head(es)), LAMBDA first :
       After(EvalAll(first, Tail(es)), LAMBDA rest : [rest EXCEPT !.vs = <<first.v>> \o @]))
Operands(e) == <<e.receiver>> \o e.key

(* Is a value one of the candidates: those after it are not evaluated. *)
Find(r, left, candidates, negated) ==
  IF candidates = <<>> THEN Value(r, Bool(negated))
  ELSE After(Eval(r, Head(candidates)), LAMBDA c :
       IF c.v = left THEN Value(c, Bool(~negated)) ELSE Find(c, left, Tail(candidates), negated))

(* From the element at i on: the callback is asked about each in turn. *)
Hit(r, e, vs, i, n, found, element) ==
  CASE e.k = "valwhich" -> Value(r, element)
    [] e.k \in {"indexwhich", "lastwhich"} -> Value(r, Integer(i))
    [] OTHER -> WalkFrom(r, e, vs, i + 1, n, Integer(found[2] + 1))
WalkFrom(r, e, vs, i, n, found) ==
  IF i \notin 1..n THEN Value(r, found)
  ELSE After(Ask(r, "ListIndex", 0, <<vs[1], Integer(i)>>), LAMBDA element :
       After(Ask(element, "Invoke", 0, <<vs[2], element.v>>), LAMBDA verdict :
       After(IF e.k = "foreachitem" THEN verdict ELSE Logical(verdict), LAMBDA checked :
       IF e.k # "foreachitem" /\ checked.v = True THEN Hit(checked, e, vs, i, n, found, element.v)
       ELSE WalkFrom(checked, e, vs, IF e.k = "lastwhich" THEN i - 1 ELSE i + 1, n, found))))

SortFrom(r, vector, callback, last) ==
  After(Logical(Ask(r, "VectorSortNext", 0, <<vector, last>>)), LAMBDA more :
  IF more.v = Nil THEN more
  ELSE After(Ask(more, "Invoke", 0, <<callback>>), LAMBDA order : SortFrom(order, vector, callback, order.v)))

(* The entries of a table are evaluated from the last to the first, and set *)
(* from the first to the last.                                              *)
PutAll(r, table, n) ==
  LET Put[i \in 0..n] ==
        IF i = 0 THEN r
        ELSE After(Put[i - 1], LAMBDA p :
             Ask(p, "LookupSet", 0, <<table, r.vs[2 * (n + 1 - i)], r.vs[2 * (n + 1 - i) - 1]>>))
  IN  After(Put[n], LAMBDA put : Value(put, table))

(* Properties are read, added to and written. *)
AddProperty(r, e) ==
  After(EvalAll(r, Operands(e)), LAMBDA a :
  After(Ask(a, "GetProperty", 0, a.vs), LAMBDA old :
  After(IF e.k = "incprop" THEN Value(old, Integer(1)) ELSE Eval(old, e.b), LAMBDA rhs :
  Then(Sum(old.v, rhs.v, 1), LAMBDA new :
  After(Ask(rhs, "SetProperty", 0, Append(a.vs, new)), LAMBDA set :
  Value(set, IF e.k = "incprop" /\ e.postfix THEN old.v ELSE new))))))

(* An expression: the order its parts are evaluated in, and its value. *)
Eval(r, e) ==
  CASE e.k = "constant" -> Value(r, e.n)
    [] e.k = "name" -> Value(r, Get(r, e.x))
    [] e.k = "call" ->
         After(EvalAll(r, Reverse(e.arguments)), LAMBDA a : Ask(a, "Call", e.name, Reverse(a.vs)))
    [] e.k = "method" ->
         LET n == Len(e.arguments)
         IN  After(EvalAll(r, Reverse(e.arguments) \o Operands(e)), LAMBDA a :
             Ask(a, "CallMethod", e.name, SubSeq(a.vs, n + 1, Len(a.vs)) \o Reverse(SubSeq(a.vs, 1, n))))
    [] e.k = "construct" ->
         After(EvalAll(r, Reverse(e.arguments)), LAMBDA a :
         After(Ask(a, "CallMethod", e.name, <<Exception(e.class, 0)>> \o Reverse(a.vs)), LAMBDA made :
         [made EXCEPT !.v = Exception(e.class, made.token), !.token = @ + 1]))
    [] e.k = "getprop" -> After(EvalAll(r, Operands(e)), LAMBDA a : Ask(a, "GetProperty", 0, a.vs))
    [] e.k = "setprop" ->
         After(EvalAll(r, <<e.b>> \o Operands(e)), LAMBDA a :
         After(Ask(a, "SetProperty", 0, Append(Tail(a.vs), a.vs[1])), LAMBDA set : Value(set, a.vs[1])))
    [] e.k \in {"addprop", "incprop"} -> AddProperty(r, e)
    [] e.k = "assign" -> After(Eval(r, e.b), LAMBDA a : Set(a, e.x, a.v))
    [] e.k = "add" -> After(Eval(r, e.b), LAMBDA a : Set(a, e.x, Sum(Get(r, e.x), a.v, 1)))
    [] e.k = "increment" ->
         Then(Set(r, e.x, Sum(Get(r, e.x), Integer(1), 1)), LAMBDA new : IF e.postfix THEN Value(new, Get(r, e.x)) ELSE new)
    [] e.k = "index" -> After(EvalAll(r, Operands(e)), LAMBDA a : Ask(a, "ListIndex", 0, a.vs))
    [] e.k = "indexset" ->
         After(EvalAll(r, <<e.b>> \o Operands(e)), LAMBDA a : Ask(a, "IndexSet", 0, Append(Tail(a.vs), a.vs[1])))
    [] e.k \in {"pair", "comma"} ->
         After(EvalAll(r, <<e.a, e.b>>), LAMBDA a : Value(a, IF e.k = "comma" THEN a.vs[2] ELSE Sum(a.vs[1], a.vs[2], 1)))
    [] e.k = "not" -> After(Eval(r, e.a), LAMBDA a : Value(a, Bool(a.v = Nil)))
    [] e.k \in {"and", "or"} ->
         After(Logical(Eval(r, e.a)), LAMBDA a : IF (a.v = True) = (e.k = "or") THEN a ELSE Logical(Eval(a, e.b)))
    [] e.k = "ifnil" -> After(Eval(r, e.a), LAMBDA a : IF a.v # Nil THEN a ELSE Eval(a, e.b))
    [] e.k = "choose" -> After(Logical(Eval(r, e.c)), LAMBDA c : Eval(c, IF c.v = True THEN e.a ELSE e.b))
    [] e.k = "member" -> After(Eval(r, e.a), LAMBDA a : Find(a, a.v, e.candidates, e.negated))
    [] e.k = "lookup" ->
         LET n == Len(e.entries)
         IN  After(EvalAll(r, FlattenSeq([i \in 1..n |-> <<e.entries[n + 1 - i].value, e.entries[n + 1 - i].key>>])),
                   LAMBDA a :
             After(Ask(a, "NewLocalLookup", 0, <<>>), LAMBDA made : PutAll(made, made.v, n)))
    [] e.k = "emit" ->
         After(Eval(r, e.a), LAMBDA a : After(Ask(a, "EmitValue", 0, <<a.v>>), LAMBDA out : Value(out, Nil)))
    [] e.k = "sort" ->
         After(EvalAll(r, <<e.b, e.a>>), LAMBDA a :
         After(Ask(a, "VectorSortBegin", 0, <<a.vs[2]>>), LAMBDA begun : SortFrom(begun, a.vs[2], a.vs[1], Nil)))
    [] OTHER ->
         After(EvalAll(r, <<e.b, e.a>>), LAMBDA a :
         After(Ask(a, "Length", 0, <<a.vs[2]>>), LAMBDA count :
         WalkFrom(count, e, <<a.vs[2], a.vs[1]>>, IF e.k = "lastwhich" THEN count.v[2] ELSE 1, count.v[2],
                  IF e.k = "countwhich" THEN Integer(0) ELSE Nil)))


ExecAll(r, items) ==
  IF items = <<>> \/ r.t # "value" THEN r ELSE ExecAll(Exec(r, Head(items), ""), Tail(items))

(* The names of the labels directly on a statement. *)
RECURSIVE Names(_)
Names(s) == IF s.k = "label" THEN {s.name} \cup Names(s.body) ELSE {}

(* A sequence from its n-th statement; a goto to a label of the sequence goes on there. *)
ExecFrom(r, items, n) ==
  Then(ExecAll(r, SubSeq(items, n, Len(items))), LAMBDA done :
  LET at == {i \in DOMAIN items : done.t = "goto" /\ done.to \in Names(items[i])}
  IN  IF at = {} THEN done ELSE ExecFrom(Ended(done, "value"), items, CHOOSE i \in at : TRUE))

(* What break and continue leave behind a statement, or behind the body of a loop. *)
Normal(r) == [r EXCEPT !.t = "value", !.to = ""]
Breaks(r, label) == r.t = "break" /\ r.to \in {"", label}
Left(r, label) == IF Breaks(r, label) THEN Normal(r) ELSE r
Continued(r, label) == IF r.t = "continue" /\ r.to \in {"", label} THEN Normal(r) ELSE r

(* A loop from its body, and from its test; s.step is what for does between. *)
Repeat(r, s, label) ==
  After(IF s.e = <<>> THEN Value(r, True) ELSE Logical(Eval(r, s.e[1])), LAMBDA test :
  IF test.v = Nil THEN test
  ELSE Then(Exec(test, s.body, ""), LAMBDA body :
       IF Breaks(body, label) THEN Normal(body)
       ELSE After(Continued(body, label), LAMBDA next :
            After(IF s.step = <<>> THEN next ELSE Eval(next, s.step[1]), LAMBDA stepped : Repeat(stepped, s, label)))))

Each(r, s, label) ==
  After(Logical(Ask(r, "AdvanceIteration", 0, <<>>)), LAMBDA test :
  IF test.v = Nil THEN test
  ELSE Then(Exec(Set(test, s.x, Integer(test.count)), s.body, ""), LAMBDA body :
       IF Breaks(body, label) THEN Normal(body)
       ELSE After(Continued(body, label), LAMBDA next : Each(next, s, label))))

(* A loop whose body comes first. *)
DoFirst(r, s, label) ==
  Then(Exec(r, s.body, ""), LAMBDA body :
  IF Breaks(body, label) THEN Normal(body)
  ELSE After(Continued(body, label), LAMBDA next :
       Repeat(next, [body |-> s.body, e |-> <<s.e>>, step |-> <<>>], label)))

(* The number of the arm a switch starts at, in vs; nil when none does. *)
Choice(r, v, arms, n) ==
  IF n > Len(arms)
  THEN LET default == {i \in DOMAIN arms : arms[i].case = <<>>}
       IN  [r EXCEPT !.vs = IF default = {} THEN <<>> ELSE <<CHOOSE i \in default : TRUE>>]
  ELSE IF arms[n].case = <<>> THEN Choice(r, v, arms, n + 1)
  ELSE After(Eval(r, arms[n].case[1]), LAMBDA c :
       IF c.v = v THEN [c EXCEPT !.vs = <<n>>] ELSE Choice(c, v, arms, n + 1))
ExecSwitch(r, s, label) ==
  After(Eval(r, s.e), LAMBDA a :
  After(Choice(a, a.v, s.arms, 1), LAMBDA c :
  IF c.vs = <<>> THEN c
  ELSE Left(ExecFrom(c, Bodies(s), 1 + Len(Bodies([arms |-> SubSeq(s.arms, 1, c.vs[1] - 1)]))), label)))

(* An exception lives until what caught it is done, unless it is thrown again. *)
Freed(r, exception) == IF r.t = "throw" /\ r.v = exception THEN r ELSE [r EXCEPT !.gone = @ \cup {exception}]

Abrupt == {"break", "continue", "goto", "return", "throw"}
ExecFinally(r, s) ==
  Then(Exec(r, s.body, ""), LAMBDA body :
  IF body.t \notin Abrupt \cup {"value"} THEN body
  ELSE Then(Exec(Normal(body), s.finalizer, ""), LAMBDA final :
       IF final.t = "value" THEN [final EXCEPT !.t = body.t, !.v = body.v, !.to = body.to]
       ELSE IF body.t = "throw" THEN Freed(final, body.v) ELSE final))
ExecTry(r, s) ==
  Then(Exec(r, s.body, ""), LAMBDA body :
  LET fits == {i \in DOMAIN s.catches : body.t = "throw" /\ Class(body.v) = s.catches[i].class}
  IN  IF fits = {} THEN body
      ELSE Then(s.catches[Least(fits)], LAMBDA c : 
           Freed(Exec(Normal(Set(body, c.x, body.v)), c.body, ""), body.v)))

Exec(r, s, label) ==
  CASE r.t # "value" -> r
    [] s.k = "label" ->
         Then(Exec(r, s.body, s.name), LAMBDA body :
         IF body.t = "break" /\ body.to = s.name THEN Normal(body) ELSE body)
    [] s.k = "block" -> ExecFrom(r, s.items, 1)
    [] s.k = "expression" -> Eval(r, s.e)
    [] s.k = "local" ->
         After(IF s.e = <<>> THEN Value(r, Nil) ELSE Eval(Set(r, s.x, Nil), s.e[1]), LAMBDA a : Set(a, s.x, a.v))
    [] s.k = "throw" ->
         After(Eval(r, s.e), LAMBDA a : 
         Ended(a, IF Len(a.v) = 3 /\ a.v[1] = 3 /\ a.v \notin a.gone THEN "throw" ELSE "fault"))
    [] s.k = "return" -> After(IF s.e = <<>> THEN Value(r, Nil) ELSE Eval(r, s.e[1]), LAMBDA a : Ended(a, "return"))
    [] s.k = "if" ->
         After(Logical(Eval(r, s.e)), LAMBDA a :
         IF a.v = True THEN Exec(a, s.yes, "") ELSE IF s.no = <<>> THEN a ELSE Exec(a, s.no[1], ""))
    [] s.k = "switch" -> ExecSwitch(r, s, label)
    [] s.k = "owner" -> Exec(r, s.body, "")
    [] s.k = "finally" -> ExecFinally(r, s)
    [] s.k = "try" -> ExecTry(r, s)
    [] s.k = "foreach" -> After(Eval(r, s.e), LAMBDA a : Each(a, s, label))
    [] s.k = "while" -> Repeat(r, [body |-> s.body, e |-> <<s.e>>, step |-> <<>>], label)
    [] s.k = "do" -> DoFirst(r, s, label)
    [] s.k = "for" -> After(ExecAll(r, s.init), LAMBDA a : Repeat(a, s, label))
    [] s.k \in {"break", "continue", "goto"} -> [r EXCEPT !.t = s.k, !.to = s.name]
    [] OTHER -> r

Meaning(s, trace) == Exec(Begin(trace), s, "")
=============================================================================
