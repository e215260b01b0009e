------------------------------ MODULE Builder ------------------------------
(***************************************************************************)
(* The lowering of expressions to blocks of instructions: the Builder of   *)
(* zeb-frontend/src/ir.rs.  A builder b is the function being written: its *)
(* blocks, the block code goes to, the value the last expression left, and *)
(* what the statements around it have open.                                *)
(*                                                                         *)
(* An expression is a record whose field k names its syntax.  A function   *)
(* or method the program calls is a name, its operands, and the outcomes   *)
(* it may have.  Names of locals are themselves slots: <<name, 0>>; a slot *)
(* the builder makes is <<"", n>>.                                         *)
(***************************************************************************)
EXTENDS Integers, Sequences
LOCAL INSTANCE SequencesExt

RECURSIVE expression(_, _), Arguments(_, _, _), MembershipItem(_, _, _, _, _, _), LookupNext(_, _, _, _)

Nil == <<>>
True == <<1>>
Integer(n) == <<2, n>>
NoEdge == [target |-> 0, slot |-> <<"", 0>>]
Fresh == [code |-> <<>>, term |-> [t |-> "fallthrough"]]

Builder == [blocks |-> <<Fresh>>, current |-> 1, values |-> 0, slots |-> 0, result |-> 0,
            handlers |-> <<>>, finalizers |-> <<>>, active |-> <<>>, labels |-> <<>>,
            targets |-> <<>>, iterations |-> 0]

Local(x) == <<x, 0>>

(* f of x: what the next task of the code does with what the last one left. *)
Then(x, f(_)) == CHOOSE y \in {f(z) : z \in {x}} : TRUE

(* The block the next call of block makes; n blocks more; the current block ends; *)
(* code goes to another one.                                                     *)
NextBlock(b) == Len(b.blocks) + 1
block(b, n) == [b EXCEPT !.blocks = @ \o [i \in 1..n |-> Fresh]]
terminate(b, term) == [b EXCEPT !.blocks[b.current].term = term]
At(b, target) == [b EXCEPT !.current = target]
jump(b, target) == terminate(b, [t |-> "jump", to |-> target])
branch(b, condition, mode, yes, no) ==
  terminate(b, [t |-> "branch", condition |-> condition, mode |-> mode, yes |-> yes, no |-> no])
temp(b) == [b EXCEPT !.slots = @ + 1]
TempSlot(b) == <<"", b.slots>>
Handler(b) == IF b.handlers = <<>> THEN NoEdge ELSE Last(b.handlers).edge

(* The operations after which control may be in an exception handler. *)
Invoking == {"Call", "CallMethod", "GetProperty", "Invoke"}

(* An instruction ends its block when it invokes something inside a handler. *)
Invoke(b) == At(terminate(block(b, 1), [t |-> "invoke", normal |-> NextBlock(b), edge |-> Handler(b)]), NextBlock(b))
instruction(b, i) ==
  LET c == [b EXCEPT !.blocks[b.current].code = Append(@, i)]
  IN  IF b.handlers # <<>> /\ i.op \in Invoking THEN Invoke(c) ELSE c

effect(b, op, arguments, x) ==
  instruction(b, [op |-> op, result |-> 0, arguments |-> arguments, x |-> x])
value(b, op, arguments, x) ==
  instruction([b EXCEPT !.values = @ + 1, !.result = b.values + 1],
              [op |-> op, result |-> b.values + 1, arguments |-> arguments, x |-> x])
Constant(b, n) == value(b, "Constant", <<>>, n)
Load(b, slot) == value(b, "Load", <<>>, slot)
Store(b, slot, v) == effect(b, "Store", <<v>>, slot)
Reset(b, slot) == effect(b, "Reset", <<>>, slot)
LogicalGuard(b, v) == effect(b, "LogicalGuard", <<v>>, Nil)


(* Slip: the first operand first. *)
RECURSIVE ArgumentsForward(_, _, _)
ArgumentsForward(b, remaining, values) ==
  IF remaining = <<>> THEN <<b, values>>
  ELSE Then(expression(b, Head(remaining)),
            LAMBDA c : ArgumentsForward(c, Tail(remaining), Append(values, c.result)))
(* CallNext, CallArg: the operands from the last to the first; `values` are *)
(* those that are known, in their order.  The result is <<builder, values>>. *)
Arguments(b, remaining, values) ==
  IF remaining = <<>> THEN <<b, values>>
  ELSE Then(expression(b, Last(remaining)), LAMBDA c : Arguments(c, Front(remaining), <<c.result>> \o values))

(* A value is stored, and control goes on where it is read. *)
Kept(b, slot, join) == jump(Store(b, slot, b.result), join)
Join(b, slot, join) == Load(At(Kept(b, slot, join), join), slot)
(* A logical value decides between two blocks. *)
Guarded(b) == LogicalGuard(b, b.result)
Decide(b, yes, no) == branch(Guarded(b), b.result, "logical", yes, no)

(* MembershipItem: the candidates after the first that is equal are not evaluated. *)
MembershipItem(b, e, left, index, slot, join) ==
  Then(expression(b, e.candidates[index]), LAMBDA right :
  Then(value(right, "Equal", <<left, right.result>>, Nil), LAMBDA equal :
  Then(IF e.negated THEN value(equal, "Not", <<equal.result>>, Nil) ELSE equal, LAMBDA answer :
  IF index = Len(e.candidates) THEN Join(answer, slot, join)
  ELSE Then(LogicalGuard(Store(answer, slot, answer.result), equal.result), LAMBDA stored :
       MembershipItem(At(branch(block(stored, 1), equal.result, "logical", join, NextBlock(stored)),
                         NextBlock(stored)), e, left, index + 1, slot, join)))))

(* LookupNext: the entries from the last to the first, the value of each before *)
(* its key; then the table, and the entries from the first to the last.         *)
LookupNext(b, entries, index, known) ==
  IF index > 0
  THEN Then(expression(b, entries[index].value), LAMBDA v :
       Then(expression(v, entries[index].key), LAMBDA k :
       LookupNext(k, entries, index - 1, <<<<k.result, v.result>>>> \o known)))
  ELSE Then(value(b, "NewLocalLookup", <<>>, Nil), LAMBDA made :
       LET Set[n \in 0..Len(known)] ==
             IF n = 0 THEN made
             ELSE value(Set[n - 1], "LookupSet", <<made.result>> \o known[n], Nil)
       IN  [Set[Len(known)] EXCEPT !.result = made.result])

(* Short, ShortEnd: &&, || and ??. *)
Short(b, e) ==
  LET logical == e.k # "ifnil"
  IN  Then(expression(b, e.a), LAMBDA left :
      Then(temp(IF logical THEN Guarded(left) ELSE left), LAMBDA c :
      LET rhs == NextBlock(c)
          join == rhs + 1
      IN  Then(branch(block(Store(c, TempSlot(c), left.result), 2), left.result,
                      IF logical THEN "logical" ELSE "nil",
                      IF e.k = "or" THEN join ELSE rhs, IF e.k = "or" THEN rhs ELSE join), LAMBDA split :
          Then(expression(At(split, rhs), e.b), LAMBDA right :
          Join(IF logical THEN Guarded(right) ELSE right, TempSlot(c), join)))))

(* Choose, Then, Else: c ? a : b. *)
Choose(b, e) ==
  Then(expression(b, e.c), LAMBDA condition :
  Then(temp(Guarded(condition)), LAMBDA c :
  LET yes == NextBlock(c)
      join == yes + 2
  IN  Then(branch(block(Reset(c, TempSlot(c)), 3), condition.result, "logical", yes, yes + 1), LAMBDA split :
      Then(expression(At(split, yes), e.a), LAMBDA then :
      Then(expression(At(Kept(then, TempSlot(c), join), yes + 1), e.b), LAMBDA else :
      Join(else, TempSlot(c), join))))))

(* Syntax::Unary ++ and --, and the assignments to a local: the old value is *)
(* read before what is added to it is evaluated.                             *)
Assigned(b, x) == Store(b, Local(x), b.result)
AssignLocal(b, e) ==
  IF e.k = "assign" THEN Assigned(expression(b, e.b), e.x)
  ELSE Then(Load(b, Local(e.x)), LAMBDA old :
       Then(expression(old, e.b), LAMBDA rhs :
       Assigned(value(rhs, "Add", <<old.result, rhs.result>>, Nil), e.x)))
Increment(b, e) ==
  Then(Load(b, Local(e.x)), LAMBDA old :
  Then(Constant(old, Integer(1)), LAMBDA one :
  Then(Assigned(value(one, "Add", <<old.result, one.result>>, Nil), e.x), LAMBDA new :
  [new EXCEPT !.result = IF e.postfix THEN old.result ELSE @])))

(* PropertyRhs, PropertyWrite, PropertyCompound, PropertyFinish, PropertyIncrement. *)
SetProperty(b, receiver, key, v) ==
  [effect(b, "SetProperty", <<receiver>> \o key \o <<v>>, "prop") EXCEPT !.result = v]
GetProperty(b, receiver, key) == value(b, "GetProperty", <<receiver>> \o key, "prop")

(* A property of a name has no key; IndirectReceiver evaluates a key after the *)
(* receiver.  The result is <<builder, receiver, key>>.                        *)
Receiver(b, e) ==
  Then(expression(b, e.receiver), LAMBDA receiver :
  IF e.key = <<>> THEN <<receiver, receiver.result, <<>>>>
  ELSE Then(expression(receiver, e.key[1]), LAMBDA key : <<key, receiver.result, <<key.result>>>>))

AssignProperty(b, e) ==
  IF e.k = "setprop"
  THEN Then(expression(b, e.b), LAMBDA rhs :
       Then(Receiver(rhs, e), LAMBDA r : SetProperty(r[1], r[2], r[3], rhs.result)))
  ELSE Then(Receiver(b, e), LAMBDA r :
       Then(GetProperty(r[1], r[2], r[3]), LAMBDA old :
       Then(IF e.k = "addprop" THEN expression(old, e.b) ELSE Constant(old, Integer(1)), LAMBDA rhs :
       Then(value(rhs, "Add", <<old.result, rhs.result>>, Nil), LAMBDA new :
       [SetProperty(new, r[2], r[3], new.result) EXCEPT
          !.result = IF e.k = "incprop" /\ e.postfix THEN old.result ELSE new.result]))))

(* IndexRhs, IndexSetReceiver, IndexSetKey. *)
IndexSet(b, e) ==
  Then(expression(b, e.b), LAMBDA rhs :
  Then(Receiver(rhs, e), LAMBDA r : value(r[1], "IndexSet", <<r[2]>> \o r[3] \o <<rhs.result>>, Nil)))

(* The counting loops over a collection: blocks test, body, keep, next, exit. *)
Found(b, e, element, current, one, outcome, keep) ==
  LET found == IF e.k = "valwhich" THEN element ELSE current
  IN  CASE e.k = "foreachitem" -> jump(b, keep + 1)
        [] e.k = "countwhich" ->
             Then(Load(At(Decide(b, keep, keep + 1), keep), outcome), LAMBDA count :
             Kept(value(count, "Add", <<count.result, one>>, Nil), outcome, keep + 1))
        [] OTHER -> jump(Store(At(Decide(b, keep, keep + 1), keep), outcome, found), keep + 2)

WalkSteps(b, e, collection, callback, count, one, index, outcome) ==
  LET test == NextBlock(b)
      last == e.k = "lastwhich"
  IN  Then(Load(At(jump(block(b, 5), test), test), index), LAMBDA current :
      Then(value(current, "AtMost", IF last THEN <<one, current.result>> ELSE <<current.result, count>>, Nil),
           LAMBDA more :
      Then(value(At(Decide(more, test + 1, test + 4), test + 1), "ListIndex", <<collection, current.result>>, Nil),
           LAMBDA element :
      Then(value(element, "Invoke", <<callback, element.result>>, Nil), LAMBDA verdict :
      Then(Found(verdict, e, element.result, current.result, one, outcome, test + 2), LAMBDA kept :
      Then(value(At(kept, test + 3), IF last THEN "Subtract" ELSE "Add", <<current.result, one>>, Nil),
           LAMBDA step :
      Load(At(Kept(step, index, test), test + 4), outcome)))))))

Walk(b, e) ==
  Then(Arguments(b, <<e.a, e.b>>, <<>>), LAMBDA args :
  Then(value(args[1], "Length", <<args[2][1]>>, Nil), LAMBDA count :
  Then(Constant(count, Integer(1)), LAMBDA one :
  Then(Constant(one, Nil), LAMBDA nil :
  Then(Constant(nil, Integer(0)), LAMBDA zero :
  Then([zero EXCEPT !.slots = @ + 2], LAMBDA c :
  LET index == <<"", c.slots - 1>>
      outcome == <<"", c.slots>>
      start == IF e.k = "lastwhich" THEN count.result ELSE one.result
      none == IF e.k = "countwhich" THEN zero.result ELSE nil.result
  IN  WalkSteps(Store(Store(Reset(Reset(c, index), outcome), index, start), outcome, none),
               e, args[2][1], args[2][2], count.result, one.result, index, outcome)))))))

(* VectorSort: the runtime asks for one comparison after another. *)
SortSteps(b, vector, callback, outcome) ==
  LET test == NextBlock(b)
  IN  Then(Load(At(jump(block(b, 3), test), test), outcome), LAMBDA last :
      Then(value(last, "VectorSortNext", <<vector, last.result>>, Nil), LAMBDA more :
      Then(value(At(Decide(more, test + 1, test + 2), test + 1), "Invoke", <<callback>>, Nil), LAMBDA order :
      Constant(At(Kept(order, outcome, test), test + 2), Nil))))
VectorSort(b, e) ==
  Then(Arguments(b, <<e.a, e.b>>, <<>>), LAMBDA args :
  Then(Constant(effect(args[1], "VectorSortBegin", <<args[2][1]>>, Nil), Nil), LAMBDA nil :
  Then(temp(nil), LAMBDA c :
  SortSteps(Store(Reset(c, TempSlot(c)), TempSlot(c), nil.result), args[2][1], args[2][2], TempSlot(c)))))

(* ExpressionTask::Eval: one case of each syntax. *)
expression(b, e) ==
  CASE e.k = "constant" -> Constant(b, e.n)
    [] e.k = "name" -> Load(b, Local(e.x))
    [] e.k = "call" ->
         Then(Arguments(b, e.arguments, <<>>), LAMBDA args : value(args[1], "Call", args[2], e))
    [] e.k = "method" ->
         Then(Arguments(b, e.arguments, <<>>), LAMBDA args :
         Then(Receiver(args[1], e), LAMBDA r : value(r[1], "CallMethod", <<r[2]>> \o r[3] \o args[2], e)))
    [] e.k = "construct" ->
         Then(Arguments(b, e.arguments, <<>>), LAMBDA args :
         Then(value(args[1], "BeginConstruction", <<>>, e), LAMBDA object :
         value(value(object, "CallMethod", <<object.result>> \o args[2], e),
               "FinishException", <<object.result>>, e)))
    [] e.k = "getprop" -> Then(Receiver(b, e), LAMBDA r : GetProperty(r[1], r[2], r[3]))
    [] e.k \in {"setprop", "addprop", "incprop"} -> AssignProperty(b, e)
    [] e.k \in {"assign", "add"} -> AssignLocal(b, e)
    [] e.k = "increment" -> Increment(b, e)
    [] e.k = "index" -> Then(Receiver(b, e), LAMBDA r : value(r[1], "ListIndex", <<r[2]>> \o r[3], Nil))
    [] e.k = "indexset" -> IndexSet(b, e)
    [] e.k = "comma" -> expression(expression(b, e.a), e.b)
    [] e.k = "pair" ->
         Then(expression(b, e.a), LAMBDA left :
         Then(expression(left, e.b), LAMBDA right : value(right, "Add", <<left.result, right.result>>, Nil)))
    [] e.k = "not" -> Then(expression(b, e.a), LAMBDA a : value(a, "Not", <<a.result>>, Nil))
    [] e.k \in {"and", "or", "ifnil"} -> Short(b, e)
    [] e.k = "choose" -> Choose(b, e)
    [] e.k = "member" ->
         Then(expression(b, e.a), LAMBDA left :
         Then(temp(left), LAMBDA c :
         MembershipItem(block(Reset(c, TempSlot(c)), 1), e, left.result, 1, TempSlot(c), NextBlock(c))))
    [] e.k = "lookup" -> LookupNext(b, e.entries, Len(e.entries), <<>>)
    [] e.k = "emit" ->
         Then(expression(b, e.a), LAMBDA a : Constant(effect(a, "EmitValue", <<a.result>>, Nil), Nil))
    [] e.k = "sort" -> VectorSort(b, e)
    [] OTHER -> Walk(b, e)
=============================================================================
