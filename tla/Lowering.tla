------------------------------ MODULE Lowering ------------------------------
(***************************************************************************)
(* The lowering of statements: Builder::statements of                      *)
(* zeb-frontend/src/ir.rs.  A statement is a record whose field k names    *)
(* its syntax.  The tasks of the code are the recursive calls here, in the *)
(* same order, so blocks, values and slots are numbered as the code        *)
(* numbers them.  A context (Loop) is what break and continue leave; test  *)
(* is 0 when continue has no target, and exit 0 when break has none.       *)
(***************************************************************************)
EXTENDS Builder
LOCAL INSTANCE SequencesExt

RECURSIVE statement(_, _, _, _), statements(_, _, _), Catches(_, _, _, _, _), Cases(_, _, _, _, _),
          Arms(_, _, _, _, _), Routed(_, _, _, _)

NoLoop == [iterations |-> 0, test |-> 0, exit |-> 0, break_depth |-> 0, continue_depth |-> 0,
           break_finally |-> 0, continue_finally |-> 0]

(* A loop opened here: what is open now stays open after break and continue. *)
Loop(b, test, exit) ==
  [iterations |-> b.iterations, test |-> test, exit |-> exit,
   break_depth |-> Len(b.handlers), continue_depth |-> Len(b.handlers),
   break_finally |-> Len(b.active), continue_finally |-> Len(b.active)]

(* A switch or a labelled statement: break leaves it, continue is the loop's. *)
Inside(b, context, test, exit) ==
  IF context = NoLoop THEN Loop(b, test, exit)
  ELSE [Loop(b, test, exit) EXCEPT !.continue_depth = context.continue_depth,
                                   !.continue_finally = context.continue_finally]

(* loop_context: a label directly on the statement has its targets. *)
loop_context(b, label, loop) ==
  [b EXCEPT !.labels = [i \in DOMAIN @ |-> IF @[i].name = label THEN [@[i] EXCEPT !.loop = loop] ELSE @[i]]]

(* Successors of a block, its handler among them; current_reachable. *)
Edges(term) ==
  CASE term.t = "jump" -> {term.to}
    [] term.t = "branch" -> {term.yes, term.no}
    [] term.t = "invoke" -> {term.normal, term.edge.target}
    [] term.t \in {"throw", "resume"} -> {term.edge.target} \ {0}
    [] OTHER -> {}
RECURSIVE ReachableFrom(_, _)
ReachableFrom(blocks, seen) ==
  LET next == UNION {Edges(blocks[i].term) : i \in seen}
  IN  IF next \subseteq seen THEN seen ELSE ReachableFrom(blocks, seen \cup next)
current_reachable(b) == b.current \in ReachableFrom(b.blocks, {1})

EndIterations(b, n) ==
  LET End[i \in 0..n] == IF i = 0 THEN b ELSE value(End[i - 1], "EndIteration", <<>>, Nil)
  IN  End[IF n < 0 THEN 0 ELSE n]

(* Leaving the handlers above handler_depth, the last first. *)
RECURSIVE EndScopes(_, _)
EndScopes(b, handlers) ==
  IF handlers = <<>> THEN b
  ELSE EndScopes(value(b, "EndScope", <<Last(handlers).checkpoint>>, Nil), Front(handlers))

Least(S) == CHOOSE n \in S : \A m \in S : n <= m

(* route_action.  Inside a finalizer the action is one of its codes, from 3 *)
(* on, and the finalizer takes it up when it is done; the last finalizer's  *)
(* scope is left by the finalizer itself.                                   *)
NewBlock(b) == At(block(b, 1), NextBlock(b))
Finalizer(b) == b.finalizers[Last(b.active)]
Deferred(b, action, v) ==
  LET f == Finalizer(b)
      kept == [(IF v = 0 THEN b ELSE Store(b, f.value, v)) EXCEPT !.finalizers[Last(b.active)].actions = Append(@, action)]
  IN  Kept(Constant(kept, Integer(Len(f.actions) + 3)), f.reason, f.entry)
Opened(b, action) == SubSeq(b.handlers, action.handler_depth + 1, Len(b.handlers))
Outside(b, action) ==
  LET opened == Opened(b, action) IN Least({b.iterations} \cup {opened[i].iterations : i \in DOMAIN opened})
Returned(b, v) == terminate(EndIterations(b, b.iterations), [t |-> "return", v |-> v])
route_action(b, action, v) ==
  NewBlock(IF Len(b.active) > action.finally_depth THEN Deferred(b, action, v)
           ELSE IF action.kind = "return" THEN Returned(b, v)
           ELSE jump(EndIterations(EndScopes(b, Opened(b, action)), Outside(b, action) - action.iteration_depth),
                     action.target))

Return == [kind |-> "return", finally_depth |-> 0, handler_depth |-> 0, iteration_depth |-> 0, target |-> 0]
Jump(target, handlers, finalizers, iterations) ==
  [kind |-> "jump", target |-> target, handler_depth |-> handlers, finally_depth |-> finalizers,
   iteration_depth |-> iterations]

(* goto_target: the block of a label, made when it is first needed. *)
goto_target(b, name) ==
  IF name \in DOMAIN b.targets THEN b
  ELSE [block(b, 1) EXCEPT !.targets =
          [x \in {name} \cup DOMAIN @ |->
             IF x = name THEN [block |-> NextBlock(b), depths |-> <<>>] ELSE @[x]]]

(* enter_goto_sequence: what is open at the labels of a sequence. *)
RECURSIVE enter_goto_sequence(_, _)
enter_goto_sequence(b, items) ==
  IF items = <<>> THEN b
  ELSE IF Head(items).k # "label" THEN enter_goto_sequence(b, Tail(items))
  ELSE LET name == Head(items).name
           made == [goto_target(b, name) EXCEPT !.targets[name].depths =
                      <<Len(b.handlers), Len(b.active), b.iterations>>]
       IN  enter_goto_sequence(made, <<Head(items).body>> \o Tail(items))

(* A scope opened with its handler: a block of its own, so that calls made  *)
(* before are outside it.                                                   *)
Handling(b, edge, checkpoint) ==
  [b EXCEPT !.handlers = Append(@, [iterations |-> b.iterations, edge |-> edge, checkpoint |-> checkpoint])]
Protected(b, checkpoint, target, slot) ==
  Handling(At(jump(block(b, 1), NextBlock(b)), NextBlock(b)), [target |-> target, slot |-> slot], checkpoint)
Unprotected(b) == [b EXCEPT !.handlers = Front(@)]

(* The cleanup scope of a catch or a finalizer: it owns the exception. *)
Claimed(b, owner, checkpoint) ==
  Then(temp(block(value(b, "ClaimException", <<owner>>, Nil), 1)), LAMBDA c :
  Handling(c, [target |-> Len(c.blocks), slot |-> TempSlot(c)], checkpoint))

EndScope(b, checkpoint) == value(b, "EndScope", <<checkpoint>>, Nil)
Resume(b) == terminate(b, [t |-> "resume", edge |-> Handler(b)])
(* The handler of a scope that only ends it, and goes on with the exception. *)
Cleanup(b, handler) == Resume(EndScope(At(b, handler.edge.target), handler.checkpoint))

(* A comparison decides between the next two of n blocks. *)
Equals(b, v, w) == value(b, "Equal", <<v, w>>, Nil)
Split(b, n) == branch(block(Guarded(b), n), b.result, "logical", NextBlock(b), NextBlock(b) + 1)
Saved(b, slot) == Store(b, slot, b.result)

(* AfterProtected: the ways into the finalizer are a normal end (reason 0), an *)
(* exception (1), and the actions routed to it; each unwinds the scope.        *)
SavePending(b, packet) ==
  LET Packet[i \in 0..4] == IF i = 0 THEN b ELSE Saved(value(Packet[i - 1], "Pending", <<>>, i), packet[i])
  IN  Packet[4]
Into(b, f, reason) == Kept(Constant(b, Integer(reason)), f.reason, f.entry)
Entering(b, f, handler) ==
  Then(At(Into(b, f, 0), handler.edge.target), LAMBDA caught :
  Then(At(Into(SavePending(caught, f.packet), f, 1), f.entry), LAMBDA entered :
  Then(value(value(entered, "UnwindScope", <<handler.checkpoint>>, Nil), "BeginScope", <<>>, Nil), LAMBDA begun :
  Then(Load(begun, f.packet[4]), LAMBDA owner : Claimed(owner, owner.result, begun.result)))))
AfterProtected(b, index) ==
  Entering([b EXCEPT !.finalizers[index].normal = current_reachable(b),
                     !.handlers = Front(@), !.active = Front(@)],
           b.finalizers[index], Last(b.handlers))

(* The actions taken up after the finalizer, one after the other. *)
Selected(b, reason, code) == Then(Constant(b, Integer(code)), LAMBDA c : Split(Equals(c, reason, c.result), 2))
Taken(b, f, target, action) == Then(Load(At(b, target), f.value), LAMBDA v : route_action(v, action, v.result))
Routed(b, f, reason, ordinal) ==
  IF ordinal > Len(f.actions) THEN b
  ELSE Routed(At(Taken(Selected(b, reason, ordinal + 2), f, NextBlock(b), f.actions[ordinal]), NextBlock(b) + 1),
              f, reason, ordinal + 1)

(* AfterFinally: what the finalizer replaced goes on, unless it went elsewhere. *)
RestorePending(b, packet) ==
  LET Packet[i \in 0..4] == IF i = 0 THEN <<b>> ELSE Append(Packet[i - 1], Load(Last(Packet[i - 1]), packet[i]))
  IN  Then(Packet[4], LAMBDA read :
      value(read[5], "RestorePending", [i \in 1..4 |-> read[i + 1].result], Nil))
Resumed(b, f, cleanup) ==
  Then(Load(b, f.packet[4]), LAMBDA owner :
  Resume(RestorePending(EndScope(value(owner, "DetachException", <<owner.result>>, Nil), cleanup.checkpoint), f.packet)))
Leaving(b, f, cleanup, current) ==
  Then(Load(At(Cleanup(b, cleanup), current), f.reason), LAMBDA reason :
  Then(Constant(reason, Integer(1)), LAMBDA one :
  Then(Equals(one, reason.result, one.result), LAMBDA equal :
  LET resume == NextBlock(equal)
  IN  Then(Resumed(At(Split(equal, 2), resume), f, cleanup), LAMBDA resumed :
      At(jump(Routed(EndScope(At(resumed, resume + 1), cleanup.checkpoint), f, reason.result, 1),
              IF f.normal THEN f.end ELSE resume), f.end)))))
AfterFinally(b, index) == Leaving(Unprotected(b), b.finalizers[index], Last(b.handlers), b.current)

(* Syntax::Finally and Syntax::OwnerScope. *)
ClearSlots(b, slot) ==
  Then(Constant(b, Nil), LAMBDA nil :
  LET Cleared[i \in 0..6] == IF i = 0 THEN nil ELSE Store(Cleared[i - 1], <<"", slot + i + 1>>, nil.result)
  IN  Cleared[6])
Finally(b, s, context) ==
  LET target == NextBlock(b)
      index == Len(b.finalizers) + 1
      Slot(i) == <<"", b.slots + i>>
      f == [entry |-> target + 1, end |-> target + 2, reason |-> Slot(2), value |-> Slot(3),
            packet |-> [i \in 1..4 |-> Slot(i + 3)], actions |-> <<>>, normal |-> FALSE]
  IN  Then(value(b, "BeginScope", <<>>, Nil), LAMBDA begun :
      Then(ClearSlots(block([begun EXCEPT !.slots = @ + 7], 3), b.slots), LAMBDA cleared :
      Then([cleared EXCEPT !.finalizers = Append(@, f), !.active = Append(@, index)], LAMBDA opened :
      Then(statement(Protected(opened, begun.result, target, Slot(1)), s.body, context, ""), LAMBDA body :
      Then(AfterProtected(body, index), LAMBDA finalizer :
      AfterFinally(IF s.k = "owner" THEN finalizer ELSE statement(finalizer, s.finalizer, context, ""), index))))))

(* Syntax::Try, AfterTry: the classes are tried in order, outside the scope. *)
Try(b, s, context) ==
  LET target == NextBlock(b)
      slot == <<"", b.slots + 1>>
  IN  Then(value(b, "BeginScope", <<>>, Nil), LAMBDA begun :
      Then(statement(Protected(block(temp(begun), 2), begun.result, target, slot), s.body, context, ""), LAMBDA body :
      Then(jump(EndScope(Unprotected(body), begun.result), target + 1), LAMBDA left :
      Then(Load(EndScope(At(left, target), begun.result), slot), LAMBDA caught :
      Then(Cases(caught, s.catches, caught.result, 1, <<>>), LAMBDA tried :
      At(Catches(Resume(tried[1]), s.catches, tried[2], caught.result, <<target + 1, context>>), target + 1))))))

(* Which catch: <<builder, the blocks of the catches>>. *)
Cases(b, catches, exception, n, targets) ==
  IF n > Len(catches) THEN <<b, targets>>
  ELSE Then(value(b, "NamedObject", <<>>, catches[n].class), LAMBDA class :
       Then(Split(value(class, "OfKind", <<exception, class.result>>, Nil), 2), LAMBDA tested :
       Cases(At(tested, NextBlock(b) + 1), catches, exception, n + 1, Append(targets, NextBlock(b)))))

(* CatchStart, the body, AfterCatch. *)
CatchStart(b, local, exception) ==
  Then(value(b, "Pending", <<>>, 4), LAMBDA owner :
  Then(value(owner, "BeginScope", <<>>, Nil), LAMBDA begun :
  Then(Claimed(begun, owner.result, begun.result), LAMBDA claimed :
  Store(Reset(claimed, local), local, exception))))
AfterCatch(b, handler, end) == Cleanup(jump(EndScope(Unprotected(b), handler.checkpoint), end), handler)
Catches(b, catches, targets, exception, where) ==
  IF catches = <<>> THEN b
  ELSE Then(CatchStart(At(b, Head(targets)), Local(Head(catches).x), exception), LAMBDA started :
       Then(statement(started, Head(catches).body, where[2], ""), LAMBDA body :
       Catches(AfterCatch(body, Last(body.handlers), where[1]), Tail(catches), Tail(targets), exception, where)))

(* Syntax::Switch: the cases in order, then the default; the bodies follow  *)
(* one another.                                                             *)
Tested(b, selected, e, target) ==
  Then(expression(b, e), LAMBDA v :
  Then(Equals(v, selected, v.result), LAMBDA equal :
  At(Decide(block(equal, 1), target, NextBlock(equal)), NextBlock(equal))))
Tests(b, s, exit) ==
  LET default == {i \in DOMAIN s.arms : s.arms[i].case = <<>>}
      Test[i \in 0..Len(s.arms)] ==
        IF i = 0 THEN block(b, 1 + Len(s.arms))
        ELSE IF i \in default THEN Test[i - 1]
        ELSE Tested(Test[i - 1], b.result, s.arms[i].case[1], exit + i)
  IN  jump(Test[Len(s.arms)], IF default = {} THEN exit ELSE exit + Least(default))
Bodies(s) == FlattenSeq([i \in DOMAIN s.arms |-> s.arms[i].body])
Switch(b, s, context, label) ==
  Then(expression(enter_goto_sequence(b, Bodies(s)), s.e), LAMBDA selected :
  LET exit == NextBlock(selected)
      inner == Inside(b, context, context.test, exit)
  IN  Then(Tests(selected, s, exit), LAMBDA tested :
      IF s.arms = <<>> THEN At(tested, exit)
      ELSE Arms(loop_context(tested, label, inner), s.arms, 1, exit, inner)))

Arms(b, arms, n, exit, inner) ==
  IF n > Len(arms) THEN b
  ELSE LET next == IF n = Len(arms) THEN exit ELSE exit + n + 1
       IN  Arms(At(jump(statements(At(b, exit + n), arms[n].body, inner), next), next), arms, n + 1, exit, inner)

(* break, continue and goto, named or not; the target is out of what is open. *)
Leave(b, s, context) ==
  LET named == {i \in DOMAIN b.labels : b.labels[i].name = s.name}
      loop == IF s.name = "" THEN context ELSE b.labels[CHOOSE i \in named : TRUE].loop
  IN  CASE s.k = "goto" ->
             LET t == b.targets[s.name]
             IN  route_action(b, Jump(t.block, t.depths[1], t.depths[2], t.depths[3]), 0)
        [] s.k = "break" ->
             route_action(b, Jump(loop.exit, loop.break_depth, loop.break_finally, loop.iterations), 0)
        [] s.k = "continue" ->
             route_action(b, Jump(loop.test, loop.continue_depth, loop.continue_finally, loop.iterations), 0)

(* A body in its loop, from one block to another. *)
Body(b, s, label, loop, next) == jump(statement(loop_context(b, label, loop), s.body, loop, ""), next)

(* Syntax::ForEach, EndIteration. *)
Element(b, test, x) ==
  Then(value(At(jump(block(b, 3), test), test), "AdvanceIteration", <<>>, Nil), LAMBDA next :
  Then(value(At(Decide(next, test + 1, test + 2), test + 1), "IterationValue", <<>>, Nil), LAMBDA item :
  Saved(Reset(item, Local(x)), Local(x))))
ForEach(b, s, label) ==
  Then(expression(b, s.e), LAMBDA source :
  Then([value(source, "BeginIteration", <<source.result>>, Nil) EXCEPT !.iterations = @ + 1], LAMBDA begun :
  LET test == NextBlock(begun)
  IN  Then(Element(begun, test, s.x), LAMBDA bound :
      [value(At(Body(bound, s, label, Loop(bound, test, test + 2), test), test + 2), "EndIteration", <<>>, Nil)
         EXCEPT !.iterations = @ - 1])))

(* Syntax::While, DoWhile and For. *)
While(b, s, label) ==
  LET test == NextBlock(b)
  IN  Then(Decide(expression(At(jump(block(b, 3), test), test), s.e), test + 1, test + 2), LAMBDA split :
      At(Body(At(split, test + 1), s, label, Loop(b, test, test + 2), test), test + 2))
DoWhile(b, s, label) ==
  LET body == NextBlock(b)
      test == body + 1
  IN  Then(Body(At(jump(block(b, 3), body), body), s, label, Loop(b, test, test + 1), test), LAMBDA done :
      At(Decide(expression(At(done, test), s.e), body, test + 1), test + 1))
For(b, s, context, label) ==
  Then(statements(b, s.init, context), LAMBDA started :
  LET test == NextBlock(started)
  IN  Then(At(jump(block(started, 4), test), test), LAMBDA entered :
      Then(IF s.e = <<>> THEN jump(entered, test + 1) ELSE Decide(expression(entered, s.e[1]), test + 1, test + 3),
           LAMBDA split :
      Then(At(Body(At(split, test + 1), s, label, Loop(started, test + 2, test + 3), test + 2), test + 2),
           LAMBDA increment :
      At(jump(IF s.step = <<>> THEN increment ELSE expression(increment, s.step[1]), test), test + 3)))))

(* Syntax::If, AfterThen, AfterElse. *)
If(b, s, context) ==
  Then(expression(b, s.e), LAMBDA c :
  LET yes == NextBlock(c)
  IN  Then(jump(statement(At(Split(c, 3), yes), s.yes, context, ""), yes + 2), LAMBDA then :
      Then(At(then, yes + 1), LAMBDA else :
      At(jump(IF s.no = <<>> THEN else ELSE statement(else, s.no[1], context, ""), yes + 2), yes + 2))))

(* Syntax::Label, EndLabel. *)
Labelled(b, s, context, target, exit) ==
  Then([At(jump(block(b, 1), target), target) EXCEPT !.labels =
          Append(@, [name |-> s.name, loop |-> Inside(b, context, 0, exit)])], LAMBDA entered :
  [At(jump(statement(entered, s.body, context, s.name), exit), exit) EXCEPT !.labels = Front(@)])
Label(b, s, context) ==
  Then(goto_target(b, s.name), LAMBDA made :
  Labelled(made, s, context, made.targets[s.name].block, NextBlock(made)))

(* Syntax::Throw: outside every handler the iterations end here. *)
Throw(b, s) ==
  Then(expression(b, s.e), LAMBDA v :
  NewBlock(terminate(EndIterations(v, IF b.handlers = <<>> THEN b.iterations ELSE 0),
                     [t |-> "throw", v |-> v.result, edge |-> Handler(b)])))

(* StatementTask::Visit; `label` is the name directly on the statement. *)
statement(b, s, context, label) ==
  CASE s.k = "label" -> Label(b, s, context)
    [] s.k = "block" -> statements(enter_goto_sequence(b, s.items), s.items, context)
    [] s.k = "expression" -> expression(b, s.e)
    [] s.k = "local" ->
         Then(Reset(b, Local(s.x)), LAMBDA reset :
         IF s.e = <<>> THEN reset ELSE Saved(expression(reset, s.e[1]), Local(s.x)))
    [] s.k = "throw" -> Throw(b, s)
    [] s.k = "return" ->
         Then(IF s.e = <<>> THEN Constant(b, Nil) ELSE expression(b, s.e[1]), LAMBDA v :
         route_action(v, Return, v.result))
    [] s.k = "if" -> If(b, s, context)
    [] s.k = "switch" -> Switch(b, s, context, label)
    [] s.k \in {"finally", "owner"} -> Finally(b, s, context)
    [] s.k = "try" -> Try(b, s, context)
    [] s.k = "foreach" -> ForEach(b, s, label)
    [] s.k = "while" -> While(b, s, label)
    [] s.k = "do" -> DoWhile(b, s, label)
    [] s.k = "for" -> For(b, s, context, label)
    [] s.k \in {"break", "continue", "goto"} -> Leave(b, s, context)
    [] OTHER -> b
statements(b, items, context) ==
  IF items = <<>> THEN b ELSE statements(statement(b, Head(items), context, ""), Tail(items), context)

(* lower_with: the blocks of a function whose body is s; falling off the end *)
(* returns nil, the parser's last statement of every body.                   *)
lower_with(s) == statement(Builder, s, NoLoop, "").blocks
=============================================================================
