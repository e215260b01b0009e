------------------------------ MODULE Machine ------------------------------
(***************************************************************************)
(* What the blocks of a function do when they run: the instructions and    *)
(* terminators as llvm.rs emits them, with the scopes, iterations,         *)
(* constructions and exceptions the runtime keeps for them (operations 57  *)
(* to 65 and 76 to 81 of native_objects.rs).  A machine m is one call of   *)
(* the function.  What other code answers (the result of a call, whether   *)
(* there is another element) is asked for and recorded in m.trace.         *)
(***************************************************************************)
EXTENDS Lowering
LOCAL INSTANCE SequencesExt

RECURSIVE Run(_)

(* Exceptions: an object of a class; one that owns itself has a token. *)
Exception(class, token) == <<3, class, token>>
Class(v) == v[2]
NoPending == <<Nil, Integer(0), Integer(0), Nil>>

(* The entry of a function begins the scope of its frame. *)
Start(blocks) ==
  [blocks |-> blocks, block |-> 1, index |-> 1, values |-> <<>>, slots |-> <<>>, pending |-> NoPending,
   checkpoints |-> <<[id |-> 1, iterations |-> 0, constructions |-> 0]>>, next_checkpoint |-> 1,
   iterations |-> <<>>, constructions |-> 0, exceptions |-> {}, next_token |-> 1,
   trace |-> <<>>, status |-> "running", outcome |-> [t |-> "none"]]

With(f, x, v) == [y \in {x} \cup DOMAIN f |-> IF y = x THEN v ELSE f[y]]
SlotOf(m, slot) == IF slot \in DOMAIN m.slots THEN m.slots[slot] ELSE Nil
Goto(m, target) == [m EXCEPT !.block = target, !.index = 1]
Done(m, outcome) == [m EXCEPT !.status = "done", !.outcome = outcome]

(* Error 11 of the runtime's bookkeeping: compiled code never meets it. *)
Broken(m) == Done(m, [t |-> "broken"])

(* Slip: an exception outlives its handler. *)
EndLastKept(m, id) ==
  LET mark == Last(m.checkpoints)
  IN  IF m.checkpoints = <<>> \/ mark.id # id
         \/ Len(m.iterations) < mark.iterations \/ m.constructions < mark.constructions
      THEN Broken(m)
      ELSE [m EXCEPT !.checkpoints = Front(@), !.iterations = SubSeq(@, 1, mark.iterations),
                     !.constructions = mark.constructions]
(* op 64: only the last scope ends; what was begun in it goes with it, and *)
(* the exception its handler owns.                                         *)
EndLast(m, id) ==
  LET mark == Last(m.checkpoints)
  IN  IF m.checkpoints = <<>> \/ mark.id # id
         \/ Len(m.iterations) < mark.iterations \/ m.constructions < mark.constructions
      THEN Broken(m)
      ELSE [m EXCEPT !.checkpoints = Front(@), !.iterations = SubSeq(@, 1, mark.iterations),
                     !.constructions = mark.constructions,
                     !.exceptions = {e \in @ : e.scope # id}]

(* op 65: every scope down to one, each by itself. *)
RECURSIVE Unwind(_, _)
Unwind(m, id) ==
  IF m.status # "running" \/ \A i \in DOMAIN m.checkpoints : m.checkpoints[i].id # id THEN m
  ELSE Unwind(EndLast(m, Last(m.checkpoints).id), id)
UnwindTo(m, id) ==
  IF \A i \in DOMAIN m.checkpoints : m.checkpoints[i].id # id THEN Broken(m) ELSE Unwind(m, id)

(* Every exit of a function unwinds its frame. *)
exit(m, outcome) ==
  LET u == UnwindTo(m, 1) IN IF u.status = "done" THEN u ELSE Done(u, outcome)

(* propagate: only a source exception (code 9) has a handler. *)
propagate(m, packet, edge) ==
  IF edge.target = 0 THEN exit([m EXCEPT !.pending = packet], [t |-> "throw", v |-> packet[1]])
  ELSE Goto([m EXCEPT !.pending = packet, !.slots = With(@, edge.slot, packet[1])], edge.target)

(* op 79: a handler acquires its exception first, in a scope of its own. *)
Claim(m, token) ==
  LET mark == Last(m.checkpoints)
      owned == {e \in m.exceptions : e.token = token}
  IN  IF token = 0 THEN m
      ELSE IF owned = {} \/ m.checkpoints = <<>> \/ (\E e \in owned : e.scope # 0)
              \/ (\E e \in m.exceptions : e.scope = mark.id)
              \/ Len(m.iterations) # mark.iterations \/ m.constructions # mark.constructions
      THEN Broken(m)
      ELSE [m EXCEPT !.exceptions = (@ \ owned) \cup {[e EXCEPT !.scope = mark.id] : e \in owned}]

(* op 80: a pending exception leaves the finalizer that kept it. *)
Detach(m, token) ==
  LET owned == {e \in m.exceptions : e.token = token}
  IN  IF token = 0 THEN m
      ELSE IF owned = {} \/ (\E e \in owned : e.scope = 0) THEN Broken(m)
      ELSE [m EXCEPT !.exceptions = (@ \ owned) \cup {[e EXCEPT !.scope = 0] : e \in owned}]

(* op 76: a constructed object owns itself from now on. *)
Constructed(m, class) ==
  [m EXCEPT !.exceptions = @ \cup {[token |-> m.next_token, scope |-> 0]}, !.next_token = @ + 1]

(* Terminator::Throw.  op 61 refuses an object that is gone; op 81 takes the *)
(* exception from the handler that owns it.                                  *)
throw(m, v, edge) ==
  LET owned == {e \in m.exceptions : e.token = v[3]}
      taken == [m EXCEPT !.exceptions = (@ \ owned) \cup {[e EXCEPT !.scope = 0] : e \in owned}]
  IN  IF Len(v) # 3 \/ v[1] # 3 \/ (v[3] # 0 /\ owned = {}) THEN exit(m, [t |-> "fault"])
      ELSE propagate(taken, <<v, Integer(9), Integer(0), IF v[3] = 0 THEN Nil ELSE Integer(v[3])>>, edge)

Token(v) == IF v = Nil THEN 0 ELSE v[2]
Bool(p) == IF p THEN True ELSE Nil
Sum(a, b, n) ==
  IF Len(a) = 2 /\ Len(b) = 2 /\ a[1] = 2 /\ b[1] = 2 THEN Integer(a[2] + n * b[2]) ELSE <<7>> \o a \o b

(* The operations the function only computes with. *)
Pure == {"Constant", "NamedObject", "Load", "Equal", "Not", "Add", "Subtract", "AtMost", "OfKind", "Pending",
         "IterationValue"}
Computed(m, i) ==
  LET Arg(n) == m.values[i.arguments[n]]
  IN  CASE i.op = "Constant" -> i.x
        [] i.op = "NamedObject" -> <<4, i.x>>
        [] i.op = "Load" -> SlotOf(m, i.x)
        [] i.op = "Equal" -> Bool(Arg(1) = Arg(2))
        [] i.op = "Not" -> Bool(Arg(1) = Nil)
        [] i.op = "Add" -> Sum(Arg(1), Arg(2), 1)
        [] i.op = "Subtract" -> Sum(Arg(1), Arg(2), -1)
        [] i.op = "AtMost" -> Bool(Arg(1)[2] <= Arg(2)[2])
        [] i.op = "OfKind" -> Bool(Class(Arg(1)) = Arg(2)[2])
        [] i.op = "Pending" -> m.pending[i.x]
        [] i.op = "IterationValue" -> Last(m.iterations)

(* The operations that are the runtime's bookkeeping. *)
Bookkeeping == {"BeginScope", "EndScope", "UnwindScope", "ClaimException", "DetachException", "RestorePending",
                "BeginIteration", "EndIteration", "BeginConstruction", "FinishException"}
Booked(m, i) ==
  LET Arg(n) == m.values[i.arguments[n]]
      id == m.next_checkpoint + 1
      Result(n, v) == [n EXCEPT !.values = With(@, i.result, v)]
  IN  CASE i.op = "BeginScope" ->
             Result([m EXCEPT !.next_checkpoint = id,
                       !.checkpoints = Append(@, [id |-> id, iterations |-> Len(m.iterations),
                                                  constructions |-> m.constructions])], Integer(id))
        [] i.op = "EndScope" -> EndLast(m, Arg(1)[2])
        [] i.op = "UnwindScope" -> UnwindTo(m, Arg(1)[2])
        [] i.op = "ClaimException" -> Claim(m, Token(Arg(1)))
        [] i.op = "DetachException" -> Detach(m, Token(Arg(1)))
        [] i.op = "RestorePending" -> [m EXCEPT !.pending = [n \in 1..4 |-> Arg(n)]]
        [] i.op = "BeginIteration" -> [m EXCEPT !.iterations = Append(@, Nil)]
        [] i.op = "EndIteration" -> IF m.iterations = <<>> THEN Broken(m) ELSE [m EXCEPT !.iterations = Front(@)]
        [] i.op = "BeginConstruction" -> Result([m EXCEPT !.constructions = @ + 1], Exception(i.x.class, 0))
        [] i.op = "FinishException" ->
             IF m.constructions <= Last(m.checkpoints).constructions THEN Broken(m)
             ELSE Result([Constructed(m, i.x.class) EXCEPT !.constructions = @ - 1],
                         Exception(i.x.class, m.next_token))

Running(m) == m.index <= Len(m.blocks[m.block].code)
Instruction(m) == m.blocks[m.block].code[m.index]
(* Anything else is asked of other code. *)
Asking(m) ==
  /\ m.status = "running" /\ Running(m)
  /\ Instruction(m).op \notin Pure \cup Bookkeeping \cup {"Store", "Reset", "LogicalGuard"}

Transfer(m, term) ==
  CASE term.t = "jump" -> Goto(m, term.to)
    [] term.t = "invoke" -> Goto(m, term.normal)
    [] term.t = "branch" ->
         Goto(m, IF m.values[term.condition] = (IF term.mode = "logical" THEN True ELSE Nil)
                 THEN term.yes ELSE term.no)
    [] term.t = "return" -> exit(m, [t |-> "return", v |-> m.values[term.v]])
    [] term.t = "throw" -> throw(m, m.values[term.v], term.edge)
    [] term.t = "resume" -> propagate(m, m.pending, term.edge)
    [] OTHER -> Broken(m)

Executed(m) ==
  LET i == Instruction(m)
      after == [m EXCEPT !.index = @ + 1]
  IN  IF ~Running(m) THEN Transfer(m, m.blocks[m.block].term)
      ELSE IF i.op \in Pure THEN [after EXCEPT !.values = With(@, i.result, Computed(m, i))]
      ELSE IF i.op \in Bookkeeping THEN Booked(after, i)
      ELSE IF i.op = "LogicalGuard"
           THEN IF m.values[i.arguments[1]] \in {True, Nil} THEN after ELSE exit(m, [t |-> "fault"])
      ELSE [after EXCEPT !.slots = With(@, i.x, IF i.op = "Reset" THEN Nil ELSE m.values[i.arguments[1]])]

(* What the code asks, with the values it asks about. *)
Question(m) ==
  LET i == Instruction(m)
  IN  [op |-> i.op, name |-> IF i.op \in {"Call", "CallMethod"} THEN i.x.name ELSE 0,
       arguments |-> [n \in DOMAIN i.arguments |-> m.values[i.arguments[n]]]]

(* The answer: a value, an exception the callee throws, or a fault, which  *)
(* nothing handles.                                                        *)
Answered(m, answer) ==
  LET i == Instruction(m)
      after == [m EXCEPT !.index = @ + 1,
                         !.trace = Append(@, [question |-> Question(m), answer |-> answer])]
      told == IF i.op # "AdvanceIteration" THEN after
              ELSE [after EXCEPT !.iterations[Len(m.iterations)] = Integer(Len(after.trace))]
      v == Exception(answer.class, m.next_token)
  IN  CASE answer.t = "fault" -> exit(after, [t |-> "fault"])
        [] answer.t = "value" ->
             IF i.result = 0 THEN told ELSE [told EXCEPT !.values = With(@, i.result, answer.v)]
        [] answer.t = "throw" ->
             propagate(Constructed(after, answer.class),
                       <<v, Integer(9), Integer(0), Integer(m.next_token)>>,
                       IF m.index = Len(m.blocks[m.block].code) /\ m.blocks[m.block].term.t = "invoke"
                       THEN m.blocks[m.block].term.edge ELSE NoEdge)

Run(m) == IF m.status # "running" \/ Asking(m) THEN m ELSE Run(Executed(m))
=============================================================================
