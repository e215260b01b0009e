----------------------------- MODULE MCCompiler -----------------------------
(* A compiled program, in two parts that a behaviour shows one of.          *)
(*                                                                          *)
(* Functions of the source language, each run against every answer the      *)
(* rest of the program may give it: statements inside one another, and      *)
(* expressions inside one another.                                          *)
(*                                                                          *)
(* What the ownership model keeps of a program's objects while its          *)
(* functions, constructors and methods run inside one another.              *)
EXTENDS Analyses, Language, TLC

CONSTANTS
  nesting,      \* how many statements stand around the innermost one
  questions,    \* how many answers a run may use
  insideOut,    \* whether a try in a loop over a collection may return
  PropertyIds, Repertoires, MaxFrames, MaxRecords   \* as in Owners

Plain(v) == [t |-> "value", v |-> v]
Thrown(c) == [t |-> "throw", class |-> c]
Fault == [t |-> "fault"]

Call(n, outcomes) == [k |-> "call", name |-> n, arguments |-> <<>>, outcomes |-> outcomes]
Cond(n) == Call(n, {Plain(True), Plain(Nil)})
Work(n) == Call(n, {Plain(Nil), Thrown(1), Thrown(2)})
Do(e) == [k |-> "expression", e |-> e]
Block(items) == [k |-> "block", items |-> items]
Name(x) == [k |-> "name", x |-> x]

(* One statement around another; n numbers the calls. *)
Shapes == {"while", "do", "for", "foreach", "trybody", "catchbody", "finallybody", "finalizer", "if", "switch",
           "label", "block", "owner"}
(* Those that keep something for the runtime to unwind, and a loop: one more of these. *)
Unwinding == {"do", "foreach", "trybody", "catchbody", "finallybody", "finalizer"}
Wrap(w, s, n) ==
  CASE w = "while" -> [k |-> "while", e |-> Cond(n), body |-> s]
    [] w = "do" -> [k |-> "do", e |-> Cond(n), body |-> s]
    [] w = "for" -> [k |-> "for", init |-> <<Do(Cond(n))>>, e |-> <<Cond(n + 1)>>, step |-> <<Cond(n + 2)>>, body |-> s]
    [] w = "foreach" -> [k |-> "foreach", e |-> Call(n, {Plain(Nil)}), x |-> "i", body |-> s]
    [] w = "trybody" -> [k |-> "try", body |-> s, catches |-> <<[class |-> 1, x |-> "x", body |-> Do(Work(n))]>>]
    [] w = "catchbody" ->
         [k |-> "try", body |-> Do(Work(n)), catches |-> <<[class |-> 1, x |-> "x", body |-> s],
                                                         [class |-> 2, x |-> "x", body |-> Do(Work(n + 1))]>>]
    [] w = "finallybody" -> [k |-> "finally", body |-> s, finalizer |-> Do(Work(n))]
    [] w = "finalizer" -> [k |-> "finally", body |-> Do(Work(n)), finalizer |-> s]
    [] w = "if" -> [k |-> "if", e |-> Cond(n), yes |-> s, no |-> <<Do(Work(n + 1))>>]
    [] w = "switch" -> [k |-> "switch", e |-> Cond(n),
                        arms |-> <<[case |-> <<[k |-> "constant", n |-> True]>>, body |-> <<s>>],
                                   [case |-> <<>>, body |-> <<Do(Work(n + 1))>>]>>]
    [] w = "label" -> [k |-> "label", name |-> "L", body |-> s]
    [] w = "block" -> Block(<<Do(Work(n)), [k |-> "label", name |-> "M", body |-> s], Do(Work(n + 1))>>)
    [] w = "owner" -> [k |-> "owner", body |-> s]

Leaves == {"work", "return", "break", "continue", "breakL", "continueL", "gotoM", "throw", "rethrow"}
Leaf(l) ==
  CASE l = "work" -> Do(Work(1))
    [] l = "return" -> [k |-> "return", e |-> <<Work(1)>>]
    [] l = "break" -> [k |-> "break", name |-> ""]
    [] l = "continue" -> [k |-> "continue", name |-> ""]
    [] l = "breakL" -> [k |-> "break", name |-> "L"]
    [] l = "continueL" -> [k |-> "continue", name |-> "L"]
    [] l = "gotoM" -> Block(<<Do(Work(1)), [k |-> "goto", name |-> "M"]>>)
    [] l = "throw" -> [k |-> "throw", e |-> [k |-> "construct", name |-> 1, class |-> 1, arguments |-> <<>>,
                                             outcomes |-> {Plain(Nil), Thrown(2)}]]
    [] l = "rethrow" -> [k |-> "throw", e |-> Name("x")]

Loops == {"while", "do", "for", "foreach"}
(* What the analysis accepts; path is from the outside in. *)
Valid(path, l) ==
  LET some(S) == \E i \in DOMAIN path : path[i] \in S
      once(w) == \A i, j \in DOMAIN path : path[i] = w /\ path[j] = w => i = j
  IN  /\ once("label") /\ once("block")
      /\ l = "break" => some(Loops \cup {"switch"})
      /\ l = "continue" => some(Loops)
      /\ l = "breakL" => some({"label"})
      /\ l = "continueL" => \E i \in DOMAIN path : i + 1 \in DOMAIN path /\ path[i] = "label" /\ path[i + 1] \in Loops
      /\ l = "gotoM" => some({"block"})
      /\ l = "rethrow" => some({"catchbody"})
      /\ l = "return" /\ ~insideOut => \A i, j \in DOMAIN path :
           i < j /\ path[i] = "foreach" => path[j] \notin {"trybody", "catchbody", "finalizer"}

Nested(path, l) ==
  LET Around[i \in 0..Len(path)] == IF i = 0 THEN Leaf(l) ELSE Wrap(path[Len(path) - i + 1], Around[i - 1], 10 * i)
  IN  Block(<<Around[Len(path)], [k |-> "return", e |-> <<>>]>>)
Paths == UNION {[1..n -> Shapes] : n \in 0..nesting} \cup [1..(nesting + 1) -> Unwinding]
Statements == {Nested(pl[1], pl[2]) : pl \in {pl \in Paths \X Leaves : Valid(pl[1], pl[2])}}

(* An expression around another; e is the operand whose order matters. *)
Atom(n) == Call(n, {Plain(Integer(n)), Plain(True), Plain(Nil)})
Assignments(e) ==
  {[k |-> k, x |-> "y", b |-> e] : k \in {"assign", "add"}}
  \cup {[k |-> "setprop", receiver |-> e, key |-> <<>>, b |-> Atom(21)],
        [k |-> "setprop", receiver |-> Atom(22), key |-> <<Atom(21)>>, b |-> e],
        [k |-> "addprop", receiver |-> Atom(22), key |-> <<e>>, b |-> Atom(21)],
        [k |-> "addprop", receiver |-> Atom(22), key |-> <<>>, b |-> e],
        [k |-> "indexset", receiver |-> Atom(22), key |-> <<Atom(21)>>, b |-> e]}
  \cup {[k |-> "incprop", receiver |-> e, key |-> <<>>, postfix |-> p] : p \in BOOLEAN}
Operators(e) ==
  {[k |-> k, a |-> e, b |-> Atom(23)] : k \in {"and", "or", "ifnil", "pair", "comma"}}
  \cup {[k |-> k, a |-> Atom(23), b |-> e] : k \in {"and", "or", "ifnil", "pair"}}
  \cup {[k |-> "choose", c |-> e, a |-> Atom(23), b |-> Atom(24)],
        [k |-> "choose", c |-> Atom(23), a |-> Name("y"), b |-> e],
        [k |-> "member", a |-> Atom(25), candidates |-> <<Atom(25), e>>, negated |-> FALSE],
        [k |-> "member", a |-> e, candidates |-> <<Atom(25), Atom(26)>>, negated |-> TRUE],
        [k |-> "not", a |-> e], [k |-> "index", receiver |-> Atom(27), key |-> <<e>>]}
Calls(e) ==
  {[k |-> "call", name |-> 31, arguments |-> <<Atom(32), e, Name("y")>>, outcomes |-> {Plain(Nil), Thrown(1)}],
   [k |-> "method", name |-> 33, receiver |-> e, key |-> <<Atom(32)>>, arguments |-> <<Atom(34)>>,
    outcomes |-> {Plain(Nil), Thrown(1)}],
   [k |-> "construct", name |-> 35, class |-> 1, arguments |-> <<e, Atom(32)>>, outcomes |-> {Plain(Nil), Thrown(2)}],
   [k |-> "getprop", receiver |-> Atom(32), key |-> <<e>>],
   [k |-> "lookup", entries |-> <<[key |-> Atom(36), value |-> e], [key |-> Name("y"), value |-> Atom(37)]>>],
   [k |-> "emit", a |-> e]}
Loops2(e) == {[k |-> k, a |-> Atom(41), b |-> e] :
                k \in {"sort", "foreachitem", "valwhich", "indexwhich", "lastwhich", "countwhich"}}
Around(e) == Assignments(e) \cup Operators(e) \cup Calls(e) \cup Loops2(e)
Inner == {Atom(11), Name("y"), [k |-> "assign", x |-> "y", b |-> [k |-> "constant", n |-> Integer(5)]],
          [k |-> "and", a |-> Atom(11), b |-> Atom(12)],
          [k |-> "call", name |-> 13, arguments |-> <<Atom(11)>>, outcomes |-> {Plain(Integer(1)), Thrown(1)}]}
  \cup {[k |-> "increment", x |-> "y", postfix |-> p] : p \in BOOLEAN}
(* y := f(); try { return e; } catch (1 x) { return y; }; a construction is thrown. *)
Trial(e) ==
  Block(<<[k |-> "local", x |-> "y", e |-> <<Atom(3)>>],
          [k |-> "try", body |-> IF e.k = "construct" THEN [k |-> "throw", e |-> e] ELSE [k |-> "return", e |-> <<e>>],
           catches |-> <<[class |-> 1, x |-> "x", body |-> [k |-> "return", e |-> <<Name("y")>>]]>>],
          [k |-> "return", e |-> <<>>]>>)
Expressions == {Trial(e) : e \in UNION {Around(i) : i \in Inner}}
(* local y; then y gets a value inside a statement, perhaps on some ways only; return y. *)
Partial == {Block(<<[k |-> "local", x |-> "y", e |-> <<>>],
                    Wrap(w, Do([k |-> "assign", x |-> "y", b |-> [k |-> "constant", n |-> Integer(5)]]), 10),
                    [k |-> "return", e |-> <<Name("y")>>]>>) : w \in Shapes}
Programs == Statements \cup (IF insideOut THEN {} ELSE Expressions \cup Partial)

Analysed(blocks) == [check_function(blocks) EXCEPT !.accepted = @ /\ verify(blocks)]

VARIABLES
  program,   \* the function
  facts,     \* what the analyses say of its blocks
  m,         \* a call of it
  own, frames, raised, steps, allowed   \* as in Owners

Own == INSTANCE Owners

(* What the programs of the ownership model do, a few things each. *)
OwnerPrograms ==
  {[uses |-> {"publish", "register", "call", "remove", "move member"}, steps |-> 5],
   [uses |-> {"throw", "try", "publish", "register", "call"}, steps |-> 5],
   [uses |-> {"throw", "local", "try", "guarded", "function", "return"}, steps |-> 5],
   [uses |-> {"publish", "reserve", "local", "to field", "call"}, steps |-> 5],
   [uses |-> {"collection", "to field", "to collection", "call", "publish", "register"}, steps |-> 4],
   [uses |-> {"publish", "reserve", "call", "store"}, steps |-> 4],
   [uses |-> {"function", "local", "return", "to field", "to collection"}, steps |-> 4],
   [uses |-> {"field", "move field", "store"}, steps |-> 3],
   [uses |-> {"field", "move field", "collection", "to field"}, steps |-> 3]}

Outcomes ==
  LET i == Instruction(m)
  IN  CASE i.op \in {"Call", "CallMethod"} -> i.x.outcomes \cup {Fault}
        [] i.op = "Length" -> {Plain(Integer(n)) : n \in 0..2}
        [] i.op \in {"AdvanceIteration", "VectorSortNext"} -> {Plain(True), Plain(Nil)}
        [] i.op = "Invoke" -> {Plain(True), Plain(Nil), Thrown(1)}
        [] i.op = "NewLocalLookup" -> {Plain(<<4, 9>>)}
        [] OTHER -> {Plain(Integer(4))}

Idle == Block(<<[k |-> "return", e |-> <<>>]>>)

Init ==
  /\ \/ Own!OwnersAtRest /\ program \in Programs
     \/ Own!OwnersInit /\ program = Idle
  /\ \E blocks \in {lower_with(program)} :
       /\ facts = Analysed(blocks)
       /\ program \notin Statements => facts.accepted
       /\ m = Run(Start(blocks))

Answer ==
  /\ m.status = "running" /\ Len(m.trace) < questions
  /\ \E answer \in Outcomes : m' = Run(Answered(m, answer))
  /\ UNCHANGED <<program, facts, own, frames, raised, steps, allowed>>
Owned == Own!OwnersNext /\ UNCHANGED <<program, facts, m>>
Next == Answer \/ Owned
Spec == Init /\ [][Next]_<<program, facts, m, own, frames, raised, steps, allowed>>

(* Whatever the rest of the program answers, the compiled function asks the *)
(* questions the source asks, in their order, and ends as the source says:  *)
(* lower_with, and what the generated code and the runtime make of its      *)
(* blocks, keep the meaning of loops, break, continue, goto, return,        *)
(* exceptions, finalizers and operands.                                     *)
Agrees == frames = <<>> =>
  LET r == Meaning(program, m.trace)
  IN  IF m.status = "running" THEN r.t = "more" /\ r.ask = Question(m)
      ELSE /\ r.answers = <<>> /\ r.t = m.outcome.t
           /\ m.outcome.t \in {"return", "throw"} => r.v = m.outcome.v

(* A call that has ended keeps no exception it caught or constructed, but *)
(* the one it throws, which nobody owns any more: operations 64, 76, 79,   *)
(* 80 and 81 of the runtime as the handlers and finalizers use them.       *)
Released ==
  m.status = "done" =>
    m.exceptions = IF m.outcome.t = "throw" THEN {[token |-> m.outcome.v[3], scope |-> 0]} ELSE {}

(* Every function that uses its locals rightly is accepted, and what the    *)
(* analyses say of an accepted one is true of every run: code that emission *)
(* leaves out because a value can only be an integer, or a block cannot be  *)
(* reached, is never missed (verify, and the facts of check_function).      *)
FactsHold ==
  /\ facts.accepted
  /\ m.block \in facts.reachable
  /\ \A v \in DOMAIN m.values : KindOf(m.values[v]) \in facts.types[v]

(* Ownership, through every transfer: what lives is kept by exactly one and  *)
(* never released twice; no circle closes, also not through claims that are  *)
(* met later; a claim is honoured or withdrawn, and a member of a collection *)
(* is owned or claimed by its slot (roots, children, owned fields, claims    *)
(* and prospective_cycle of objects.rs).                                     *)
OwnershipHolds == Own!KeptOnce /\ Own!NoCircle /\ Own!ClaimsHold

(* What a constructor or a method runs on is there until it has ended.       *)
LivesWhileRunning == Own!LivesWhileRunning

(* However the functions are left, every scope releases what it held, and    *)
(* when main has been left only the game and an exception that nobody        *)
(* handled remain (operations 64 and 65).                                    *)
LeavesNothing == Own!LeavesNothing
=============================================================================
