------------------------------ MODULE Analyses ------------------------------
(***************************************************************************)
(* What the compiler concludes from the blocks of a function before it     *)
(* trusts them: the structure zeb-frontend/src/ir_verify.rs checks, and    *)
(* the facts zeb-frontend/src/flow.rs derives, on which emission leaves    *)
(* out checks and reads of locals.                                         *)
(***************************************************************************)
EXTENDS Machine, FiniteSets
LOCAL INSTANCE SequencesExt

RECURSIVE Round(_, _, _), Fixed(_, _)

(* The kinds of values the model tells apart; a set of them is a type. *)
INTEGER == {"integer"}
LOGICAL == {"nil", "true"}
OBJECT == {"object"}
UNKNOWN == INTEGER \cup LOGICAL \cup OBJECT \cup {"other"}
KindOf(v) ==
  CASE v = Nil -> "nil"
    [] v = True -> "true"
    [] v[1] = 2 -> "integer"
    [] v[1] \in {3, 4} -> "object"
    [] OTHER -> "other"

(* ---- ir_verify.rs: dominators and uses ---- *)

RECURSIVE Reaching(_, _, _)
Reaching(edges, without, seen) ==
  LET next == UNION {edges[i] : i \in seen} \ {without}
  IN  IF next \subseteq seen THEN seen ELSE Reaching(edges, without, seen \cup next)
(* The reachable blocks each block dominates: those no way leads to without it. *)
dominators(blocks) ==
  LET edges == [b \in DOMAIN blocks |-> Edges(blocks[b].term)]
      all == Reaching(edges, 0, {1})
  IN  [d \in DOMAIN blocks |-> IF d = 1 THEN all ELSE all \ Reaching(edges, d, {1})]
Unreachable(blocks) == DOMAIN blocks \ dominators(blocks)[1]

Definitions(blocks) ==
  UNION {{<<blocks[b].code[n].result, b, n>> : n \in DOMAIN blocks[b].code} : b \in DOMAIN blocks}

EndUses(term) ==
  CASE term.t \in {"throw", "return"} -> {term.v} [] term.t = "branch" -> {term.condition} [] OTHER -> {}

(* Every value has one definition, which comes before each use: in the same *)
(* block, or in one that dominates it when it is reachable at all; and a     *)
(* logical branch comes with its guard.                                      *)
verify(blocks) ==
  LET dominated == dominators(blocks)
      unreachable == Unreachable(blocks)
      definitions == {d \in Definitions(blocks) : d[1] # 0}
      Defined == [v \in {d[1] : d \in definitions} |-> CHOOSE d \in definitions : d[1] = v]
      Usable(v, b, n) ==
        /\ v \in DOMAIN Defined
        /\ IF Defined[v][2] = b THEN Defined[v][3] < n ELSE b \in unreachable \cup dominated[Defined[v][2]]
  IN  /\ Cardinality(definitions) = Cardinality(DOMAIN Defined)
      /\ \A b \in DOMAIN blocks :
           LET code == blocks[b].code
               term == blocks[b].term
           IN  /\ Edges(term) \subseteq DOMAIN blocks
               /\ \A n \in DOMAIN code : \A k \in DOMAIN code[n].arguments : Usable(code[n].arguments[k], b, n)
               /\ \A v \in EndUses(term) : Usable(v, b, Len(code) + 1)
               /\ (term.t = "branch" /\ term.mode = "logical") =>
                    \E n \in DOMAIN code : code[n].op = "LogicalGuard" /\ code[n].arguments = <<term.condition>>

(* ---- flow.rs: which locals are initialized, and what a value may be ---- *)

Empty == [initialized |-> FALSE, types |-> {}]
Stored(types) == [initialized |-> TRUE, types |-> types]
(* Slip: a local initialized on one way in counts as initialized. *)
MergeEither(a, b) == [initialized |-> a.initialized \/ b.initialized, types |-> a.types \cup b.types]
merge(a, b) == [initialized |-> a.initialized /\ b.initialized, types |-> a.types \cup b.types]

(* What an operation leaves.  A call can leave anything: only the specialisation of functions to    *)
(* integers, which is not modelled, analyses a program with callees that it knows to give integers. *)
ResultType(i, slots) ==
  CASE i.op = "Constant" -> {KindOf(i.x)}
    [] i.op = "Load" -> IF slots[i.x].initialized THEN slots[i.x].types ELSE UNKNOWN
    [] i.op \in {"NamedObject", "BeginConstruction", "FinishException", "NewLocalLookup"} -> OBJECT
    [] i.op \in {"Equal", "Not", "AtMost", "OfKind", "AdvanceIteration", "VectorSortNext"} -> LOGICAL
    [] i.op = "Add" -> INTEGER \cup {"other"}
    [] i.op \in {"Subtract", "BeginScope", "Length"} -> INTEGER
    [] i.op \in {"EndScope", "UnwindScope", "RestorePending", "BeginIteration", "EndIteration"} -> {"nil"}
    [] OTHER -> UNKNOWN

(* transfer: through a block from its n-th instruction, as long as every     *)
(* operand has a type.                                                       *)
RECURSIVE transfer(_, _, _)
transfer(code, n, r) ==
  LET i == code[n]
  IN  IF n > Len(code) THEN r
      ELSE IF \E k \in DOMAIN i.arguments : r.values[i.arguments[k]] = {} THEN [r EXCEPT !.ready = FALSE]
      ELSE transfer(code, n + 1,
             CASE i.op = "Reset" -> [r EXCEPT !.slots[i.x] = Empty]
               [] i.op = "Store" -> [r EXCEPT !.slots[i.x] = Stored(r.values[i.arguments[1]])]
               [] i.result = 0 -> r
               [] OTHER -> [r EXCEPT !.values[i.result] = @ \cup ResultType(i, r.slots)])
Through(code, slots, values) == transfer(code, 1, [ready |-> TRUE, slots |-> slots, values |-> values])

(* targets: a branch whose condition can be one thing only goes one way. *)
targets(term, values) ==
  IF term.t # "branch" THEN Edges(term)
  ELSE LET types == values[term.condition]
           yes == IF term.mode = "logical" THEN {"true"} ELSE {"nil"}
           no_only == IF term.mode = "logical" THEN types = {"nil"} ELSE "nil" \notin types
       IN  IF types = {} THEN {}
           ELSE (IF no_only THEN {} ELSE {term.yes}) \cup (IF types = yes THEN {} ELSE {term.no})

(* An exception edge puts the exception in a local of the handler. *)
Entered(term, target, slots) ==
  IF term.t \in {"invoke", "throw", "resume"} /\ term.edge.target = target
  THEN [slots EXCEPT ![term.edge.slot] = Stored(OBJECT)] ELSE slots

SlotsOf(blocks) ==
  UNION {LET code == blocks[b].code IN {code[n].x : n \in {n \in DOMAIN code : code[n].op \in {"Load", "Store", "Reset"}}} :
         b \in DOMAIN blocks}
  \cup {blocks[b].term.edge.slot : b \in {b \in DOMAIN blocks : blocks[b].term.t \in {"invoke", "throw", "resume"}}}
ValuesOf(blocks) ==
  UNION {LET code == blocks[b].code IN {code[n].result : n \in DOMAIN code} : b \in DOMAIN blocks} \ {0}

(* The loop of check_function: round after round over the blocks until nothing changes. *)
Flow(blocks, f, b) ==
  LET r == Through(blocks[b].code, f.incoming[b], f.values)
      to == IF r.ready THEN targets(blocks[b].term, r.values) ELSE {}
      In(t) == LET s == Entered(blocks[b].term, t, r.slots)
               IN  IF t \notin f.reached THEN s ELSE [x \in DOMAIN s |-> merge(f.incoming[t][x], s[x])]
  IN  IF b \notin f.reached THEN f
      ELSE [values |-> r.values, reached |-> f.reached \cup to,
            incoming |-> [t \in DOMAIN blocks |-> IF t \in to THEN In(t) ELSE f.incoming[t]]]
Round(blocks, f, b) == IF b > Len(blocks) THEN f ELSE Round(blocks, Flow(blocks, f, b), b + 1)
Fixed(blocks, f) == LET next == Round(blocks, f, 1) IN IF next = f THEN f ELSE Fixed(blocks, next)

(* check_function: the facts, and whether the function is accepted: no local *)
(* is read before it is initialized, every operand can have the type its     *)
(* operation needs, and no reachable block falls off the end.                *)
Needs(i) ==
  CASE i.op \in {"Not", "LogicalGuard"} -> LOGICAL
    [] i.op = "Subtract" -> INTEGER
    [] i.op = "CallMethod" -> OBJECT
    [] OTHER -> UNKNOWN
Accepted(blocks, facts, b) ==
  LET code == blocks[b].code
      Before(n) == Through(SubSeq(code, 1, n - 1), facts.incoming[b], facts.values).slots
  IN  /\ blocks[b].term.t # "fallthrough"
      /\ \A n \in DOMAIN code :
           /\ code[n].op = "Load" => Before(n)[code[n].x].initialized
           /\ code[n].arguments # <<>> => Needs(code[n]) \cap facts.values[code[n].arguments[1]] # {}
check_function(blocks) ==
  LET nothing == [s \in SlotsOf(blocks) |-> Empty]
      facts == Fixed(blocks, [values |-> [v \in ValuesOf(blocks) |-> {}],
                              reached |-> {1}, incoming |-> [b \in DOMAIN blocks |-> nothing]])
  IN  [types |-> facts.values, reachable |-> facts.reached,
       accepted |-> \A b \in facts.reached : Accepted(blocks, facts, b)]
=============================================================================
