------------------------------- MODULE Charges -------------------------------
(***************************************************************************)
(* The stack of a scalar program (zebc/src/stack_charges.rs and            *)
(* stack_guards.rs; still an experiment that no builder uses).             *)
(*                                                                         *)
(* A native entry is called only with the bytes it is charged taken off a  *)
(* budget the host grants.  The charges are found by trial: code is emitted*)
(* with a table of them and checked, compiled, and its frames measured; a  *)
(* charge that was too small is raised and the code emitted anew, until a  *)
(* round changes nothing.  Then the code runs.                             *)
(*                                                                         *)
(* A module is a control-flow graph for each function, with what the check *)
(* looks at: subtractions from the budget, comparisons of it with an amount*)
(* and calls.  Every other instruction and condition has any outcome.      *)
(***************************************************************************)
EXTENDS Integers, Sequences, FiniteSets

CONSTANTS
  Natives,    \* the entries a table has charges for: zfn0, zsp0, ...
  General,    \* those of them every module has: zfn0, ...
  Wrapper,    \* the exported entry, zeb_stack_candidate_...
  Labels,     \* the labels of blocks
  Registers,  \* the names of results
  Modules,    \* what may be emitted, or be taken for it by mistake
  Initial,    \* the tables a refinement may begin with
  Sizes,      \* the sizes of frames a compiler may report
  Floors,     \* what a call of the runtime may need
  Targets,
  Budgets,    \* what a host may grant
  WordSize    \* 2^64

Attempts == 4

Ops == {"sub", "ult", "call", "other"}
Instruction ==
  [to : Registers, op : Ops, amount : Nat, callee : Natives, budget : Registers]
Terminators == {"branch", "jump", "return", "exhausted"}
Ending == [kind : Terminators, condition : Registers, yes : Labels, no : Labels]
Block == [body : Seq(Instruction), end : Ending]

(* A module is the functions it defines, each of which is its blocks, and   *)
(* the charges its records name.                                           *)
WellFormed(module) ==
  /\ DOMAIN module.code \subseteq Natives \cup {Wrapper}
  /\ \A e \in DOMAIN module.code :
       /\ DOMAIN module.code[e] \subseteq Labels
       /\ \A label \in DOMAIN module.code[e] : module.code[e][label] \in Block
  /\ DOMAIN module.charged \subseteq Natives
  /\ \A e \in DOMAIN module.charged : module.charged[e] \in Nat

ASSUME ChargesAssumption ==
  /\ Wrapper \notin Natives /\ General \subseteq Natives /\ "entry" \in Labels
  /\ \A module \in Modules : WellFormed(module)
  /\ Initial \subseteq [Natives -> Nat]
  /\ Sizes \subseteq Nat /\ Floors \subseteq Nat
  /\ WordSize \in Nat \ {0} /\ Budgets \subseteq 0..(WordSize - 1)

VARIABLES
  target, floor,  \* what is compiled for, and what its runtime needs
  table,          \* the charges of the round
  round,
  emitted,        \* its module
  frames,         \* the frames of the object, once a round has changed nothing
  stage,          \* emit, compile, stable, running, ended, refused
  granted,        \* the budget
  calls           \* the functions in progress, the innermost last

chargesVars == <<target, floor, table, round, emitted, frames, stage, granted, calls>>

-----------------------------------------------------------------------------
(* The check of a module. *)

Successors(end) ==
  CASE end.kind = "branch" -> <<end.yes, end.no>>
    [] end.kind = "jump" -> <<end.yes>>
    [] OTHER -> <<>>

(* The edges to a block: the block each comes from, and which of that      *)
(* block's two; the first is taken where the condition holds.              *)
Predecessors(f, label) ==
  {edge \in (DOMAIN f) \X {1, 2} :
     LET ways == Successors(f[edge[1]].end)
     IN edge[2] \in DOMAIN ways /\ ways[edge[2]] = label}

Defines(body, register, op, amount) ==
  \E k \in DOMAIN body : body[k].to = register /\ body[k].op = op /\ body[k].amount = amount

(* Slip: the block may be reached from elsewhere too. *)
GuardedSomewhere(f, label, k, amount) ==
  /\ Defines(SubSeq(f[label].body, 1, k - 1), f[label].body[k].budget, "sub", amount)
  /\ \E from \in DOMAIN f :
       /\ <<from, 2>> \in Predecessors(f, label)
       /\ Defines(f[from].body, f[from].end.condition, "ult", amount)
       /\ f[f[from].end.yes].body = <<>> /\ f[f[from].end.yes].end.kind = "exhausted"

(* The call is given the budget less its charge, and its block is reached   *)
(* only where a comparison has found that much left; where not, the        *)
(* function returns that the stack is exhausted.                           *)
Admitted(f, label, k, amount) ==
  /\ Defines(SubSeq(f[label].body, 1, k - 1), f[label].body[k].budget, "sub", amount)
  /\ \E from \in DOMAIN f :
       /\ Predecessors(f, label) = {<<from, 2>>}
       /\ Defines(f[from].body, f[from].end.condition, "ult", amount)
       /\ f[f[from].end.yes].body = <<>> /\ f[f[from].end.yes].end.kind = "exhausted"

check(f, charges) ==
  /\ \A from \in DOMAIN f :
       \A arm \in DOMAIN Successors(f[from].end) : Successors(f[from].end)[arm] \in DOMAIN f
  /\ "entry" \in DOMAIN f /\ Predecessors(f, "entry") = {}
  /\ \A label \in DOMAIN f : \A k \in DOMAIN f[label].body :
       f[label].body[k].op = "call" => Admitted(f, label, k, charges[f[label].body[k].callee])

(* No two instructions of a function define the same name. *)
SingleAssignment(f) ==
  \A one, two \in DOMAIN f : \A k \in DOMAIN f[one].body, n \in DOMAIN f[two].body :
    f[one].body[k].to = f[two].body[n].to => one = two /\ k = n

verify_emitted_charges(charges, module) ==
  /\ Natives # {} /\ \A e \in Natives : charges[e] > 0
  /\ DOMAIN module.charged = DOMAIN module.code \ {Wrapper}
  /\ \A e \in DOMAIN module.charged : module.charged[e] = charges[e]
  /\ General \subseteq DOMAIN module.charged

verify_guarded_calls(charges, module) ==
  /\ verify_emitted_charges(charges, module)
  /\ \A e \in DOMAIN module.code :
       SingleAssignment(module.code[e]) /\ check(module.code[e], charges)

-----------------------------------------------------------------------------
(* What the emitter writes. *)

Unused == CHOOSE r \in Registers : TRUE
Other(to) == [to |-> to, op |-> "other", amount |-> 0, callee |-> CHOOSE e \in Natives : TRUE,
            budget |-> to]
Branch(condition, yes, no) ==
  [kind |-> "branch", condition |-> condition, yes |-> yes, no |-> no]
Stop(kind) == [kind |-> kind, condition |-> Unused, yes |-> "entry", no |-> "entry"]

(* A guarded call, after a condition of the program's own; a function also  *)
(* looks at the outcome.                                                   *)
guarded_call(callee, charge, looks) ==
  [label \in {"entry", "otherwise", "admit", "exhausted", "invoke"}
               \cup (IF looks THEN {"callerr", "callok"} ELSE {}) |->
     CASE label = "entry" ->
            [body |-> <<Other("version")>>, end |-> Branch("version", "admit", "otherwise")]
       [] label = "admit" ->
            [body |-> <<[Other("small") EXCEPT !.op = "ult", !.amount = charge]>>,
             end |-> Branch("small", "exhausted", "invoke")]
       [] label = "exhausted" -> [body |-> <<>>, end |-> Stop("exhausted")]
       [] label = "invoke" ->
            [body |-> <<[Other("remaining") EXCEPT !.op = "sub", !.amount = charge],
                        [Other("result") EXCEPT !.op = "call", !.callee = callee,
                                              !.budget = "remaining"]>>
                        \o (IF looks THEN <<Other("bad")>> ELSE <<>>),
             end |-> IF looks THEN Branch("bad", "callerr", "callok") ELSE Stop("return")]
       [] OTHER -> [body |-> <<>>, end |-> Stop("return")]]

(* The exported entry: it calls the source's root if the version is right.  *)
stack_entry(root, charge) == guarded_call(root, charge, FALSE)

-----------------------------------------------------------------------------
(* The refinement. *)

valid(charges) == Natives # {} /\ \A e \in Natives : charges[e] > 0 /\ charges[e] % 16 = 0

Supported == {"MacX86_64", "MacArm64"}

(* A frame with its return address, if calls push one, in multiples of 16.  *)
reservation(frame) ==
  LET bytes == frame + (IF target = "MacX86_64" THEN 8 ELSE 0)
      least == IF bytes = 0 THEN 1 ELSE bytes
  IN ((least + 15) \div 16) * 16

Required(frame) == reservation(frame) + floor

refine(charges, measured) ==
  [e \in Natives |-> IF e \in DOMAIN measured /\ Required(measured[e]) > charges[e]
                     THEN Required(measured[e]) ELSE charges[e]]

(* What the compiler itself refuses: a call of what is not defined.         *)
Assembles(code) ==
  /\ Wrapper \in DOMAIN code
  /\ \A e \in DOMAIN code : \A label \in DOMAIN code[e] : \A k \in DOMAIN code[e][label].body :
       code[e][label].body[k].op = "call" => code[e][label].body[k].callee \in DOMAIN code

Nowhere == [code |-> <<>>, charged |-> <<>>]

ChargesInit ==
  /\ target \in Targets /\ floor \in Floors /\ table \in Initial
  /\ round = 0 /\ emitted = Nowhere /\ frames = <<>> /\ stage = "emit"
  /\ granted = 0 /\ calls = <<>>

(* A round emits a module and has it checked. *)
Emits ==
  /\ stage = "emit"
  /\ \E module \in Modules :
       IF valid(table) /\ verify_guarded_calls(table, module) /\ Assembles(module.code)
       THEN emitted' = module /\ stage' = "compile"
       ELSE emitted' = emitted /\ stage' = "refused"
  /\ UNCHANGED <<target, floor, table, round, frames, granted, calls>>

(* It is compiled and its charges are refined, which cannot lower one, so   *)
(* that what refine_bounded refuses of a measurement never comes.  Some     *)
(* functions may be gone, as when they are inlined; the frames of the      *)
(* others are measured.  What the wrapper needs is reported to the host and *)
(* is no part of the budget.                                               *)
Measures ==
  /\ stage = "compile"
  /\ \E left \in SUBSET (DOMAIN emitted.code \ {Wrapper}) : \E measured \in [left -> Sizes] :
       LET next == refine(table, measured)
           wrong == \/ target \notin Supported \/ floor % 16 # 0
                    \/ \E e \in left : Required(measured[e]) >= WordSize
                    \/ ~valid(next)
       IN IF wrong \/ (next # table /\ round = Attempts - 1)
          THEN stage' = "refused" /\ UNCHANGED <<table, round, frames>>
          ELSE IF next # table
          THEN stage' = "emit" /\ table' = next /\ round' = round + 1 /\ UNCHANGED frames
          ELSE stage' = "stable" /\ frames' = measured /\ UNCHANGED <<table, round>>
  /\ UNCHANGED <<target, floor, emitted, granted, calls>>

-----------------------------------------------------------------------------
(* The code runs. *)

(* A function in progress: where it is, the budget it was given, the values *)
(* it has computed, and how deep the native stack is with its frame.        *)
Activation(entry, left, used) ==
  [entry |-> entry, label |-> "entry", next |-> 1, left |-> left,
   values |-> [r \in Registers |-> 0], used |-> used]

Top == calls[Len(calls)]
BlockOf(call) == emitted.code[call.entry][call.label]
Reaches(op) == /\ stage = "running" /\ Top.next \in DOMAIN BlockOf(Top).body
          /\ BlockOf(Top).body[Top.next].op = op
Now == BlockOf(Top).body[Top.next]

Advances(call) == calls' = [calls EXCEPT ![Len(calls)] = call]
Computed(value) == [Top EXCEPT !.next = @ + 1, !.values = [@ EXCEPT ![Now.to] = value]]

Deep(entry) == IF entry \in DOMAIN frames THEN Required(frames[entry]) ELSE 0

Enters ==
  /\ stage = "stable"
  /\ \E budget \in Budgets :
       granted' = budget /\ calls' = <<Activation(Wrapper, budget, 0)>>
  /\ stage' = "running"
  /\ UNCHANGED <<target, floor, table, round, emitted, frames>>

Computes ==
  /\ \/ Reaches("sub") /\ Advances(Computed((Top.left - Now.amount) % WordSize))
     \/ Reaches("ult") /\ Advances(Computed(IF Top.left < Now.amount THEN 1 ELSE 0))
     \/ Reaches("other") /\ \E value \in {0, 1} : Advances(Computed(value))
  /\ UNCHANGED <<target, floor, table, round, emitted, frames, stage, granted>>

(* The caller has its result, whatever that will be, when it goes on. *)
Calls ==
  /\ Reaches("call")
  /\ \E result \in {0, 1} :
       calls' = Append([calls EXCEPT ![Len(calls)] = Computed(result)],
                       Activation(Now.callee, Top.values[Now.budget],
                                  Top.used + Deep(Now.callee)))
  /\ UNCHANGED <<target, floor, table, round, emitted, frames, stage, granted>>

AtEnd == stage = "running" /\ Top.next = Len(BlockOf(Top).body) + 1

GoesOn ==
  /\ AtEnd
  /\ Successors(BlockOf(Top).end) # <<>>
  /\ LET end == BlockOf(Top).end
         arm == IF end.kind = "branch" /\ Top.values[end.condition] = 0 THEN 2 ELSE 1
     IN Advances([Top EXCEPT !.label = Successors(end)[arm], !.next = 1])
  /\ UNCHANGED <<target, floor, table, round, emitted, frames, stage, granted>>

Returns ==
  /\ AtEnd
  /\ Successors(BlockOf(Top).end) = <<>>
  /\ calls' = SubSeq(calls, 1, Len(calls) - 1)
  /\ stage' = IF Len(calls) = 1 THEN "ended" ELSE stage
  /\ UNCHANGED <<target, floor, table, round, emitted, frames, granted>>

ChargesNext == Emits \/ Measures \/ Enters \/ Computes \/ Calls \/ GoesOn \/ Returns

ChargesSpec == ChargesInit /\ [][ChargesNext]_chargesVars

-----------------------------------------------------------------------------
(* Properties. *)

(* The state has its shape. *)
ChargesType ==
  /\ target \in Targets /\ floor \in Floors /\ table \in [Natives -> Nat]
  /\ round \in 0..(Attempts - 1)
  /\ emitted \in Modules \cup {Nowhere}
  /\ DOMAIN frames \subseteq Natives /\ \A e \in DOMAIN frames : frames[e] \in Sizes
  /\ stage \in {"emit", "compile", "stable", "running", "ended", "refused"}
  /\ granted \in 0..(WordSize - 1)
  /\ calls \in Seq([entry : Natives \cup {Wrapper}, label : Labels, next : Nat \ {0}, left : Nat,
                    values : [Registers -> Nat], used : Nat])

(* Whatever was emitted and accepted, and however deep its calls go: the    *)
(* frames of the functions in progress, with what each may need below it    *)
(* for the runtime, are within the budget the host has granted.             *)
StackHolds == \A k \in DOMAIN calls : calls[k].used <= granted

=============================================================================
