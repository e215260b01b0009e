-------------------------------- MODULE Sort --------------------------------
(***************************************************************************)
(* Vector.sort with a comparator written in the game: the resumable        *)
(* quicksort of zeb-runtime/src/sort.rs, operations 112 to 114 that drive  *)
(* it (zeb-runtime/src/native_objects.rs) and the loop generated code runs *)
(* around them (zeb-frontend/src/ir.rs).                                   *)
(*                                                                         *)
(* The runtime never calls the game.  A sort suspends at each comparison,  *)
(* the game's comparator runs, and its answer is handed to the next step.  *)
(* While it runs, the comparator may answer anything, change the vector    *)
(* being sorted, sort that vector or another one, and throw.  The suspended*)
(* sorts are a stack in the runtime; the calls waiting for them are frames *)
(* of the program; the two have to stay in step.                           *)
(*                                                                         *)
(* Positions are zero-based, as in the code; Exchange and Read add the one *)
(* that a vector's indices start at.                                       *)
(***************************************************************************)
EXTENDS Integers, FiniteSets, SequencesExt

CONSTANTS
  Vectors,     \* the vectors of the game
  Keys,        \* their elements: what a comparator looks at, as an integer
  Games,       \* what the vectors may hold at first, each with a bound on the
               \* sorts, changes and scopes of a behaviour that begins so
  MaxLength    \* a bound on the length the game's changes reach

ASSUME SortAssumption ==
  /\ Keys \subseteq Int
  /\ Games \subseteq [vectors : [Vectors -> Seq(Keys)],
                      bounds : [sorts : Nat, changes : Nat, scopes : Nat]]
  /\ MaxLength \in Nat

VARIABLES
  vectors,  \* the elements of each vector
  sorts,    \* the suspended sorts, innermost last
  program,  \* the sort calls and scopes the game is inside of, innermost last
  order,    \* inside a step: the answer it was given, 0 once used
  left      \* how many sorts, changes and scopes the bounds still allow

vars == <<vectors, sorts, program, order, left>>

-----------------------------------------------------------------------------
(* The values of the state. *)

Phases == {"none", "AdvanceI", "CompareI", "AdvanceJ", "CompareJ", "Exchange"}

(* A partition in progress; the phase "none" stands for no partition. *)
Partition == [l : Int, r : Int, i : Int, j : Int, pivot : Int, phase : Phases]

NoPartition == [l |-> 0, r |-> 0, i |-> 0, j |-> 0, pivot |-> 0, phase |-> "none"]

(* `before` and `trust` are for the properties: what the vector held when   *)
(* the sort began, and whether anyone else has touched it since or the     *)
(* comparator answered otherwise than the elements' keys say.              *)
PendingSort ==
  [vector : Vectors, descending : BOOLEAN, ranges : Seq(Int \X Int),
   partition : Partition, pair : Int \X Int,
   before : Seq(Keys), trust : {"consistent", "arbitrary", "changed"}]

(* What a comparator returns: an integer of either sign, zero, or a value   *)
(* that is no integer, as is the nil a sort starts with.                   *)
NotInteger == 2
Outcomes == {-1, 0, 1, NotInteger}

(* A sort call is about to take a step, inside one, about to read the pair  *)
(* the step returned, or waiting for the comparator.  A scope remembers how *)
(* many sorts were pending when it was entered.                            *)
SortFrame ==
  [at : {"next", "resuming", "reading", "comparing"}, vector : Vectors, outcome : Outcomes]
ScopeFrame == [at : {"scope"}, mark : Nat]

Frame == Last(program)
Running == Last(sorts)

(* How many sort calls there are among the first n frames. *)
CallsIn(frames, n) == Cardinality({c \in 1..n : frames[c].at # "scope"})

(* The innermost frame is a sort call at that place. *)
At(where) == program # <<>> /\ Frame.at = where

(* The game's own code runs: at the top, in a scope or in a comparator. *)
InCode == program # <<>> => Frame.at \in {"scope", "comparing"}

awaiting(sort) == sort.partition.phase \in {"CompareI", "CompareJ"}

WithRunning(sort) == [sorts EXCEPT ![Len(sorts)] = sort]
Proceed(where) == program' = [program EXCEPT ![Len(program)].at = where]

(* Whatever others do to a vector, the sorts of it can no longer answer for *)
(* its order.                                                              *)
Touched(ss, v) ==
  [k \in DOMAIN ss |-> IF ss[k].vector = v THEN [ss[k] EXCEPT !.trust = "changed"] ELSE ss[k]]

-----------------------------------------------------------------------------
(* An error or a thrown value leaves every frame up to the innermost scope, *)
(* whose release abandons the sorts begun inside it (operation 65).  What   *)
(* nothing catches leaves the outermost activation, entered with no sort.  *)

(* Slip: the sorts begun inside a scope stay. *)
truncateNothing(ss, mark) == ss

truncate(ss, mark) == SubSeq(ss, 1, IF mark < Len(ss) THEN mark ELSE Len(ss))

Scopes == {k \in DOMAIN program : program[k].at = "scope"}

Unwind(ss) ==
  IF Scopes = {}
  THEN sorts' = truncate(ss, 0) /\ program' = <<>>
  ELSE \E k \in Scopes :
         /\ \A other \in Scopes : other <= k
         /\ sorts' = truncate(ss, program[k].mark)
         /\ program' = SubSeq(program, 1, k - 1)

-----------------------------------------------------------------------------
(* The steps of the quicksort: the arms of the loop in `resume`. *)

Init ==
  /\ \E game \in Games : vectors = game.vectors /\ left = game.bounds
  /\ sorts = <<>>
  /\ program = <<>>
  /\ order = 0

new(len) == IF len = 0 THEN <<>> ELSE << <<0, len - 1>> >>

(* Operation 112: a sort begins. *)
Begin(v, descending) ==
  /\ InCode
  /\ left.sorts > 0
  /\ sorts' = Append(Touched(sorts, v),
                     [vector |-> v, descending |-> descending, ranges |-> new(Len(vectors[v])),
                      partition |-> NoPartition, pair |-> <<0, 0>>,
                      before |-> vectors[v], trust |-> "consistent"])
  /\ program' = Append(program, [at |-> "next", vector |-> v, outcome |-> NotInteger])
  /\ left' = [left EXCEPT !.sorts = @ - 1]
  /\ UNCHANGED <<vectors, order>>

(* The sort on top of the stack is of the vector the step names. *)
Mine == sorts # <<>> /\ Running.vector = Frame.vector

(* Operation 113 with an answer a sort can use, or before any comparison;   *)
(* the call's `outcome` is not read again before it is stored anew.        *)
Resume ==
  /\ At("next")
  /\ Mine
  /\ awaiting(Running) => Frame.outcome # NotInteger
  /\ order' = IF ~awaiting(Running) THEN 0
              ELSE IF Running.descending THEN -Frame.outcome ELSE Frame.outcome
  /\ program' = [program EXCEPT ![Len(program)] =
                   [@ EXCEPT !.at = "resuming", !.outcome = NotInteger]]
  /\ UNCHANGED <<vectors, sorts, left>>

(* Operation 113 with an answer that is no integer gives the sort up. *)
WrongType ==
  /\ At("next")
  /\ Mine
  /\ awaiting(Running)
  /\ Frame.outcome = NotInteger
  /\ Unwind(Front(sorts))
  /\ UNCHANGED <<vectors, order, left>>

InPhase(phase) == At("resuming") /\ Running.partition.phase = phase

TakeRange ==
  /\ InPhase("none")
  /\ Running.ranges # <<>>
  /\ LET l == Last(Running.ranges)[1]
         r == Last(Running.ranges)[2]
     IN sorts' = WithRunning(
          [Running EXCEPT
             !.ranges = Front(@),
             !.partition = IF r > l
                           THEN [l |-> l, r |-> r, i |-> l - 1, j |-> r, pivot |-> r,
                                 phase |-> "AdvanceI"]
                           ELSE NoPartition])
  /\ UNCHANGED <<vectors, program, order, left>>

(* No range is left: the sort is popped and its call returns. *)
Sorted ==
  /\ InPhase("none")
  /\ Running.ranges = <<>>
  /\ sorts' = Front(sorts)
  /\ program' = Front(program)
  /\ UNCHANGED <<vectors, order, left>>

(* Slip: the last element of the range is compared like any other. *)
AdvanceIBeyond ==
  /\ InPhase("AdvanceI")
  /\ LET p == Running.partition
     IN sorts' = WithRunning([Running EXCEPT !.partition.i = p.i + 1,
                                             !.partition.phase = "CompareI",
                                             !.pair = <<p.i + 1, p.pivot>>])
  /\ Proceed("reading")
  /\ UNCHANGED <<vectors, order, left>>

(* The next element from the left: suspend to compare it with the pivot,    *)
(* unless it is the last of the range.                                     *)
AdvanceI ==
  /\ InPhase("AdvanceI")
  /\ LET p == Running.partition
         i == p.i + 1
     IN IF i # p.r
        THEN /\ sorts' = WithRunning([Running EXCEPT !.partition.i = i,
                                                     !.partition.phase = "CompareI",
                                                     !.pair = <<i, p.pivot>>])
             /\ Proceed("reading")
        ELSE /\ sorts' = WithRunning([Running EXCEPT !.partition.i = i,
                                                     !.partition.phase = "AdvanceJ"])
             /\ UNCHANGED program
  /\ UNCHANGED <<vectors, order, left>>

CompareI ==
  /\ InPhase("CompareI")
  /\ sorts' = WithRunning([Running EXCEPT !.partition.phase =
                             IF order < 0 THEN "AdvanceI" ELSE "AdvanceJ"])
  /\ order' = 0
  /\ UNCHANGED <<vectors, program, left>>

(* Slip: the element the last comparison was about is compared again. *)
AdvanceJAtOnce ==
  /\ InPhase("AdvanceJ")
  /\ sorts' = WithRunning([Running EXCEPT !.partition.phase = "CompareJ",
                                          !.pair = <<Running.partition.j, Running.partition.pivot>>])
  /\ Proceed("reading")
  /\ UNCHANGED <<vectors, order, left>>

(* The next element from the right, down to the first of the range. *)
AdvanceJ ==
  /\ InPhase("AdvanceJ")
  /\ LET p == Running.partition
         j == p.j - 1
     IN IF j # p.l
        THEN /\ sorts' = WithRunning([Running EXCEPT !.partition.j = j,
                                                     !.partition.phase = "CompareJ",
                                                     !.pair = <<j, p.pivot>>])
             /\ Proceed("reading")
        ELSE /\ sorts' = WithRunning([Running EXCEPT !.partition.j = j,
                                                     !.partition.phase = "Exchange"])
             /\ UNCHANGED program
  /\ UNCHANGED <<vectors, order, left>>

CompareJ ==
  /\ InPhase("CompareJ")
  /\ sorts' = WithRunning([Running EXCEPT !.partition.phase =
                             IF order > 0 THEN "AdvanceJ" ELSE "Exchange"])
  /\ order' = 0
  /\ UNCHANGED <<vectors, program, left>>

Has(elements, a) == a + 1 \in DOMAIN elements
CanExchange(elements, a, b) == Has(elements, a) /\ Has(elements, b)
Exchanged(elements, a, b) ==
  [elements EXCEPT ![b + 1] = elements[a + 1], ![a + 1] = elements[b + 1]]

(* Where the pivot is once the elements at i and j have changed places. *)
PivotAfter(p) == IF p.pivot = p.i THEN p.j ELSE IF p.pivot = p.j THEN p.i ELSE p.pivot

(* i and j have not met: exchange what they stopped at and go on. *)
Exchange ==
  /\ InPhase("Exchange")
  /\ LET p == Running.partition
         v == Running.vector
     IN /\ p.j > p.i
        /\ CanExchange(vectors[v], p.i, p.j)
        /\ vectors' = [vectors EXCEPT ![v] = Exchanged(@, p.i, p.j)]
        /\ sorts' = WithRunning([Running EXCEPT !.partition.pivot = PivotAfter(p),
                                                !.partition.phase = "AdvanceI"])
  /\ UNCHANGED <<program, order, left>>

(* Slip: a range of nothing is left on the right. *)
HalvesTouching(ranges, p) ==
  LET more == IF p.i <= p.r THEN Append(ranges, <<p.i + 1, p.r>>) ELSE ranges
  IN IF p.i > p.l THEN Append(more, <<p.l, p.i - 1>>) ELSE more

(* What is left to sort on either side of the pivot, the left side on top. *)
Halves(ranges, p) ==
  LET more == IF p.i < p.r THEN Append(ranges, <<p.i + 1, p.r>>) ELSE ranges
  IN IF p.i > p.l THEN Append(more, <<p.l, p.i - 1>>) ELSE more

(* Slip: the last exchange is not taken back. *)
SplitCrossed ==
  /\ InPhase("Exchange")
  /\ LET p == Running.partition
         v == Running.vector
     IN /\ p.j <= p.i
        /\ CanExchange(vectors[v], p.i, p.j)
        /\ CanExchange(vectors[v], p.i, p.r)
        /\ vectors' = [vectors EXCEPT ![v] = Exchanged(Exchanged(@, p.i, p.j), p.i, p.r)]
        /\ sorts' = WithRunning([Running EXCEPT !.ranges = Halves(@, p),
                                                !.partition = NoPartition])
  /\ UNCHANGED <<program, order, left>>

(* They have met: take the last exchange back and put the pivot between.   *)
Split ==
  /\ InPhase("Exchange")
  /\ LET p == Running.partition
         v == Running.vector
     IN /\ p.j <= p.i
        /\ CanExchange(vectors[v], p.i, p.j)
        /\ CanExchange(vectors[v], p.i, p.r)
        /\ vectors' = [vectors EXCEPT ![v] =
                         Exchanged(Exchanged(Exchanged(@, p.i, p.j), p.i, p.j), p.i, p.r)]
        /\ sorts' = WithRunning([Running EXCEPT !.ranges = Halves(@, p),
                                                !.partition = NoPartition])
  /\ UNCHANGED <<program, order, left>>

(* The comparator has made the vector shorter than the range: the sort is   *)
(* popped and fails, with the elements as they were.                       *)
OutOfRange ==
  /\ InPhase("Exchange")
  /\ LET p == Running.partition
         elements == vectors[Running.vector]
     IN \/ ~CanExchange(elements, p.i, p.j)
        \/ p.j <= p.i /\ ~CanExchange(elements, p.i, p.r)
  /\ Unwind(Front(sorts))
  /\ UNCHANGED <<vectors, order, left>>

-----------------------------------------------------------------------------
(* The game. *)

(* Operation 114, for both elements of the pair; then the comparator runs.  *)
Read ==
  /\ At("reading")
  /\ Mine
  /\ Has(vectors[Frame.vector], Running.pair[1])
  /\ Has(vectors[Frame.vector], Running.pair[2])
  /\ Proceed("comparing")
  /\ UNCHANGED <<vectors, sorts, order, left>>

(* An element of the pair is gone.  The operation fails and leaves the sort *)
(* on the stack: only the scope's release takes it off.                    *)
Unreadable ==
  /\ At("reading")
  /\ Mine
  /\ ~ \A which \in 1..2 : Has(vectors[Frame.vector], Running.pair[which])
  /\ Unwind(sorts)
  /\ UNCHANGED <<vectors, order, left>>

(* What the keys of the pair say. *)
ByKeys(sort) ==
  LET first == vectors[sort.vector][sort.pair[1] + 1]
      second == vectors[sort.vector][sort.pair[2] + 1]
  IN IF first < second THEN -1 ELSE IF first > second THEN 1 ELSE 0

(* The comparator returns. *)
Answer(outcome) ==
  /\ At("comparing")
  /\ program' = [program EXCEPT ![Len(program)] =
                   [@ EXCEPT !.at = "next", !.outcome = outcome]]
  /\ sorts' = IF Running.trust = "consistent" /\ outcome # ByKeys(Running)
              THEN WithRunning([Running EXCEPT !.trust = "arbitrary"])
              ELSE sorts
  /\ UNCHANGED <<vectors, order, left>>

(* The game changes a vector that is being sorted: it sets an element,      *)
(* appends one or removes a range (operations 69 to 72; a shorter length is *)
(* a range removed).  A change at any other time only makes another content*)
(* to begin with.                                                          *)
Changes(elements) ==
  {[elements EXCEPT ![n] = key] : n \in DOMAIN elements, key \in Keys}
    \cup (IF Len(elements) < MaxLength THEN {Append(elements, key) : key \in Keys} ELSE {})
    \cup UNION {{SubSeq(elements, 1, m - 1) \o SubSeq(elements, n + 1, Len(elements)) :
                   m \in 1..n} : n \in DOMAIN elements}

Change(v) ==
  /\ InCode
  /\ left.changes > 0
  /\ \E s \in DOMAIN sorts : sorts[s].vector = v
  /\ \E elements \in Changes(vectors[v]) : vectors' = [vectors EXCEPT ![v] = elements]
  /\ sorts' = Touched(sorts, v)
  /\ left' = [left EXCEPT !.changes = @ - 1]
  /\ UNCHANGED <<program, order>>

(* Operations 63 and 64: a scope, left without an error. *)
Enter ==
  /\ InCode
  /\ left.scopes > 0
  /\ program' = Append(program, [at |-> "scope", mark |-> Len(sorts)])
  /\ left' = [left EXCEPT !.scopes = @ - 1]
  /\ UNCHANGED <<vectors, sorts, order>>

Leave ==
  /\ At("scope")
  /\ Frame.mark <= Len(sorts)
  /\ sorts' = truncate(sorts, Frame.mark)
  /\ program' = Front(program)
  /\ UNCHANGED <<vectors, order, left>>

Throw ==
  /\ InCode
  /\ program # <<>>
  /\ Unwind(sorts)
  /\ UNCHANGED <<vectors, order, left>>

Next ==
  \/ \E v \in Vectors, descending \in BOOLEAN : Begin(v, descending)
  \/ Resume \/ WrongType
  \/ TakeRange \/ Sorted
  \/ AdvanceI \/ CompareI \/ AdvanceJ \/ CompareJ
  \/ Exchange \/ Split \/ OutOfRange
  \/ Read \/ Unreadable
  \/ \E outcome \in Outcomes : Answer(outcome)
  \/ \E v \in Vectors : Change(v)
  \/ Enter \/ Leave \/ Throw

(* One thread runs all of it, and keeps running. *)
Spec == Init /\ [][Next]_vars /\ WF_vars(Next)

-----------------------------------------------------------------------------
(* Properties. *)

(* The state has the shape the runtime and the generated loop give it. *)
TypeOK ==
  /\ vectors \in [Vectors -> Seq(Keys)]
  /\ sorts \in Seq(PendingSort)
  /\ program \in Seq(SortFrame \cup ScopeFrame)
  /\ order \in -1..1
  /\ left \in [sorts : Nat, changes : Nat, scopes : Nat]

(* "Pending ranges are disjoint and non-empty, so `len` entries always      *)
(* suffice": whatever the comparator answers or does, the ranges of a sort  *)
(* lie in what the vector was when it began, each to the left of those     *)
(* below it on the stack, so that the left one is always finished first,   *)
(* and the partition in progress is to the left of all of them.            *)
RangesFit ==
  \A s \in DOMAIN sorts :
    LET ranges == sorts[s].ranges
        p == sorts[s].partition
        len == Len(sorts[s].before)
    IN /\ \A k \in DOMAIN ranges :
            /\ 0 <= ranges[k][1] /\ ranges[k][1] <= ranges[k][2] /\ ranges[k][2] < len
            /\ \A below \in 1..(k - 1) : ranges[k][2] < ranges[below][1]
            /\ p.phase # "none" => p.r < ranges[k][1]
       /\ Len(ranges) <= len

(* Whatever the comparator answers, as long as nobody else changes the      *)
(* vector, a sort compares and exchanges only elements the vector has: it  *)
(* cannot fail.                                                            *)
StaysInside ==
  \A s \in DOMAIN sorts :
    LET elements == vectors[sorts[s].vector]
        p == sorts[s].partition
    IN sorts[s].trust # "changed" =>
         /\ awaiting(sorts[s]) => /\ Has(elements, sorts[s].pair[1])
                                  /\ Has(elements, sorts[s].pair[2])
         /\ p.phase = "Exchange" => /\ Has(elements, p.i)
                                    /\ Has(elements, p.j)
                                    /\ Has(elements, p.r)

(* Both: a sort can only fail when its vector was changed under it.         *)
NeverFails == RangesFit /\ StaysInside

(* The runtime's stack of sorts and the program's sort calls stay in step,  *)
(* through nested sorts, errors that leave a sort behind and comparators    *)
(* that throw: no call ever steps a sort that is another call's, and no    *)
(* scope finds fewer sorts than when it was entered.                       *)
Matched ==
  /\ Len(sorts) = CallsIn(program, Len(program))
  /\ \A k \in DOMAIN program :
       IF program[k].at = "scope"
       THEN program[k].mark = CallsIn(program, k)
       ELSE sorts[CallsIn(program, k)].vector = program[k].vector

Count(elements, key) == Cardinality({n \in DOMAIN elements : elements[n] = key})

(* A sort that nobody else disturbed returns with the elements it was given,*)
(* whatever the comparator said; and if the comparator kept to the order of *)
(* the keys, in that order, or in the opposite one when so asked.          *)
SortedWhenDone ==
  InPhase("none") /\ Running.ranges = <<>> =>
    LET elements == vectors[Running.vector]
    IN /\ Running.trust # "changed" =>
            \A key \in Keys : Count(elements, key) = Count(Running.before, key)
       /\ Running.trust = "consistent" =>
            \A n \in DOMAIN elements : \A m \in 1..n :
              IF Running.descending THEN elements[m] >= elements[n]
                                    ELSE elements[m] <= elements[n]

(* Every sort comes to an end, whatever its comparator answers or does to   *)
(* the vector, as long as the game's own code is not endless.              *)
SortsEnd == (sorts # <<>>) ~> (sorts = <<>>)

=============================================================================
