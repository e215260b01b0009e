------------------------------ MODULE SortProofs ------------------------------
(***************************************************************************)
(* Proofs about Sort: for vectors of any length, any number of nested sorts *)
(* and any comparator, the ranges of a sort fit the stack reserved for them,*)
(* an undisturbed sort stays inside its vector, and the stack of sorts and  *)
(* the calls waiting for them stay in step.                                *)
(***************************************************************************)
EXTENDS Sort, SequenceTheorems, FiniteSetTheorems, FunctionTheorems, TLAPS

(***************************************************************************)
(* The inductive invariant.  The k-th range from the bottom of the stack   *)
(* ends k places or more before the end of the vector, and a partition     *)
(* before all of them: this is why their number is bounded.  A partition's  *)
(* positions depend on the phase; its pivot is where it began, at r.       *)
(***************************************************************************)
Stacked(ranges, length) ==
  \A k \in 1..Len(ranges) :
    /\ 0 <= ranges[k][1]
    /\ ranges[k][1] <= ranges[k][2]
    /\ ranges[k][2] <= length - k
    /\ \A below \in 1..(k - 1) : ranges[k][2] < ranges[below][1]

PartitionFits(s) ==
  LET p == s.partition
  IN /\ 0 <= p.l /\ p.l < p.r
     /\ p.r <= Len(s.before) - Len(s.ranges) - 1
     /\ \A k \in 1..Len(s.ranges) : p.r < s.ranges[k][1]
     /\ p.pivot = p.r

PositionsOK(s) ==
  LET p == s.partition
  IN /\ p.phase = "AdvanceI" => p.l - 1 <= p.i /\ p.i < p.r /\ p.l < p.j /\ p.j <= p.r
     /\ p.phase = "CompareI" => /\ p.l <= p.i /\ p.i < p.r /\ p.l < p.j /\ p.j <= p.r
                                /\ s.pair = <<p.i, p.r>>
     /\ p.phase = "AdvanceJ" => p.l <= p.i /\ p.i <= p.r /\ p.l < p.j /\ p.j <= p.r
     /\ p.phase = "CompareJ" => /\ p.l <= p.i /\ p.i <= p.r /\ p.l < p.j /\ p.j < p.r
                                /\ s.pair = <<p.j, p.r>>
     /\ p.phase = "Exchange" => p.l <= p.i /\ p.i <= p.r /\ p.l <= p.j /\ p.j < p.r

(* A sort of a vector that now has that length. *)
SortOK(s, length) ==
  /\ Stacked(s.ranges, Len(s.before))
  /\ s.partition.phase # "none" => PartitionFits(s) /\ PositionsOK(s)
  /\ s.trust # "changed" => length = Len(s.before)

SortsOK == \A k \in 1..Len(sorts) : SortOK(sorts[k], Len(vectors[sorts[k].vector]))

(* Only the innermost frame is at work, and inside a step it has a sort. *)
ProgramOK ==
  /\ \A k \in 1..(Len(program) - 1) : program[k].at \in {"scope", "comparing"}
  /\ At("resuming") \/ At("reading") => sorts # <<>>

IInv == TypeOK /\ ProgramOK /\ SortsOK

(***************************************************************************)
(* The stacks                                                              *)
(***************************************************************************)
LEMMA TopOf ==
  ASSUME NEW S, NEW s \in Seq(S), s # <<>>
  PROVE  /\ Len(s) \in Nat \ {0}
         /\ Last(s) = s[Len(s)]
         /\ Last(s) \in S
         /\ Front(s) \in Seq(S)
         /\ Len(Front(s)) = Len(s) - 1
         /\ \A k \in 1..(Len(s) - 1) : Front(s)[k] = s[k]
<1>1. Len(s) \in Nat \ {0}
  BY EmptySeq
<1>2. \A k \in 1..(Len(s) - 1) : s[k] \in S
  BY <1>1
<1>3. /\ SubSeq(s, 1, Len(s) - 1) \in Seq(S)
      /\ Len(SubSeq(s, 1, Len(s) - 1)) = IF 1 <= Len(s) - 1 THEN Len(s) - 1 - 1 + 1 ELSE 0
      /\ \A k \in 1..(Len(s) - 1 - 1 + 1) : SubSeq(s, 1, Len(s) - 1)[k] = s[1 + k - 1]
  BY <1>1, <1>2, SubSeqProperties
<1>4. Last(s) = s[Len(s)] /\ Last(s) \in S
  BY <1>1 DEF Last
<1>5. Len(SubSeq(s, 1, Len(s) - 1)) = Len(s) - 1
  <2>1. ASSUME NEW n \in Nat \ {0}
        PROVE  (IF 1 <= n - 1 THEN n - 1 - 1 + 1 ELSE 0) = n - 1
    <3>1. CASE n = 1
      BY <3>1
    <3>2. CASE n > 1
      BY <3>2
    <3> QED BY <3>1, <3>2
  <2> QED BY ONLY <1>1, <1>3, <2>1
<1>6. \A k \in 1..(Len(s) - 1) : SubSeq(s, 1, Len(s) - 1)[k] = s[k]
  BY <1>1, <1>3
<1> QED BY <1>1, <1>3, <1>4, <1>5, <1>6 DEF Front

LEMMA Prefix ==
  ASSUME NEW S, NEW s \in Seq(S), NEW m \in 0..Len(s)
  PROVE  /\ SubSeq(s, 1, m) \in Seq(S)
         /\ Len(SubSeq(s, 1, m)) = m
         /\ \A k \in 1..m : SubSeq(s, 1, m)[k] = s[k]
<1>1. m \in Int /\ \A k \in 1..m : s[k] \in S
  OBVIOUS
<1>2. /\ SubSeq(s, 1, m) \in Seq(S)
      /\ Len(SubSeq(s, 1, m)) = IF 1 <= m THEN m - 1 + 1 ELSE 0
      /\ \A k \in 1..(m - 1 + 1) : SubSeq(s, 1, m)[k] = s[1 + k - 1]
  BY <1>1, SubSeqProperties
<1> QED BY <1>1, <1>2

(* What a scope's release leaves of a stack is its beginning. *)
LEMMA Truncated ==
  ASSUME NEW S, NEW s \in Seq(S), NEW mark \in Nat
  PROVE  \E m \in 0..Len(s) : truncate(s, mark) = SubSeq(s, 1, m)
BY DEF truncate

(* Sorts and frames above a point are gone; those below are as they were.  *)
LEMMA SortsCut ==
  ASSUME TypeOK, SortsOK, NEW m \in 0..Len(sorts), sorts' = SubSeq(sorts, 1, m), UNCHANGED vectors
  PROVE  sorts' \in Seq(PendingSort) /\ SortsOK'
<1>1. sorts \in Seq(PendingSort)
  BY DEF TypeOK
<1>2. /\ sorts' \in Seq(PendingSort)
      /\ Len(sorts') = m
      /\ \A k \in 1..m : sorts'[k] = sorts[k]
  BY <1>1, Prefix
<1> QED BY <1>1, <1>2 DEF SortsOK

(* The sort on top is replaced, and no vector changes its length. *)
LEMMA TopReplaced ==
  ASSUME TypeOK, SortsOK, sorts # <<>>,
         NEW s \in PendingSort, SortOK(s, Len(vectors[s.vector])),
         sorts' = WithRunning(s),
         \A v \in Vectors : Len(vectors'[v]) = Len(vectors[v])
  PROVE  sorts' \in Seq(PendingSort) /\ sorts' # <<>> /\ SortsOK'
<1>1. sorts \in Seq(PendingSort)
  BY DEF TypeOK
<1>2. Len(sorts) \in 1..Len(sorts)
  BY <1>1, TopOf
<1>3. /\ sorts' \in Seq(PendingSort)
      /\ Len(sorts') = Len(sorts)
      /\ \A k \in 1..Len(sorts) : sorts'[k] = IF k = Len(sorts) THEN s ELSE sorts[k]
  BY <1>1, <1>2, ExceptSeq DEF WithRunning
<1>4. sorts' # <<>>
  BY <1>2, <1>3
<1>5. ASSUME NEW k \in 1..Len(sorts')
      PROVE  SortOK(sorts'[k], Len(vectors'[sorts'[k].vector]))
  <2>1. CASE k = Len(sorts)
    <3>1. s.vector \in Vectors
      BY DEF PendingSort
    <3> QED BY <1>3, <2>1, <3>1
  <2>2. CASE k # Len(sorts)
    <3>1. sorts[k] \in PendingSort /\ sorts'[k] = sorts[k] /\ k \in 1..Len(sorts)
      BY <1>1, <1>3, <2>2
    <3>2. sorts[k].vector \in Vectors
      BY <3>1 DEF PendingSort
    <3>3. SortOK(sorts[k], Len(vectors[sorts[k].vector]))
      BY <3>1 DEF SortsOK
    <3> QED BY <3>1, <3>2, <3>3
  <2> QED BY <2>1, <2>2
<1> QED BY <1>3, <1>4, <1>5 DEF SortsOK

LEMMA TopSort ==
  ASSUME TypeOK, SortsOK, sorts # <<>>
  PROVE  /\ Running \in PendingSort
         /\ SortOK(Running, Len(vectors[Running.vector]))
<1>1. sorts \in Seq(PendingSort)
  BY DEF TypeOK
<1>2. Len(sorts) \in 1..Len(sorts) /\ Running = sorts[Len(sorts)] /\ Running \in PendingSort
  BY <1>1, TopOf DEF Running
<1> QED BY <1>2 DEF SortsOK

(* The innermost frame moves on. *)
LEMMA Moved ==
  ASSUME TypeOK, ProgramOK, program # <<>>, NEW f \in SortFrame \cup ScopeFrame,
         program' = [program EXCEPT ![Len(program)] = f],
         f.at \in {"resuming", "reading"} => sorts' # <<>>
  PROVE  program' \in Seq(SortFrame \cup ScopeFrame) /\ ProgramOK'
<1>1. program \in Seq(SortFrame \cup ScopeFrame)
  BY DEF TypeOK
<1>2. Len(program) \in 1..Len(program)
  BY <1>1, TopOf
<1>3. /\ program' \in Seq(SortFrame \cup ScopeFrame)
      /\ Len(program') = Len(program)
      /\ \A k \in 1..Len(program) : program'[k] = IF k = Len(program) THEN f ELSE program[k]
  BY <1>1, <1>2, ExceptSeq
<1>4. program' # <<>> /\ Last(program') = f
  BY <1>2, <1>3 DEF Last
<1>5. ASSUME NEW k \in 1..(Len(program') - 1)
      PROVE  program'[k].at \in {"scope", "comparing"}
  <2>1. k \in 1..Len(program) /\ k # Len(program) /\ k \in 1..(Len(program) - 1)
    <3>1. Len(program) \in Nat /\ Len(program') = Len(program)
      BY ONLY <1>1, <1>3
    <3> QED BY ONLY <3>1, k \in 1..(Len(program') - 1)
  <2> QED BY <1>3, <2>1 DEF ProgramOK
<1> QED BY <1>3, <1>4, <1>5 DEF ProgramOK, At, Frame

(* The innermost frames are left. *)
LEMMA FramesCut ==
  ASSUME TypeOK, ProgramOK, NEW m \in Nat, m < Len(program) \/ m = 0,
         program' = SubSeq(program, 1, m)
  PROVE  program' \in Seq(SortFrame \cup ScopeFrame) /\ ProgramOK'
<1>1. program \in Seq(SortFrame \cup ScopeFrame) /\ m \in 0..Len(program)
  BY DEF TypeOK
<1>2. /\ program' \in Seq(SortFrame \cup ScopeFrame)
      /\ Len(program') = m
      /\ \A k \in 1..m : program'[k] = program[k]
  BY <1>1, Prefix
<1>3. \A k \in 1..m : program'[k].at \in {"scope", "comparing"}
  BY <1>1, <1>2 DEF ProgramOK
<1>4. ASSUME program' # <<>> PROVE Last(program').at \in {"scope", "comparing"}
  <2>1. Len(program') \in Nat \ {0} /\ Last(program') = program'[Len(program')]
    BY ONLY <1>2, <1>4, TopOf
  <2>2. m \in 1..m /\ Last(program') = program'[m]
    BY ONLY <1>2, <2>1
  <2> QED BY ONLY <1>3, <2>2
<1> QED BY <1>2, <1>3, <1>4 DEF ProgramOK, At, Frame

(* A sort call or a scope is entered from the game's code. *)
LEMMA FrameEntered ==
  ASSUME TypeOK, ProgramOK, InCode, NEW f \in SortFrame \cup ScopeFrame,
         program' = Append(program, f), f.at \in {"next", "scope"}
  PROVE  program' \in Seq(SortFrame \cup ScopeFrame) /\ ProgramOK'
<1>1. program \in Seq(SortFrame \cup ScopeFrame)
  BY DEF TypeOK
<1>2. /\ program' \in Seq(SortFrame \cup ScopeFrame)
      /\ Len(program') = Len(program) + 1
      /\ \A k \in 1..Len(program) : program'[k] = program[k]
      /\ program'[Len(program) + 1] = f
  BY <1>1, AppendProperties
<1>3. Len(program) \in Nat /\ Last(program') = f
  BY <1>1, <1>2 DEF Last
<1>4. ASSUME NEW k \in 1..Len(program)
      PROVE  program[k].at \in {"scope", "comparing"}
  <2>1. CASE k = Len(program)
    <3>1. program # <<>>
      BY <1>1, <2>1
    <3>2. Last(program) = program[Len(program)]
      BY ONLY <1>1, <3>1, TopOf
    <3> QED BY <2>1, <3>1, <3>2 DEF InCode, Frame
  <2>2. CASE k # Len(program)
    BY <1>3, <2>2 DEF ProgramOK
  <2> QED BY <2>1, <2>2
<1> QED BY <1>2, <1>3, <1>4 DEF ProgramOK, At, Frame

(* An error: the stacks are cut. *)
LEMMA UnwindKeeps ==
  ASSUME IInv, NEW ss, \E n \in 0..Len(sorts) : ss = SubSeq(sorts, 1, n),
         Unwind(ss), UNCHANGED <<vectors, order, left>>
  PROVE  IInv'
<1> USE DEF IInv
<1>1. sorts \in Seq(PendingSort) /\ program \in Seq(SortFrame \cup ScopeFrame)
  BY DEF TypeOK
<1>2. PICK n \in 0..Len(sorts) : ss = SubSeq(sorts, 1, n)
  OBVIOUS
<1>3. ss \in Seq(PendingSort) /\ Len(ss) = n /\ \A k \in 1..n : ss[k] = sorts[k]
  BY <1>1, <1>2, Prefix
<1>4. ASSUME NEW mark \in Nat, sorts' = truncate(ss, mark)
      PROVE  sorts' \in Seq(PendingSort) /\ SortsOK'
  <2>1. PICK m \in 0..Len(ss) : sorts' = SubSeq(ss, 1, m)
    BY <1>3, <1>4, Truncated
  <2>2. /\ sorts' \in Seq(PendingSort)
        /\ Len(sorts') = m
        /\ \A k \in 1..m : sorts'[k] = ss[k]
    BY <1>3, <2>1, Prefix
  <2>3. m \in 0..Len(sorts) /\ \A k \in 1..m : sorts'[k] = sorts[k]
    BY <1>1, <1>2, <1>3, <2>2
  <2> QED BY <2>2, <2>3 DEF SortsOK
<1>5. /\ sorts' \in Seq(PendingSort) /\ SortsOK'
      /\ program' \in Seq(SortFrame \cup ScopeFrame) /\ ProgramOK'
  <2>1. CASE Scopes = {}
    <3>1. sorts' = truncate(ss, 0) /\ program' = <<>>
      BY <2>1 DEF Unwind
    <3>2. program' = SubSeq(program, 1, 0)
      BY <3>1
    <3> QED BY <1>4, <3>1, <3>2, FramesCut
  <2>2. CASE Scopes # {}
    <3>1. PICK k \in Scopes : /\ sorts' = truncate(ss, program[k].mark)
                              /\ program' = SubSeq(program, 1, k - 1)
      BY <2>2 DEF Unwind
    <3>2. k \in 1..Len(program) /\ program[k].at = "scope"
      BY <1>1, <3>1 DEF Scopes
    <3>3. program[k].mark \in Nat
      BY <1>1, <3>2 DEF SortFrame, ScopeFrame
    <3>4. k - 1 \in Nat /\ k - 1 < Len(program)
      BY <1>1, <3>2
    <3> QED BY <1>4, <3>1, <3>3, <3>4, FramesCut
  <2> QED BY <2>1, <2>2
<1> QED BY <1>5 DEF TypeOK

(***************************************************************************)
(* One sort                                                                *)
(***************************************************************************)

(* A sort with other positions, or with its top range taken off. *)
WithPositions(s, i, j, phase, pair) ==
  [s EXCEPT !.partition = [s.partition EXCEPT !.i = i, !.j = j, !.phase = phase], !.pair = pair]
WithPartition(s, p) == [s EXCEPT !.ranges = Front(s.ranges), !.partition = p]

(* The positions of a partition change, its bounds and the ranges do not.  *)
LEMMA PositionsMoved ==
  ASSUME NEW s \in PendingSort, NEW n, SortOK(s, n), s.partition.phase # "none",
         NEW i \in Int, NEW j \in Int, NEW phase \in Phases, NEW pair \in Int \X Int, NEW t,
         t = WithPositions(s, i, j, phase, pair), PositionsOK(t)
  PROVE  /\ t \in PendingSort
         /\ t.vector = s.vector
         /\ SortOK(t, n)
<1>1. [s.partition EXCEPT !.i = i, !.j = j, !.phase = phase] \in Partition
  BY DEF PendingSort, Partition
<1>2. /\ t \in PendingSort
      /\ t.vector = s.vector /\ t.ranges = s.ranges /\ t.before = s.before /\ t.trust = s.trust
      /\ t.partition = [s.partition EXCEPT !.i = i, !.j = j, !.phase = phase]
  BY <1>1 DEF PendingSort, WithPositions
<1>3. /\ t.partition.l = s.partition.l /\ t.partition.r = s.partition.r
      /\ t.partition.pivot = s.partition.pivot
  BY <1>2 DEF PendingSort, Partition
<1>4. Stacked(t.ranges, Len(t.before))
  BY <1>2 DEF SortOK
<1>5. PartitionFits(t)
  BY <1>2, <1>3 DEF PartitionFits, SortOK
<1> QED BY <1>2, <1>4, <1>5 DEF SortOK

(* A range is pushed on the stack, to the left of all of it. *)
LEMMA RangePushed ==
  ASSUME NEW ranges \in Seq(Int \X Int), NEW length \in Nat, Stacked(ranges, length),
         NEW a \in Int, NEW b \in Int, 0 <= a, a <= b, b <= length - Len(ranges) - 1,
         \A k \in 1..Len(ranges) : b < ranges[k][1],
         NEW more, more = Append(ranges, <<a, b>>)
  PROVE  /\ more \in Seq(Int \X Int)
         /\ Len(more) = Len(ranges) + 1
         /\ \A k \in 1..Len(ranges) : more[k] = ranges[k]
         /\ more[Len(ranges) + 1] = <<a, b>>
         /\ Stacked(more, length)
<1>1. /\ more \in Seq(Int \X Int)
      /\ Len(more) = Len(ranges) + 1
      /\ \A k \in 1..Len(ranges) : more[k] = ranges[k]
      /\ more[Len(ranges) + 1] = <<a, b>>
  BY AppendProperties, <<a, b>> \in Int \X Int
<1>2. Len(ranges) \in Nat
  OBVIOUS
<1>3. ASSUME NEW k \in 1..Len(more)
      PROVE  /\ 0 <= more[k][1]
             /\ more[k][1] <= more[k][2]
             /\ more[k][2] <= length - k
             /\ \A below \in 1..(k - 1) : more[k][2] < more[below][1]
  <2>1. CASE k = Len(ranges) + 1
    <3>1. more[k] = <<a, b>>
      BY ONLY <1>1, <2>1
    <3>5. ASSUME NEW below \in 1..(k - 1) PROVE more[below] = ranges[below]
      <4>1. below \in 1..Len(ranges)
        BY ONLY <1>2, <2>1, below \in 1..(k - 1)
      <4> QED BY ONLY <1>1, <4>1
    <3>2. more[k][1] = a /\ more[k][2] = b
      BY ONLY <3>1
    <3>3. \A below \in 1..(k - 1) : b < ranges[below][1]
      BY ONLY <1>2, <2>1, \A n \in 1..Len(ranges) : b < ranges[n][1]
    <3>4. b <= length - k
      BY <1>2, <2>1
    <3> QED BY <3>1, <3>2, <3>3, <3>4, <3>5
  <2>2. CASE k # Len(ranges) + 1
    <3>1. k \in 1..Len(ranges)
      BY ONLY <1>1, <1>2, <2>2, k \in 1..Len(more)
    <3>2. more[k] = ranges[k]
      BY ONLY <1>1, <3>1
    <3>3. ASSUME NEW below \in 1..(k - 1) PROVE more[below] = ranges[below]
      <4>1. below \in 1..Len(ranges)
        BY ONLY <1>2, <3>1, below \in 1..(k - 1)
      <4> QED BY ONLY <1>1, <4>1
    <3> QED BY <3>1, <3>2, <3>3 DEF Stacked
  <2> QED BY <2>1, <2>2
<1> QED BY <1>1, <1>3 DEF Stacked

(* The top range is taken off. *)
LEMMA RangePopped ==
  ASSUME NEW ranges \in Seq(Int \X Int), NEW length \in Nat, Stacked(ranges, length),
         ranges # <<>>
  PROVE  /\ Front(ranges) \in Seq(Int \X Int)
         /\ Len(Front(ranges)) = Len(ranges) - 1
         /\ Stacked(Front(ranges), length)
         /\ 0 <= Last(ranges)[1]
         /\ Last(ranges)[2] <= length - Len(ranges)
         /\ \A k \in 1..Len(Front(ranges)) : Last(ranges)[2] < Front(ranges)[k][1]
<1>1. /\ Len(ranges) \in Nat \ {0}
      /\ Last(ranges) = ranges[Len(ranges)]
      /\ Front(ranges) \in Seq(Int \X Int)
      /\ Len(Front(ranges)) = Len(ranges) - 1
      /\ \A k \in 1..(Len(ranges) - 1) : Front(ranges)[k] = ranges[k]
  BY ONLY ranges \in Seq(Int \X Int), ranges # <<>>, TopOf
<1>2. ASSUME NEW k \in 1..Len(Front(ranges))
      PROVE  /\ k \in 1..Len(ranges)
             /\ Front(ranges)[k] = ranges[k]
             /\ \A below \in 1..(k - 1) : Front(ranges)[below] = ranges[below]
  <2>1. k \in 1..Len(ranges) /\ k \in 1..(Len(ranges) - 1)
    BY ONLY <1>1, k \in 1..Len(Front(ranges))
  <2>2. ASSUME NEW below \in 1..(k - 1) PROVE Front(ranges)[below] = ranges[below]
    <3>1. below \in 1..(Len(ranges) - 1)
      BY ONLY <1>1, <2>1, below \in 1..(k - 1)
    <3> QED BY ONLY <1>1, <3>1
  <2> QED BY ONLY <1>1, <2>1, <2>2
<1>3. Stacked(Front(ranges), length)
  BY <1>2 DEF Stacked
<1>4. Len(ranges) \in 1..Len(ranges)
  BY ONLY <1>1
<1>5. /\ 0 <= ranges[Len(ranges)][1]
      /\ ranges[Len(ranges)][2] <= length - Len(ranges)
      /\ \A below \in 1..(Len(ranges) - 1) : ranges[Len(ranges)][2] < ranges[below][1]
  BY <1>4 DEF Stacked
<1> QED BY <1>1, <1>2, <1>3, <1>5

(* The top range is taken off the stack, to be partitioned or dropped.     *)
LEMMA RangeTaken ==
  ASSUME NEW s \in PendingSort, NEW n, SortOK(s, n), s.ranges # <<>>,
         NEW p \in Partition, NEW t,
         t = WithPartition(s, p),
         \/ p.phase = "none"
         \/ /\ p.phase = "AdvanceI"
            /\ p.l = Last(s.ranges)[1] /\ p.r = Last(s.ranges)[2] /\ p.l < p.r
            /\ p.i = p.l - 1 /\ p.j = p.r /\ p.pivot = p.r
  PROVE  /\ t \in PendingSort
         /\ t.vector = s.vector
         /\ SortOK(t, n)
<1> DEFINE rs == s.ranges
           rest == Front(s.ranges)
           length == Len(s.before)
<1>1. rs \in Seq(Int \X Int) /\ length \in Nat /\ Stacked(rs, length)
  BY DEF PendingSort, SortOK
<1>2. /\ rest \in Seq(Int \X Int)
      /\ Len(rest) = Len(rs) - 1
      /\ Stacked(rest, length)
      /\ 0 <= Last(rs)[1]
      /\ Last(rs)[2] <= length - Len(rs)
      /\ \A k \in 1..Len(rest) : Last(rs)[2] < rest[k][1]
  BY ONLY <1>1, s.ranges # <<>>, RangePopped
<1>3. /\ t \in PendingSort
      /\ t.vector = s.vector /\ t.ranges = rest /\ t.before = s.before
      /\ t.trust = s.trust /\ t.partition = p
  BY <1>2 DEF PendingSort, WithPartition
<1>4. ASSUME p.phase # "none" PROVE PartitionFits(t) /\ PositionsOK(t)
  <2> HIDE DEF rs, rest, length
  <2>1. /\ p.phase = "AdvanceI"
        /\ p.l = Last(rs)[1] /\ p.r = Last(rs)[2] /\ p.l < p.r
        /\ p.i = p.l - 1 /\ p.j = p.r /\ p.pivot = p.r
    BY <1>4 DEF rs
  <2>2. p.l \in Int /\ p.r \in Int /\ Len(rs) \in Nat
    BY <1>1 DEF Partition
  <2>3. /\ 0 <= p.l /\ p.r <= length - Len(rest) - 1
        /\ \A k \in 1..Len(rest) : p.r < rest[k][1]
    <3>1. 0 <= p.l /\ p.r <= length - Len(rs)
      BY ONLY <1>2, <2>1
    <3>2. p.r <= length - Len(rest) - 1
      BY ONLY <1>1, <1>2, <2>2, <3>1
    <3>3. \A k \in 1..Len(rest) : p.r < rest[k][1]
      BY ONLY <1>2, <2>1
    <3> QED BY ONLY <3>1, <3>2, <3>3
  <2>4. PartitionFits(t)
    BY <1>3, <2>1, <2>3 DEF PartitionFits, rest, length
  <2>5. p.l - 1 <= p.i /\ p.i < p.r /\ p.l < p.j /\ p.j <= p.r
    BY ONLY <2>1, <2>2
  <2>6. PositionsOK(t)
    BY <1>3, <2>1, <2>5 DEF PositionsOK
  <2> QED BY <2>4, <2>6
<1> QED BY <1>2, <1>3, <1>4 DEF SortOK

(* What is left on either side of the pivot goes on the stack.             *)
LEMMA RangesSplit ==
  ASSUME NEW s \in PendingSort, NEW n, SortOK(s, n), s.partition.phase = "Exchange", NEW t,
         t = [s EXCEPT !.ranges = Halves(s.ranges, s.partition), !.partition = NoPartition]
  PROVE  /\ t \in PendingSort
         /\ t.vector = s.vector
         /\ SortOK(t, n)
<1> DEFINE p == s.partition
           rs == s.ranges
           length == Len(s.before)
           more == IF p.i < p.r THEN Append(rs, <<p.i + 1, p.r>>) ELSE rs
           all == IF p.i > p.l THEN Append(more, <<p.l, p.i - 1>>) ELSE more
<1>1. /\ rs \in Seq(Int \X Int) /\ Len(rs) \in Nat /\ length \in Nat
      /\ p.l \in Int /\ p.r \in Int /\ p.i \in Int
      /\ Stacked(rs, length)
  BY DEF PendingSort, Partition, SortOK
<1>2. /\ 0 <= p.l /\ p.l < p.r /\ p.r <= length - Len(rs) - 1
      /\ \A k \in 1..Len(rs) : p.r < rs[k][1]
      /\ p.l <= p.i /\ p.i <= p.r
  BY DEF SortOK, PartitionFits, PositionsOK
<1> HIDE DEF p, rs, length
<1>3. /\ more \in Seq(Int \X Int) /\ Len(more) \in Nat
      /\ Stacked(more, length)
      /\ p.i > p.l => /\ p.i - 1 <= length - Len(more) - 1
                      /\ \A k \in 1..Len(more) : p.i - 1 < more[k][1]
  <2>1. CASE p.i < p.r
    <3>1. more = Append(rs, <<p.i + 1, p.r>>)
      BY <2>1
    <3>2. p.i + 1 \in Int /\ 0 <= p.i + 1 /\ p.i + 1 <= p.r
      BY <1>1, <1>2, <2>1
    <3> HIDE DEF more
    <3>3. /\ more \in Seq(Int \X Int)
          /\ Len(more) = Len(rs) + 1
          /\ \A k \in 1..Len(rs) : more[k] = rs[k]
          /\ more[Len(rs) + 1] = <<p.i + 1, p.r>>
          /\ Stacked(more, length)
      <4>1. p.r <= length - Len(rs) - 1 /\ \A k \in 1..Len(rs) : p.r < rs[k][1]
        BY ONLY <1>2
      <4>2. rs \in Seq(Int \X Int) /\ length \in Nat /\ p.r \in Int /\ Stacked(rs, length)
        BY ONLY <1>1
      <4> DEFINE a == p.i + 1
                 b == p.r
      <4>3. a \in Int /\ b \in Int /\ 0 <= a /\ a <= b /\ more = Append(rs, <<a, b>>)
        BY ONLY <3>1, <3>2, <4>2
      <4>4. b <= length - Len(rs) - 1 /\ \A k \in 1..Len(rs) : b < rs[k][1]
        BY ONLY <4>1
      <4> HIDE DEF a, b
      <4>5. Stacked(more, length)
        BY ONLY <4>2, <4>3, <4>4, RangePushed
      <4>6. <<a, b>> \in Int \X Int
        BY ONLY <4>3
      <4>7. /\ more \in Seq(Int \X Int)
            /\ Len(more) = Len(rs) + 1
            /\ \A k \in 1..Len(rs) : more[k] = rs[k]
            /\ more[Len(rs) + 1] = <<a, b>>
        BY ONLY <4>2, <4>3, <4>6, AppendProperties
      <4> QED BY ONLY <4>5, <4>7 DEF a, b
    <3>4. ASSUME NEW k \in 1..Len(more) PROVE p.i - 1 < more[k][1]
      <4>1. CASE k = Len(rs) + 1
        BY ONLY <1>1, <3>3, <4>1
      <4>2. CASE k # Len(rs) + 1
        <5>1. k \in 1..Len(rs)
          BY ONLY <1>1, <3>3, <4>2, k \in 1..Len(more)
        <5>2. p.r < rs[k][1] /\ more[k] = rs[k] /\ rs[k][1] \in Int
          <6>1. p.r < rs[k][1]
            BY ONLY <1>2, <5>1
          <6>2. more[k] = rs[k]
            BY ONLY <3>3, <5>1
          <6>3. rs[k] \in Int \X Int
            BY ONLY <1>1, <5>1
          <6> QED BY ONLY <6>1, <6>2, <6>3
        <5>3. p.i \in Int /\ p.r \in Int /\ p.i <= p.r
          BY ONLY <1>1, <1>2
        <5> QED BY ONLY <5>2, <5>3
      <4> QED BY <4>1, <4>2
    <3>5. p.i - 1 <= length - Len(more) - 1
      BY ONLY <1>1, <1>2, <2>1, <3>3
    <3> QED BY <1>1, <3>3, <3>4, <3>5
  <2>2. CASE ~(p.i < p.r)
    <3>1. more = rs
      BY <2>2
    <3> HIDE DEF more
    <3>2. ASSUME NEW k \in 1..Len(rs) PROVE p.i - 1 < rs[k][1]
      <4>1. rs[k] \in Int \X Int
        BY ONLY <1>1, k \in 1..Len(rs)
      <4>2. p.r < rs[k][1]
        BY ONLY <1>2, k \in 1..Len(rs)
      <4> QED BY ONLY <1>1, <1>2, <4>1, <4>2
    <3>3. p.i - 1 <= length - Len(rs) - 1
      BY ONLY <1>1, <1>2
    <3> QED BY ONLY <1>1, <3>1, <3>2, <3>3
  <2> QED BY <2>1, <2>2
<1> HIDE DEF more
<1>4. all \in Seq(Int \X Int) /\ Stacked(all, length)
  <2>1. CASE p.i > p.l
    <3>1. all = Append(more, <<p.l, p.i - 1>>)
      BY <2>1
    <3>2. p.i - 1 \in Int /\ 0 <= p.l /\ p.l <= p.i - 1
      BY <1>1, <1>2, <2>1
    <3>3. /\ p.i - 1 <= length - Len(more) - 1
          /\ \A k \in 1..Len(more) : p.i - 1 < more[k][1]
      BY <1>3, <2>1
    <3> HIDE DEF all
    <3> QED BY ONLY <1>1, <1>3, <3>1, <3>2, <3>3, RangePushed
  <2>2. CASE ~(p.i > p.l)
    BY <1>3, <2>2
  <2> QED BY <2>1, <2>2
<1>5. Halves(s.ranges, s.partition) = all
  BY DEF Halves, more, p, rs
<1> HIDE DEF all
<1>6. NoPartition \in Partition
  BY DEF NoPartition, Partition, Phases
<1>7. /\ t \in PendingSort
      /\ t.vector = s.vector /\ t.before = s.before /\ t.trust = s.trust
      /\ t.ranges = all /\ t.partition = NoPartition
  BY <1>4, <1>5, <1>6 DEF PendingSort
<1>8. Stacked(t.ranges, Len(t.before))
  BY <1>4, <1>7 DEF length
<1> QED BY <1>7, <1>8 DEF SortOK, NoPartition

(***************************************************************************)
(* The steps                                                               *)
(***************************************************************************)
LEMMA TopFrame ==
  ASSUME TypeOK, program # <<>>
  PROVE  /\ Frame = program[Len(program)]
         /\ Frame \in SortFrame \cup ScopeFrame
         /\ Frame.at # "scope" => Frame \in SortFrame
<1>1. program \in Seq(SortFrame \cup ScopeFrame)
  BY DEF TypeOK
<1>2. Last(program) = program[Len(program)] /\ Last(program) \in SortFrame \cup ScopeFrame
  BY ONLY <1>1, program # <<>>, TopOf
<1> QED BY <1>2 DEF Frame, ScopeFrame

LEMMA Proceeds ==
  ASSUME TypeOK, ProgramOK, program # <<>>, Frame.at # "scope",
         NEW where \in {"next", "resuming", "reading", "comparing"}, Proceed(where),
         sorts' # <<>>
  PROVE  program' \in Seq(SortFrame \cup ScopeFrame) /\ ProgramOK'
<1> DEFINE f == [program[Len(program)] EXCEPT !.at = where]
<1>1. f \in SortFrame \cup ScopeFrame
  BY TopFrame DEF SortFrame
<1>2. program' = [program EXCEPT ![Len(program)] = f]
  BY DEF Proceed
<1> HIDE DEF f
<1> QED BY <1>1, <1>2, Moved

LEMMA Stays ==
  ASSUME TypeOK, ProgramOK, UNCHANGED program, sorts' # <<>>
  PROVE  program' \in Seq(SortFrame \cup ScopeFrame) /\ ProgramOK'
BY DEF TypeOK, ProgramOK, At, Frame

LEMMA ExchangedKeeps ==
  ASSUME NEW elements \in Seq(Keys), NEW a, NEW b, CanExchange(elements, a, b)
  PROVE  /\ Exchanged(elements, a, b) \in Seq(Keys)
         /\ Len(Exchanged(elements, a, b)) = Len(elements)
<1>1. /\ a + 1 \in 1..Len(elements) /\ b + 1 \in 1..Len(elements)
      /\ elements[a + 1] \in Keys /\ elements[b + 1] \in Keys
  BY DEF CanExchange, Has
<1> DEFINE once == [elements EXCEPT ![b + 1] = elements[a + 1]]
<1>2. once \in Seq(Keys) /\ Len(once) = Len(elements)
  BY <1>1, ExceptSeq
<1>3. Exchanged(elements, a, b) = [once EXCEPT ![a + 1] = elements[b + 1]]
  BY DEF Exchanged
<1> HIDE DEF once
<1> QED BY <1>1, <1>2, <1>3, ExceptSeq

(* A step of the quicksort that leaves the vectors alone. *)
LEMMA SortMoves ==
  ASSUME IInv, sorts # <<>>, NEW t \in PendingSort, t.vector = Running.vector,
         SortOK(t, Len(vectors[Running.vector])), sorts' = WithRunning(t),
         UNCHANGED program \/ (program' \in Seq(SortFrame \cup ScopeFrame) /\ ProgramOK'),
         order' \in -1..1, UNCHANGED <<vectors, left>>
  PROVE  IInv'
<1>1. sorts' \in Seq(PendingSort) /\ sorts' # <<>> /\ SortsOK'
  BY TopReplaced DEF IInv
<1>2. program' \in Seq(SortFrame \cup ScopeFrame) /\ ProgramOK'
  BY <1>1, Stays DEF IInv
<1> QED BY <1>1, <1>2 DEF IInv, TypeOK

(* Inside a step there is a sort, and it is as the invariant says.         *)
LEMMA InsideStep ==
  ASSUME IInv, NEW phase, InPhase(phase)
  PROVE  /\ sorts # <<>> /\ program # <<>> /\ Frame.at = "resuming"
         /\ Running \in PendingSort
         /\ Running.partition.phase = phase
         /\ SortOK(Running, Len(vectors[Running.vector]))
         /\ vectors[Running.vector] \in Seq(Keys)
<1>1. sorts # <<>> /\ program # <<>> /\ Frame.at = "resuming"
  BY DEF IInv, ProgramOK, InPhase, At
<1>2. Running \in PendingSort /\ SortOK(Running, Len(vectors[Running.vector]))
  BY <1>1, TopSort DEF IInv
<1> QED BY <1>1, <1>2 DEF InPhase, IInv, TypeOK, PendingSort

LEMMA TakeRangeKeeps == ASSUME IInv, TakeRange PROVE IInv'
<1> DEFINE l == Last(Running.ranges)[1]
           r == Last(Running.ranges)[2]
           p == IF r > l THEN [l |-> l, r |-> r, i |-> l - 1, j |-> r, pivot |-> r,
                               phase |-> "AdvanceI"]
                ELSE NoPartition
           t == WithPartition(Running, p)
<1>1. /\ sorts # <<>> /\ Running \in PendingSort
      /\ SortOK(Running, Len(vectors[Running.vector]))
      /\ Running.ranges # <<>>
  BY InsideStep DEF TakeRange
<1>2. l \in Int /\ r \in Int
  <2>1. Running.ranges \in Seq(Int \X Int)
    BY <1>1 DEF PendingSort
  <2>2. Last(Running.ranges) \in Int \X Int
    BY ONLY <1>1, <2>1, TopOf
  <2> QED BY <2>2
<1>3. sorts' = WithRunning(t) /\ UNCHANGED <<vectors, program, order, left>>
  BY DEF TakeRange, WithPartition
<1>4. /\ p \in Partition
      /\ \/ p.phase = "none"
         \/ /\ p.phase = "AdvanceI"
            /\ p.l = l /\ p.r = r /\ p.l < p.r
            /\ p.i = p.l - 1 /\ p.j = p.r /\ p.pivot = p.r
  <2>1. CASE r > l
    BY <1>2, <2>1 DEF Partition, Phases
  <2>2. CASE ~(r > l)
    BY <2>2 DEF Partition, Phases, NoPartition
  <2> QED BY <2>1, <2>2
<1>5. /\ t \in PendingSort /\ t.vector = Running.vector
      /\ SortOK(t, Len(vectors[Running.vector]))
  <2>1. p \in Partition /\ t = WithPartition(Running, p)
    BY <1>4
  <2>2. \/ p.phase = "none"
        \/ /\ p.phase = "AdvanceI"
           /\ p.l = Last(Running.ranges)[1] /\ p.r = Last(Running.ranges)[2] /\ p.l < p.r
           /\ p.i = p.l - 1 /\ p.j = p.r /\ p.pivot = p.r
    BY <1>4
  <2> HIDE DEF p, t
  <2> QED BY ONLY <1>1, <2>1, <2>2, RangeTaken
<1> HIDE DEF t
<1> QED BY <1>1, <1>3, <1>5, SortMoves DEF IInv, TypeOK

LEMMA SortedKeeps == ASSUME IInv, Sorted PROVE IInv'
<1>1. sorts # <<>> /\ program # <<>>
  BY InsideStep DEF Sorted
<1>2. /\ sorts \in Seq(PendingSort) /\ program \in Seq(SortFrame \cup ScopeFrame)
      /\ TypeOK /\ ProgramOK /\ SortsOK
  BY DEF IInv, TypeOK
<1>3. Len(sorts) \in Nat \ {0} /\ Len(program) \in Nat \ {0}
  BY <1>1, <1>2, EmptySeq
<1>4. sorts' = SubSeq(sorts, 1, Len(sorts) - 1) /\ program' = SubSeq(program, 1, Len(program) - 1)
  BY DEF Sorted, Front
<1>5. /\ Len(sorts) - 1 \in 0..Len(sorts)
      /\ Len(program) - 1 \in Nat /\ Len(program) - 1 < Len(program)
  BY ONLY <1>3
<1>6. UNCHANGED <<vectors, order, left>>
  BY DEF Sorted
<1>7. sorts' \in Seq(PendingSort) /\ SortsOK'
  BY <1>2, <1>4, <1>5, <1>6, SortsCut
<1>8. program' \in Seq(SortFrame \cup ScopeFrame) /\ ProgramOK'
  BY <1>2, <1>4, <1>5, FramesCut
<1> QED BY <1>2, <1>6, <1>7, <1>8 DEF IInv, TypeOK

(* The arms that move i or j: what is common to them. *)
LEMMA PositionMoves ==
  ASSUME IInv, NEW from, InPhase(from), from # "none",
         NEW i \in Int, NEW j \in Int, NEW phase \in Phases, NEW pair \in Int \X Int, NEW t,
         t = WithPositions(Running, i, j, phase, pair), PositionsOK(t), sorts' = WithRunning(t),
         Proceed("reading") \/ UNCHANGED program,
         order' \in -1..1, UNCHANGED <<vectors, left>>
  PROVE  IInv'
<1>1. /\ sorts # <<>> /\ program # <<>> /\ Frame.at = "resuming"
      /\ Running \in PendingSort /\ Running.partition.phase = from
      /\ SortOK(Running, Len(vectors[Running.vector]))
  BY InsideStep
<1>2. /\ t \in PendingSort /\ t.vector = Running.vector
      /\ SortOK(t, Len(vectors[Running.vector]))
  <2>1. /\ t = WithPositions(Running, i, j, phase, pair)
        /\ PositionsOK(t) /\ Running.partition.phase # "none"
        /\ i \in Int /\ j \in Int /\ phase \in Phases /\ pair \in Int \X Int
    BY <1>1
  <2> QED BY ONLY <1>1, <2>1, PositionsMoved
<1>3. sorts' # <<>>
  BY <1>1, <1>2, TopReplaced DEF IInv
<1>4. program' \in Seq(SortFrame \cup ScopeFrame) /\ ProgramOK'
  BY <1>1, <1>3, Proceeds, Stays DEF IInv
<1> QED BY <1>1, <1>2, <1>4, SortMoves

LEMMA AdvanceIKeeps == ASSUME IInv, AdvanceI PROVE IInv'
<1> DEFINE p == Running.partition
           i == p.i + 1
<1>1. /\ Running \in PendingSort /\ p.phase = "AdvanceI" /\ p \in Partition
      /\ SortOK(Running, Len(vectors[Running.vector]))
  BY InsideStep DEF AdvanceI, PendingSort
<1>2. /\ i \in Int /\ p.j \in Int /\ p.r \in Int /\ p.pivot \in Int
      /\ p.pivot = p.r /\ p.l - 1 <= p.i /\ p.i < p.r /\ p.l < p.j /\ p.j <= p.r
      /\ Running.pair \in Int \X Int
  BY <1>1 DEF Partition, PendingSort, SortOK, PartitionFits, PositionsOK
<1>3. order' \in -1..1 /\ UNCHANGED <<vectors, left>> /\ InPhase("AdvanceI")
  BY DEF AdvanceI, IInv, TypeOK
<1>4. CASE i # p.r
  <2> DEFINE t == WithPositions(Running, i, p.j, "CompareI", <<i, p.pivot>>)
  <2>1. sorts' = WithRunning(t) /\ Proceed("reading")
    <3>1. t = [Running EXCEPT !.partition.i = i, !.partition.phase = "CompareI",
                              !.pair = <<i, p.pivot>>]
      BY <1>1 DEF WithPositions, PendingSort, Partition
    <3> QED BY <1>4, <3>1 DEF AdvanceI
  <2>2. PositionsOK(t)
    <3>1. /\ t.partition.i = i /\ t.partition.j = p.j /\ t.partition.l = p.l
          /\ t.partition.r = p.r /\ t.partition.phase = "CompareI" /\ t.pair = <<i, p.r>>
      BY <1>1, <1>2 DEF WithPositions, PendingSort, Partition
    <3>2. p.l <= i /\ i < p.r
      BY <1>1, <1>2, <1>4 DEF Partition
    <3> QED BY <1>2, <3>1, <3>2 DEF PositionsOK
  <2>3. <<i, p.pivot>> \in Int \X Int /\ "CompareI" \in Phases
    BY <1>2 DEF Phases
  <2> HIDE DEF t, i
  <2>4. t = WithPositions(Running, i, p.j, "CompareI", <<i, p.pivot>>)
    BY DEF t
  <2> QED BY <1>2, <1>3, <2>1, <2>2, <2>3, <2>4, PositionMoves
<1>5. CASE i = p.r
  <2> DEFINE t == WithPositions(Running, i, p.j, "AdvanceJ", Running.pair)
  <2>1. sorts' = WithRunning(t) /\ UNCHANGED program
    <3>1. t = [Running EXCEPT !.partition.i = i, !.partition.phase = "AdvanceJ"]
      BY <1>1 DEF WithPositions, PendingSort, Partition
    <3> QED BY <1>5, <3>1 DEF AdvanceI
  <2>2. PositionsOK(t)
    <3>1. /\ t.partition.i = i /\ t.partition.j = p.j /\ t.partition.l = p.l
          /\ t.partition.r = p.r /\ t.partition.phase = "AdvanceJ"
      BY <1>1, <1>2 DEF WithPositions, PendingSort, Partition
    <3>2. p.l <= i /\ i <= p.r
      BY <1>1, <1>2, <1>5 DEF Partition
    <3> QED BY <1>2, <3>1, <3>2 DEF PositionsOK
  <2>3. "AdvanceJ" \in Phases
    BY DEF Phases
  <2> HIDE DEF t, i
  <2>4. t = WithPositions(Running, i, p.j, "AdvanceJ", Running.pair)
    BY DEF t
  <2> QED BY <1>2, <1>3, <2>1, <2>2, <2>3, <2>4, PositionMoves
<1> QED BY <1>4, <1>5

LEMMA AdvanceJKeeps == ASSUME IInv, AdvanceJ PROVE IInv'
<1> DEFINE p == Running.partition
           j == p.j - 1
<1>1. /\ Running \in PendingSort /\ p.phase = "AdvanceJ" /\ p \in Partition
      /\ SortOK(Running, Len(vectors[Running.vector]))
  BY InsideStep DEF AdvanceJ, PendingSort
<1>2. /\ j \in Int /\ p.i \in Int /\ p.r \in Int /\ p.pivot \in Int
      /\ p.pivot = p.r /\ p.l <= p.i /\ p.i <= p.r /\ p.l < p.j /\ p.j <= p.r
      /\ Running.pair \in Int \X Int
  BY <1>1 DEF Partition, PendingSort, SortOK, PartitionFits, PositionsOK
<1>3. order' \in -1..1 /\ UNCHANGED <<vectors, left>> /\ InPhase("AdvanceJ")
  BY DEF AdvanceJ, IInv, TypeOK
<1>4. CASE j # p.l
  <2> DEFINE t == WithPositions(Running, p.i, j, "CompareJ", <<j, p.pivot>>)
  <2>1. sorts' = WithRunning(t) /\ Proceed("reading")
    <3>1. t = [Running EXCEPT !.partition.j = j, !.partition.phase = "CompareJ",
                              !.pair = <<j, p.pivot>>]
      BY <1>1 DEF WithPositions, PendingSort, Partition
    <3> QED BY <1>4, <3>1 DEF AdvanceJ
  <2>2. PositionsOK(t)
    <3>1. /\ t.partition.j = j /\ t.partition.i = p.i /\ t.partition.l = p.l
          /\ t.partition.r = p.r /\ t.partition.phase = "CompareJ" /\ t.pair = <<j, p.r>>
      BY <1>1, <1>2 DEF WithPositions, PendingSort, Partition
    <3>2. p.l < j /\ j < p.r
      BY <1>1, <1>2, <1>4 DEF Partition
    <3> QED BY <1>2, <3>1, <3>2 DEF PositionsOK
  <2>3. <<j, p.pivot>> \in Int \X Int /\ "CompareJ" \in Phases
    BY <1>2 DEF Phases
  <2> HIDE DEF t, j
  <2>4. t = WithPositions(Running, p.i, j, "CompareJ", <<j, p.pivot>>)
    BY DEF t
  <2> QED BY <1>2, <1>3, <2>1, <2>2, <2>3, <2>4, PositionMoves
<1>5. CASE j = p.l
  <2> DEFINE t == WithPositions(Running, p.i, j, "Exchange", Running.pair)
  <2>1. sorts' = WithRunning(t) /\ UNCHANGED program
    <3>1. t = [Running EXCEPT !.partition.j = j, !.partition.phase = "Exchange"]
      BY <1>1 DEF WithPositions, PendingSort, Partition
    <3> QED BY <1>5, <3>1 DEF AdvanceJ
  <2>2. PositionsOK(t)
    <3>1. /\ t.partition.j = j /\ t.partition.i = p.i /\ t.partition.l = p.l
          /\ t.partition.r = p.r /\ t.partition.phase = "Exchange"
      BY <1>1, <1>2 DEF WithPositions, PendingSort, Partition
    <3>2. p.l <= j /\ j < p.r
      BY <1>1, <1>2, <1>5 DEF Partition
    <3> QED BY <1>2, <3>1, <3>2 DEF PositionsOK
  <2>3. "Exchange" \in Phases
    BY DEF Phases
  <2> HIDE DEF t, j
  <2>4. t = WithPositions(Running, p.i, j, "Exchange", Running.pair)
    BY DEF t
  <2> QED BY <1>2, <1>3, <2>1, <2>2, <2>3, <2>4, PositionMoves
<1> QED BY <1>4, <1>5

(* The arms that look at the answer, whichever way it sends them.          *)
LEMMA CompareKeeps ==
  ASSUME IInv, NEW from \in {"CompareI", "CompareJ"}, InPhase(from),
         NEW to \in {"AdvanceI", "AdvanceJ", "Exchange"},
         from = "CompareI" => to # "Exchange", from = "CompareJ" => to # "AdvanceI",
         sorts' = WithRunning([Running EXCEPT !.partition.phase = to]),
         order' = 0, UNCHANGED <<vectors, program, left>>
  PROVE  IInv'
<1> DEFINE p == Running.partition
           t == WithPositions(Running, p.i, p.j, to, Running.pair)
<1>1. /\ Running \in PendingSort /\ p.phase = from /\ p \in Partition
      /\ SortOK(Running, Len(vectors[Running.vector]))
  BY InsideStep DEF PendingSort
<1>2. /\ p.i \in Int /\ p.j \in Int /\ p.l \in Int /\ p.r \in Int
      /\ Running.pair \in Int \X Int
      /\ p.l <= p.i /\ p.i <= p.r /\ p.l < p.j /\ p.j <= p.r
      /\ from = "CompareI" => p.i < p.r
      /\ from = "CompareJ" => p.j < p.r
  BY <1>1 DEF Partition, PendingSort, SortOK, PositionsOK
<1>3. sorts' = WithRunning(t)
  BY <1>1 DEF WithPositions, PendingSort, Partition
<1>4. PositionsOK(t)
  <2>1. /\ t.partition.i = p.i /\ t.partition.j = p.j /\ t.partition.l = p.l
        /\ t.partition.r = p.r /\ t.partition.phase = to
    BY <1>1, <1>2 DEF WithPositions, PendingSort, Partition
  <2> QED BY <1>2, <2>1 DEF PositionsOK
<1>5. to \in Phases /\ order' \in -1..1 /\ from # "none"
  BY DEF Phases
<1>6. t = WithPositions(Running, p.i, p.j, to, Running.pair)
  OBVIOUS
<1> HIDE DEF t
<1> QED BY <1>2, <1>3, <1>4, <1>5, <1>6, PositionMoves

LEMMA CompareIKeeps == ASSUME IInv, CompareI PROVE IInv'
<1>1. CASE order < 0
  BY <1>1, CompareKeeps DEF CompareI
<1>2. CASE ~(order < 0)
  BY <1>2, CompareKeeps DEF CompareI
<1> QED BY <1>1, <1>2

LEMMA CompareJKeeps == ASSUME IInv, CompareJ PROVE IInv'
<1>1. CASE order > 0
  BY <1>1, CompareKeeps DEF CompareJ
<1>2. CASE ~(order > 0)
  BY <1>2, CompareKeeps DEF CompareJ
<1> QED BY <1>1, <1>2

(* A step of the quicksort that moves elements. *)
LEMMA ElementsMove ==
  ASSUME IInv, sorts # <<>>, NEW t \in PendingSort, t.vector = Running.vector,
         SortOK(t, Len(vectors[Running.vector])), sorts' = WithRunning(t),
         NEW elements \in Seq(Keys), Len(elements) = Len(vectors[Running.vector]),
         vectors' = [vectors EXCEPT ![Running.vector] = elements],
         UNCHANGED <<program, order, left>>
  PROVE  IInv'
<1>1. vectors' \in [Vectors -> Seq(Keys)]
  BY DEF IInv, TypeOK
<1>2. \A x \in Vectors : Len(vectors'[x]) = Len(vectors[x])
  BY DEF IInv, TypeOK
<1>3. sorts' \in Seq(PendingSort) /\ sorts' # <<>> /\ SortsOK'
  BY <1>2, TopReplaced DEF IInv
<1>4. program' \in Seq(SortFrame \cup ScopeFrame) /\ ProgramOK'
  BY <1>3, Stays DEF IInv
<1> QED BY <1>1, <1>3, <1>4 DEF IInv, TypeOK

LEMMA ExchangeKeeps == ASSUME IInv, Exchange PROVE IInv'
<1> DEFINE p == Running.partition
           v == Running.vector
           elements == Exchanged(vectors[v], p.i, p.j)
           t == WithPositions(Running, p.i, p.j, "AdvanceI", Running.pair)
<1>1. /\ sorts # <<>> /\ Running \in PendingSort /\ p.phase = "Exchange" /\ p \in Partition
      /\ SortOK(Running, Len(vectors[v])) /\ vectors[v] \in Seq(Keys)
  BY InsideStep DEF Exchange, PendingSort
<1>2. /\ p.i \in Int /\ p.j \in Int /\ p.l \in Int /\ p.r \in Int
      /\ p.pivot = p.r /\ p.l <= p.i /\ p.i <= p.r /\ p.l <= p.j /\ p.j < p.r
      /\ p.j > p.i
  BY <1>1 DEF Partition, SortOK, PartitionFits, PositionsOK, Exchange
<1>3. PivotAfter(p) = p.pivot
  BY <1>2 DEF PivotAfter
<1>4. CanExchange(vectors[v], p.i, p.j) /\ vectors' = [vectors EXCEPT ![v] = elements]
  BY DEF Exchange
<1>5. elements \in Seq(Keys) /\ Len(elements) = Len(vectors[v])
  BY <1>1, <1>4, ExchangedKeeps
<1>6. sorts' = WithRunning(t)
  <2>1. t = [Running EXCEPT !.partition.pivot = PivotAfter(p), !.partition.phase = "AdvanceI"]
    BY <1>1, <1>3 DEF WithPositions, PendingSort, Partition
  <2> QED BY <2>1 DEF Exchange
<1>7. PositionsOK(t)
  <2>1. /\ t.partition.i = p.i /\ t.partition.j = p.j /\ t.partition.l = p.l
        /\ t.partition.r = p.r /\ t.partition.phase = "AdvanceI"
    BY <1>1 DEF WithPositions, PendingSort, Partition
  <2> QED BY <1>2, <2>1 DEF PositionsOK
<1>8. /\ t = WithPositions(Running, p.i, p.j, "AdvanceI", Running.pair)
      /\ "AdvanceI" \in Phases /\ Running.pair \in Int \X Int /\ p.phase # "none"
  BY <1>1 DEF PendingSort, Phases
<1> HIDE DEF t, elements
<1>9. t \in PendingSort /\ t.vector = v /\ SortOK(t, Len(vectors[v]))
  BY ONLY <1>1, <1>2, <1>7, <1>8, PositionsMoved
<1> QED BY <1>1, <1>4, <1>5, <1>6, <1>9, ElementsMove DEF Exchange

LEMMA SplitKeeps == ASSUME IInv, Split PROVE IInv'
<1> DEFINE p == Running.partition
           v == Running.vector
           once == Exchanged(vectors[v], p.i, p.j)
           back == Exchanged(once, p.i, p.j)
           elements == Exchanged(back, p.i, p.r)
           t == [Running EXCEPT !.ranges = Halves(Running.ranges, p), !.partition = NoPartition]
<1>1. /\ sorts # <<>> /\ Running \in PendingSort /\ p.phase = "Exchange"
      /\ SortOK(Running, Len(vectors[v])) /\ vectors[v] \in Seq(Keys)
  BY InsideStep DEF Split
<1>2. /\ CanExchange(vectors[v], p.i, p.j) /\ CanExchange(vectors[v], p.i, p.r)
      /\ vectors' = [vectors EXCEPT ![v] = elements]
      /\ sorts' = WithRunning(t)
  BY DEF Split
<1>3. elements \in Seq(Keys) /\ Len(elements) = Len(vectors[v])
  <2> HIDE DEF p, v
  <2>1. once \in Seq(Keys) /\ Len(once) = Len(vectors[v])
    BY <1>1, <1>2, ExchangedKeeps
  <2>2. CanExchange(once, p.i, p.j) /\ CanExchange(once, p.i, p.r)
    <3> HIDE DEF once
    <3> QED BY <1>1, <1>2, <2>1 DEF CanExchange, Has
  <2>3. back \in Seq(Keys) /\ Len(back) = Len(vectors[v])
    <3> HIDE DEF once
    <3> QED BY <2>1, <2>2, ExchangedKeeps
  <2>4. CanExchange(back, p.i, p.r)
    <3> HIDE DEF back
    <3> QED BY <1>1, <1>2, <2>3 DEF CanExchange, Has
  <2> HIDE DEF back
  <2> QED BY <2>3, <2>4, ExchangedKeeps
<1>4. t \in PendingSort /\ t.vector = v /\ SortOK(t, Len(vectors[v]))
  BY <1>1, RangesSplit
<1> HIDE DEF t, elements
<1> QED BY <1>1, <1>2, <1>3, <1>4, ElementsMove DEF Split

LEMMA ErrorKeeps ==
  ASSUME IInv, sorts # <<>>, Unwind(Front(sorts)) \/ Unwind(sorts),
         UNCHANGED <<vectors, order, left>>
  PROVE  IInv'
<1>1. sorts \in Seq(PendingSort) /\ Len(sorts) \in Nat \ {0}
  BY EmptySeq DEF IInv, TypeOK
<1>2. /\ Len(sorts) - 1 \in 0..Len(sorts) /\ Front(sorts) = SubSeq(sorts, 1, Len(sorts) - 1)
      /\ Len(sorts) \in 0..Len(sorts) /\ sorts = SubSeq(sorts, 1, Len(sorts))
  BY <1>1, SubSeqFull DEF Front
<1>3. /\ \E n \in 0..Len(sorts) : Front(sorts) = SubSeq(sorts, 1, n)
      /\ \E n \in 0..Len(sorts) : sorts = SubSeq(sorts, 1, n)
  BY <1>2
<1> QED BY <1>3, UnwindKeeps

LEMMA ThrowKeeps == ASSUME IInv, Throw PROVE IInv'
<1>1. sorts \in Seq(PendingSort) /\ Len(sorts) \in Nat
  BY DEF IInv, TypeOK
<1>2. Len(sorts) \in 0..Len(sorts) /\ sorts = SubSeq(sorts, 1, Len(sorts))
  BY <1>1, SubSeqFull
<1>3. \E n \in 0..Len(sorts) : sorts = SubSeq(sorts, 1, n)
  BY <1>2
<1> QED BY <1>3, UnwindKeeps DEF Throw

LEMMA ResumeKeeps == ASSUME IInv, Resume PROVE IInv'
<1> DEFINE f == [program[Len(program)] EXCEPT !.at = "resuming", !.outcome = NotInteger]
<1>1. /\ program # <<>> /\ Frame.at = "next" /\ sorts # <<>>
      /\ UNCHANGED <<vectors, sorts, left>>
      /\ program' = [program EXCEPT ![Len(program)] = f]
  BY DEF Resume, At, Mine
<1>2. Frame = program[Len(program)] /\ Frame \in SortFrame
  BY <1>1, TopFrame DEF IInv
<1>3. f \in SortFrame \cup ScopeFrame
  BY <1>2 DEF SortFrame, NotInteger, Outcomes
<1> HIDE DEF f
<1>4. program' \in Seq(SortFrame \cup ScopeFrame) /\ ProgramOK'
  BY <1>1, <1>3, Moved DEF IInv
<1>5. order' \in -1..1
  <2>1. Frame.outcome \in {-1, 0, 1, 2}
    BY <1>2 DEF SortFrame, Outcomes, NotInteger
  <2> QED BY <2>1 DEF Resume, NotInteger
<1>6. SortsOK'
  BY <1>1 DEF IInv, SortsOK
<1> QED BY <1>1, <1>4, <1>5, <1>6 DEF IInv, TypeOK

LEMMA ReadKeeps == ASSUME IInv, Read PROVE IInv'
<1>1. /\ program # <<>> /\ Frame.at = "reading" /\ sorts # <<>> /\ Proceed("comparing")
      /\ UNCHANGED <<vectors, sorts, order, left>>
  BY DEF Read, At, Mine
<1>2. program' \in Seq(SortFrame \cup ScopeFrame) /\ ProgramOK'
  BY <1>1, Proceeds DEF IInv
<1>3. SortsOK'
  BY <1>1 DEF IInv, SortsOK
<1> QED BY <1>1, <1>2, <1>3 DEF IInv, TypeOK

(* A comparator may return when its sort is long gone: nothing is replaced. *)
LEMMA AnswerKeeps ==
  ASSUME IInv, NEW outcome \in Outcomes, Answer(outcome)
  PROVE  IInv'
<1> DEFINE f == [program[Len(program)] EXCEPT !.at = "next", !.outcome = outcome]
           t == [Running EXCEPT !.trust = "arbitrary"]
<1>1. /\ program # <<>> /\ Frame.at = "comparing"
      /\ UNCHANGED <<vectors, order, left>>
      /\ program' = [program EXCEPT ![Len(program)] = f]
  BY DEF Answer, At
<1>2. Frame = program[Len(program)] /\ Frame \in SortFrame
  BY <1>1, TopFrame DEF IInv
<1>3. f \in SortFrame \cup ScopeFrame /\ f.at = "next"
  BY <1>2 DEF SortFrame
<1>4. program' \in Seq(SortFrame \cup ScopeFrame) /\ ProgramOK'
  <2> HIDE DEF f, t
  <2> QED BY <1>1, <1>3, Moved DEF IInv
<1>5. sorts' \in Seq(PendingSort) /\ SortsOK'
  <2>0. UNCHANGED sorts \/ (Running.trust = "consistent" /\ sorts' = WithRunning(t))
    <3>1. CASE Running.trust = "consistent" /\ outcome # ByKeys(Running)
      BY <3>1 DEF Answer
    <3>2. CASE ~(Running.trust = "consistent" /\ outcome # ByKeys(Running))
      BY <3>2 DEF Answer
    <3> QED BY <3>1, <3>2
  <2>1. CASE UNCHANGED sorts
    BY <1>1, <2>1 DEF IInv, TypeOK, SortsOK
  <2>2. CASE sorts # <<>> /\ Running.trust = "consistent" /\ sorts' = WithRunning(t)
    <3>1. Running \in PendingSort /\ SortOK(Running, Len(vectors[Running.vector]))
      BY <2>2, TopSort DEF IInv
    <3>2. /\ t \in PendingSort /\ t.vector = Running.vector /\ t.ranges = Running.ranges
          /\ t.partition = Running.partition /\ t.before = Running.before
          /\ t.pair = Running.pair
      BY <3>1 DEF PendingSort
    <3>3. SortOK(t, Len(vectors[t.vector]))
      BY <2>2, <3>1, <3>2 DEF SortOK, PartitionFits, PositionsOK
    <3> HIDE DEF t
    <3> QED BY <1>1, <2>2, <3>2, <3>3, TopReplaced DEF IInv
  <2>3. CASE sorts = <<>> /\ sorts' = WithRunning(t)
    <3>1. sorts' = <<>>
      BY <2>3 DEF WithRunning
    <3> QED BY <3>1, EmptySeq DEF SortsOK
  <2> HIDE DEF t
  <2> QED BY <2>0, <2>1, <2>2, <2>3
<1> QED BY <1>1, <1>4, <1>5 DEF IInv, TypeOK

(* A sort of a vector others have touched is still sound, at any length.   *)
LEMMA TouchedKeeps ==
  ASSUME IInv, NEW v \in Vectors,
         \A x \in Vectors : x # v => Len(vectors'[x]) = Len(vectors[x])
  PROVE  /\ Touched(sorts, v) \in Seq(PendingSort)
         /\ Len(Touched(sorts, v)) = Len(sorts)
         /\ \A k \in 1..Len(sorts) :
              SortOK(Touched(sorts, v)[k], Len(vectors'[Touched(sorts, v)[k].vector]))
<1> DEFINE ss == Touched(sorts, v)
<1>1. sorts \in Seq(PendingSort) /\ Len(sorts) \in Nat
  BY DEF IInv, TypeOK
<1>2. ss = [k \in 1..Len(sorts) |-> IF sorts[k].vector = v
                                    THEN [sorts[k] EXCEPT !.trust = "changed"] ELSE sorts[k]]
  BY <1>1 DEF Touched
<1>3. ASSUME NEW k \in 1..Len(sorts)
      PROVE  ss[k] \in PendingSort /\ SortOK(ss[k], Len(vectors'[ss[k].vector]))
  <2>1. sorts[k] \in PendingSort /\ SortOK(sorts[k], Len(vectors[sorts[k].vector]))
    BY <1>1 DEF IInv, SortsOK
  <2>2. CASE sorts[k].vector = v
    <3>1. ss[k] = [sorts[k] EXCEPT !.trust = "changed"]
      BY <1>2, <2>2
    <3> HIDE DEF ss
    <3>2. /\ ss[k] \in PendingSort /\ ss[k].ranges = sorts[k].ranges
          /\ ss[k].partition = sorts[k].partition /\ ss[k].before = sorts[k].before
          /\ ss[k].pair = sorts[k].pair /\ ss[k].trust = "changed"
      BY <2>1, <3>1 DEF PendingSort
    <3> QED BY <2>1, <3>2 DEF SortOK, PartitionFits, PositionsOK
  <2>3. CASE sorts[k].vector # v
    <3>1. ss[k] = sorts[k]
      BY <1>2, <2>3
    <3>2. sorts[k].vector \in Vectors
      BY <2>1 DEF PendingSort
    <3> QED BY <2>1, <2>3, <3>1, <3>2
  <2> QED BY <2>2, <2>3
<1>4. ss \in Seq(PendingSort) /\ Len(ss) = Len(sorts)
  BY <1>1, <1>2, <1>3
<1> QED BY <1>3, <1>4

LEMMA BeginKeeps ==
  ASSUME IInv, NEW v \in Vectors, NEW descending \in BOOLEAN, Begin(v, descending)
  PROVE  IInv'
<1> DEFINE ss == Touched(sorts, v)
           length == Len(vectors[v])
           s == [vector |-> v, descending |-> descending, ranges |-> new(length),
                 partition |-> NoPartition, pair |-> <<0, 0>>,
                 before |-> vectors[v], trust |-> "consistent"]
           f == [at |-> "next", vector |-> v, outcome |-> NotInteger]
<1>1. /\ vectors[v] \in Seq(Keys) /\ length \in Nat
      /\ TypeOK /\ ProgramOK /\ InCode
  BY DEF IInv, TypeOK, Begin
<1>2. new(length) \in Seq(Int \X Int) /\ Stacked(new(length), length)
  <2>1. CASE length = 0
    BY <2>1 DEF new, Stacked
  <2>2. CASE length # 0
    <3>1. new(length) = << <<0, length - 1>> >>
      BY <2>2 DEF new
    <3> QED BY <1>1, <2>2, <3>1 DEF Stacked
  <2> QED BY <2>1, <2>2
<1>3. NoPartition \in Partition /\ NoPartition.phase = "none"
  BY DEF NoPartition, Partition, Phases
<1>4. s \in PendingSort /\ SortOK(s, length) /\ s.vector = v
  BY <1>1, <1>2, <1>3 DEF PendingSort, SortOK
<1>5. UNCHANGED <<vectors, order>> /\ sorts' = Append(ss, s) /\ program' = Append(program, f)
  BY DEF Begin
<1>6. /\ ss \in Seq(PendingSort) /\ Len(ss) = Len(sorts)
      /\ \A k \in 1..Len(sorts) : SortOK(ss[k], Len(vectors'[ss[k].vector]))
  BY <1>5, TouchedKeeps
<1>7. f \in SortFrame \cup ScopeFrame /\ f.at = "next"
  BY DEF SortFrame, Outcomes, NotInteger
<1>8. left' \in [sorts : Nat, changes : Nat, scopes : Nat]
  <2>1. left \in [sorts : Nat, changes : Nat, scopes : Nat]
    BY DEF IInv, TypeOK
  <2>2. left.sorts > 0 /\ left' = [left EXCEPT !.sorts = left.sorts - 1]
    BY DEF Begin
  <2>3. left.sorts - 1 \in Nat
    BY <2>1, <2>2
  <2> QED BY <2>1, <2>2, <2>3
<1> HIDE DEF ss, s, f
<1>9. /\ sorts' \in Seq(PendingSort) /\ Len(sorts') = Len(ss) + 1
      /\ \A k \in 1..Len(ss) : sorts'[k] = ss[k]
      /\ sorts'[Len(ss) + 1] = s
  BY <1>4, <1>5, <1>6, AppendProperties
<1>10. SortsOK'
  <2>1. ASSUME NEW k \in 1..Len(sorts')
        PROVE  SortOK(sorts'[k], Len(vectors'[sorts'[k].vector]))
    <3>1. CASE k = Len(ss) + 1
      BY <1>4, <1>5, <1>9, <3>1
    <3>2. CASE k # Len(ss) + 1
      <4>1. k \in 1..Len(ss)
        BY <1>6, <1>9, <3>2
      <4> QED BY <1>6, <1>9, <4>1
    <3> QED BY <3>1, <3>2
  <2> QED BY <2>1 DEF SortsOK
<1>11. program' \in Seq(SortFrame \cup ScopeFrame) /\ ProgramOK'
  BY <1>1, <1>5, <1>7, FrameEntered
<1> QED BY <1>1, <1>5, <1>8, <1>9, <1>10, <1>11 DEF IInv, TypeOK

LEMMA ChangeKeeps ==
  ASSUME IInv, NEW v \in Vectors, Change(v)
  PROVE  IInv'
<1>1. /\ vectors \in [Vectors -> Seq(Keys)] /\ sorts \in Seq(PendingSort)
      /\ UNCHANGED <<program, order>> /\ sorts' = Touched(sorts, v)
  BY DEF IInv, TypeOK, Change
<1>2. PICK elements \in Changes(vectors[v]) : vectors' = [vectors EXCEPT ![v] = elements]
  BY DEF Change
<1>3. elements \in Seq(Keys)
  <2> DEFINE old == vectors[v]
  <2>1. old \in Seq(Keys) /\ Len(old) \in Nat
    BY <1>1
  <2>2. CASE \E n \in DOMAIN old, key \in Keys : elements = [old EXCEPT ![n] = key]
    BY <2>1, <2>2, ExceptSeq
  <2>3. CASE \E key \in Keys : elements = Append(old, key)
    BY <2>1, <2>3, AppendProperties
  <2>4. CASE \E n \in DOMAIN old : \E m \in 1..n :
               elements = SubSeq(old, 1, m - 1) \o SubSeq(old, n + 1, Len(old))
    <3>0. PICK n \in DOMAIN old : \E m \in 1..n :
                 elements = SubSeq(old, 1, m - 1) \o SubSeq(old, n + 1, Len(old))
      BY <2>4
    <3>1. PICK m \in 1..n :
                 elements = SubSeq(old, 1, m - 1) \o SubSeq(old, n + 1, Len(old))
      BY <3>0
    <3>2. n \in 1..Len(old) /\ m - 1 \in Int /\ n + 1 \in Int /\ Len(old) \in Int
      BY <2>1
    <3>3. /\ \A i \in 1..(m - 1) : old[i] \in Keys
          /\ \A i \in (n + 1)..Len(old) : old[i] \in Keys
      BY <2>1, <3>2
    <3>4. SubSeq(old, 1, m - 1) \in Seq(Keys)
      BY <3>2, <3>3, SubSeqProperties
    <3>5. SubSeq(old, n + 1, Len(old)) \in Seq(Keys)
      BY <3>2, <3>3, SubSeqProperties
    <3> QED BY <3>1, <3>4, <3>5
  <2>5. \/ \E n \in DOMAIN old, key \in Keys : elements = [old EXCEPT ![n] = key]
        \/ \E key \in Keys : elements = Append(old, key)
        \/ \E n \in DOMAIN old : \E m \in 1..n :
             elements = SubSeq(old, 1, m - 1) \o SubSeq(old, n + 1, Len(old))
    <3> HIDE DEF old
    <3>1. elements \in Changes(old)
      BY <1>2 DEF old
    <3> DEFINE set == {[old EXCEPT ![n] = key] : n \in DOMAIN old, key \in Keys}
               append == IF Len(old) < MaxLength THEN {Append(old, key) : key \in Keys} ELSE {}
               remove == UNION {{SubSeq(old, 1, m - 1) \o SubSeq(old, n + 1, Len(old)) :
                                   m \in 1..n} : n \in DOMAIN old}
    <3>2. elements \in set \/ elements \in append \/ elements \in remove
      <4>1. Changes(old) = set \cup append \cup remove
        BY DEF Changes
      <4> HIDE DEF set, append, remove
      <4> QED BY <3>1, <4>1
    <3>3. CASE elements \in set
      BY <3>3
    <3>4. CASE elements \in append
      BY <3>4
    <3>5. CASE elements \in remove
      BY <3>5
    <3> HIDE DEF set, append, remove
    <3> QED BY <3>2, <3>3, <3>4, <3>5
  <2> QED BY <2>2, <2>3, <2>4, <2>5
<1>4. vectors' \in [Vectors -> Seq(Keys)] /\ \A x \in Vectors : x # v => vectors'[x] = vectors[x]
  BY <1>1, <1>2, <1>3
<1>5. /\ sorts' \in Seq(PendingSort) /\ Len(sorts') = Len(sorts)
      /\ \A k \in 1..Len(sorts) : SortOK(sorts'[k], Len(vectors'[sorts'[k].vector]))
  BY <1>1, <1>4, TouchedKeeps
<1>6. ProgramOK'
  <2>1. sorts # <<>> => sorts' # <<>>
    BY <1>1, <1>5, EmptySeq
  <2> QED BY <1>1, <2>1 DEF IInv, ProgramOK, At, Frame
<1>7. left' \in [sorts : Nat, changes : Nat, scopes : Nat]
  <2>1. left \in [sorts : Nat, changes : Nat, scopes : Nat]
    BY DEF IInv, TypeOK
  <2>2. left.changes > 0 /\ left' = [left EXCEPT !.changes = left.changes - 1]
    BY DEF Change
  <2>3. left.changes - 1 \in Nat
    BY <2>1, <2>2
  <2> QED BY <2>1, <2>2, <2>3
<1> QED BY <1>1, <1>4, <1>5, <1>6, <1>7 DEF IInv, TypeOK, SortsOK

LEMMA EnterKeeps == ASSUME IInv, Enter PROVE IInv'
<1> DEFINE f == [at |-> "scope", mark |-> Len(sorts)]
<1>1. /\ TypeOK /\ ProgramOK /\ InCode /\ UNCHANGED <<vectors, sorts, order>>
      /\ program' = Append(program, f)
  BY DEF IInv, Enter
<1>2. f \in SortFrame \cup ScopeFrame /\ f.at = "scope"
  BY <1>1 DEF TypeOK, ScopeFrame
<1>3. left' \in [sorts : Nat, changes : Nat, scopes : Nat]
  <2>1. left \in [sorts : Nat, changes : Nat, scopes : Nat]
    BY DEF IInv, TypeOK
  <2>2. left.scopes > 0 /\ left' = [left EXCEPT !.scopes = left.scopes - 1]
    BY DEF Enter
  <2>3. left.scopes - 1 \in Nat
    BY <2>1, <2>2
  <2> QED BY <2>1, <2>2, <2>3
<1> HIDE DEF f
<1>4. program' \in Seq(SortFrame \cup ScopeFrame) /\ ProgramOK'
  BY <1>1, <1>2, FrameEntered
<1> QED BY <1>1, <1>3, <1>4 DEF IInv, TypeOK, SortsOK

LEMMA LeaveKeeps == ASSUME IInv, Leave PROVE IInv'
<1>1. /\ TypeOK /\ ProgramOK /\ SortsOK /\ program # <<>> /\ Frame.at = "scope"
      /\ UNCHANGED <<vectors, order, left>>
      /\ sorts' = truncate(sorts, Frame.mark) /\ program' = Front(program)
  BY DEF IInv, Leave, At
<1>2. Frame.mark \in Nat
  BY <1>1, TopFrame DEF SortFrame, ScopeFrame
<1>3. sorts' \in Seq(PendingSort) /\ SortsOK'
  <2>1. sorts \in Seq(PendingSort)
    BY <1>1 DEF TypeOK
  <2>2. PICK m \in 0..Len(sorts) : sorts' = SubSeq(sorts, 1, m)
    BY <1>1, <1>2, <2>1, Truncated
  <2> QED BY <1>1, <2>2, SortsCut
<1>4. program' \in Seq(SortFrame \cup ScopeFrame) /\ ProgramOK'
  <2>1. program \in Seq(SortFrame \cup ScopeFrame)
    BY <1>1 DEF TypeOK
  <2>2. Len(program) \in Nat \ {0}
    BY <1>1, <2>1, EmptySeq
  <2>3. program' = SubSeq(program, 1, Len(program) - 1)
    BY <1>1 DEF Front
  <2> QED BY <1>1, <2>2, <2>3, FramesCut
<1> QED BY <1>1, <1>3, <1>4 DEF IInv, TypeOK

LEMMA InitHolds == Init => IInv
<1> SUFFICES ASSUME Init PROVE IInv
  OBVIOUS
<1>1. /\ vectors \in [Vectors -> Seq(Keys)]
      /\ left \in [sorts : Nat, changes : Nat, scopes : Nat]
  BY SortAssumption DEF Init
<1>2. sorts = <<>> /\ program = <<>> /\ order = 0
  BY DEF Init
<1>3. TypeOK
  BY <1>1, <1>2 DEF TypeOK
<1>4. ProgramOK /\ SortsOK
  BY <1>2 DEF ProgramOK, SortsOK, At
<1> QED BY <1>3, <1>4 DEF IInv

LEMMA StepKeeps == IInv /\ [Next]_vars => IInv'
<1> SUFFICES ASSUME IInv, [Next]_vars PROVE IInv'
  OBVIOUS
<1>1. CASE UNCHANGED vars
  BY <1>1 DEF vars, IInv, TypeOK, ProgramOK, SortsOK, At, Frame
<1>2. CASE \E v \in Vectors, descending \in BOOLEAN : Begin(v, descending)
  BY <1>2, BeginKeeps
<1>3. CASE Resume
  BY <1>3, ResumeKeeps
<1>4. CASE WrongType
  BY <1>4, ErrorKeeps DEF WrongType, Mine
<1>5. CASE TakeRange \/ Sorted
  BY <1>5, TakeRangeKeeps, SortedKeeps
<1>6. CASE AdvanceI \/ CompareI \/ AdvanceJ \/ CompareJ
  BY <1>6, AdvanceIKeeps, CompareIKeeps, AdvanceJKeeps, CompareJKeeps
<1>7. CASE Exchange \/ Split
  BY <1>7, ExchangeKeeps, SplitKeeps
<1>8. CASE OutOfRange
  BY <1>8, ErrorKeeps, InsideStep DEF OutOfRange
<1>9. CASE Read
  BY <1>9, ReadKeeps
<1>10. CASE Unreadable
  BY <1>10, ErrorKeeps DEF Unreadable, Mine
<1>11. CASE \E outcome \in Outcomes : Answer(outcome)
  BY <1>11, AnswerKeeps
<1>12. CASE \E v \in Vectors : Change(v)
  BY <1>12, ChangeKeeps
<1>13. CASE Enter \/ Leave \/ Throw
  BY <1>13, EnterKeeps, LeaveKeeps, ThrowKeeps
<1> QED BY <1>1, <1>2, <1>3, <1>4, <1>5, <1>6, <1>7, <1>8, <1>9, <1>10, <1>11, <1>12, <1>13
        DEF Next

LEMMA Invariance == Spec => []IInv
BY InitHolds, StepKeeps, PTL DEF Spec

(***************************************************************************)
(* The sorts and the calls in step                                         *)
(***************************************************************************)
LEMMA CallsCounted ==
  ASSUME NEW frames, NEW n \in Nat
  PROVE  /\ CallsIn(frames, n) \in Nat
         /\ CallsIn(frames, 0) = 0
         /\ CallsIn(frames, n + 1) =
              IF frames[n + 1].at = "scope" THEN CallsIn(frames, n) ELSE CallsIn(frames, n) + 1
         /\ \A m \in 0..n : CallsIn(frames, m) <= CallsIn(frames, n)
<1> DEFINE Calls(m) == {c \in 1..m : frames[c].at # "scope"}
<1>1. ASSUME NEW m \in Nat PROVE IsFiniteSet(Calls(m)) /\ Cardinality(Calls(m)) \in Nat
  <2>1. IsFiniteSet(1..m)
    BY FS_Interval
  <2> QED BY <2>1, FS_Subset, FS_CardinalityType
<1>2. Calls(0) = {}
  OBVIOUS
<1>3. ASSUME frames[n + 1].at = "scope" PROVE Cardinality(Calls(n + 1)) = Cardinality(Calls(n))
  BY <1>3
<1>4. ASSUME frames[n + 1].at # "scope" PROVE Cardinality(Calls(n + 1)) = Cardinality(Calls(n)) + 1
  <2>1. Calls(n + 1) = Calls(n) \cup {n + 1} /\ n + 1 \notin Calls(n)
    BY <1>4
  <2> HIDE DEF Calls
  <2> QED BY <1>1, <2>1, FS_AddElement
<1>5. ASSUME NEW m \in 0..n PROVE Cardinality(Calls(m)) <= Cardinality(Calls(n))
  <2>1. Calls(m) \subseteq Calls(n)
    OBVIOUS
  <2> HIDE DEF Calls
  <2> QED BY <1>1, <2>1, FS_Subset
<1>6. \A m : CallsIn(frames, m) = Cardinality(Calls(m))
  BY DEF CallsIn
<1> HIDE DEF Calls
<1>7. CallsIn(frames, n) \in Nat /\ CallsIn(frames, 0) = 0
  BY <1>1, <1>2, <1>6, FS_EmptySet
<1>8. frames[n + 1].at # "scope" => CallsIn(frames, n + 1) = CallsIn(frames, n) + 1
  BY <1>4, <1>6
<1>9. frames[n + 1].at = "scope" => CallsIn(frames, n + 1) = CallsIn(frames, n)
  BY <1>3, <1>6
<1>10. \A m \in 0..n : CallsIn(frames, m) <= CallsIn(frames, n)
  BY <1>5, <1>6
<1>11. CallsIn(frames, n + 1) =
         IF frames[n + 1].at = "scope" THEN CallsIn(frames, n) ELSE CallsIn(frames, n) + 1
  <2>1. CASE frames[n + 1].at = "scope"
    BY <1>9, <2>1, Zenon
  <2>2. CASE frames[n + 1].at # "scope"
    BY <1>8, <2>2, Zenon
  <2> QED BY <2>1, <2>2
<1> QED BY ONLY <1>7, <1>10, <1>11

LEMMA CallsSame ==
  ASSUME NEW f, NEW g, NEW n,
         \A c \in 1..n : f[c].at = "scope" <=> g[c].at = "scope"
  PROVE  CallsIn(f, n) = CallsIn(g, n)
<1>1. {c \in 1..n : f[c].at # "scope"} = {c \in 1..n : g[c].at # "scope"}
  OBVIOUS
<1> QED BY <1>1, Zenon DEF CallsIn

(* A call's sort is one of those there are. *)
LEMMA CallsWithin ==
  ASSUME NEW frames, NEW m \in Nat, NEW k \in 1..m, frames[k].at # "scope"
  PROVE  CallsIn(frames, k) \in 1..CallsIn(frames, m)
<1>1. k - 1 \in Nat /\ k = (k - 1) + 1 /\ k \in 0..m
  OBVIOUS
<1>2. CallsIn(frames, k - 1) \in Nat /\ CallsIn(frames, (k - 1) + 1) = CallsIn(frames, k - 1) + 1
  <2>1. frames[(k - 1) + 1].at # "scope"
    BY ONLY <1>1, frames[k].at # "scope"
  <2> QED BY ONLY <1>1, <2>1, CallsCounted
<1>3. CallsIn(frames, k) <= CallsIn(frames, m) /\ CallsIn(frames, m) \in Nat
  BY ONLY <1>1, m \in Nat, CallsCounted
<1>4. CallsIn(frames, k) = CallsIn(frames, k - 1) + 1
  BY ONLY <1>1, <1>2
<1> QED BY ONLY <1>2, <1>3, <1>4

(* Nothing begins or ends: the sorts stay the sorts of their vectors, and   *)
(* the calls calls.                                                        *)
LEMMA MatchedStays ==
  ASSUME IInv, Matched,
         Len(sorts') = Len(sorts), \A k \in 1..Len(sorts) : sorts'[k].vector = sorts[k].vector,
         DOMAIN program' = 1..Len(program), Len(program') = Len(program),
         \A k \in 1..Len(program) :
           \/ program'[k] = program[k]
           \/ /\ program[k].at # "scope" /\ program'[k].at # "scope"
              /\ program'[k].vector = program[k].vector
  PROVE  Matched'
<1>1. Len(program) \in Nat /\ DOMAIN program = 1..Len(program)
  BY DEF IInv, TypeOK
<1>2. ASSUME NEW n \in 0..Len(program) PROVE CallsIn(program', n) = CallsIn(program, n)
  <2>1. \A c \in 1..n : program'[c].at = "scope" <=> program[c].at = "scope"
    BY <1>1, <1>2
  <2> QED BY <2>1, CallsSame
<1>3. Len(sorts') = CallsIn(program', Len(program'))
  BY <1>1, <1>2 DEF Matched
<1>4. ASSUME NEW k \in DOMAIN program'
      PROVE  IF program'[k].at = "scope" THEN program'[k].mark = CallsIn(program', k)
             ELSE sorts'[CallsIn(program', k)].vector = program'[k].vector
  <2>1. k \in DOMAIN program /\ k \in 1..Len(program) /\ CallsIn(program', k) = CallsIn(program, k)
    BY <1>1, <1>2
  <2>2. CASE program'[k].at = "scope"
    BY <2>1, <2>2 DEF Matched
  <2>3. CASE program'[k].at # "scope"
    <3>1. program[k].at # "scope" /\ program'[k].vector = program[k].vector
      BY <2>1, <2>3
    <3>2. CallsIn(program, k) \in 1..Len(sorts)
      BY <1>1, <2>1, <3>1, CallsWithin DEF Matched
    <3>3. sorts[CallsIn(program, k)].vector = program[k].vector
      BY <2>1, <3>1 DEF Matched
    <3> QED BY <2>1, <2>3, <3>1, <3>2, <3>3
  <2> QED BY <2>2, <2>3
<1> QED BY <1>3, <1>4 DEF Matched

(* Frames are left together with their sorts. *)
LEMMA MatchedCut ==
  ASSUME IInv, Matched, NEW m \in 0..Len(program), program' = SubSeq(program, 1, m),
         Len(sorts') = CallsIn(program, m), \A k \in 1..Len(sorts') : sorts'[k] = sorts[k]
  PROVE  Matched'
<1>1. program \in Seq(SortFrame \cup ScopeFrame) /\ Len(program) \in Nat /\ m \in Nat
  BY DEF IInv, TypeOK
<1>2. /\ Len(program') = m /\ DOMAIN program' = 1..m
      /\ \A k \in 1..m : program'[k] = program[k]
  BY <1>1, Prefix
<1>3. ASSUME NEW n \in 0..m PROVE CallsIn(program', n) = CallsIn(program, n)
  <2>1. \A c \in 1..n : program'[c].at = "scope" <=> program[c].at = "scope"
    BY <1>1, <1>2, <1>3
  <2> QED BY <2>1, CallsSame
<1>4. Len(sorts') = CallsIn(program', Len(program'))
  BY <1>1, <1>2, <1>3
<1>5. ASSUME NEW k \in DOMAIN program'
      PROVE  IF program'[k].at = "scope" THEN program'[k].mark = CallsIn(program', k)
             ELSE sorts'[CallsIn(program', k)].vector = program'[k].vector
  <2>1. /\ k \in 1..m /\ k \in DOMAIN program /\ program'[k] = program[k]
        /\ CallsIn(program', k) = CallsIn(program, k)
    BY <1>1, <1>2, <1>3
  <2>2. CASE program'[k].at = "scope"
    BY <2>1, <2>2 DEF Matched
  <2>3. CASE program'[k].at # "scope"
    <3>1. CallsIn(program, k) \in 1..Len(sorts')
      BY <1>1, <2>1, <2>3, CallsWithin
    <3>2. sorts[CallsIn(program, k)].vector = program[k].vector
      BY <2>1, <2>3 DEF Matched
    <3> QED BY <2>1, <2>3, <3>1, <3>2
  <2> QED BY <2>2, <2>3
<1> QED BY <1>4, <1>5 DEF Matched

(* What is left after an error, if the sorts above the innermost scope's    *)
(* are all that an error may have popped.                                  *)
LEMMA UnwindMatches ==
  ASSUME IInv, Matched, NEW n \in 0..Len(sorts), NEW ss, ss = SubSeq(sorts, 1, n),
         \A k \in Scopes : program[k].mark <= n, Unwind(ss)
  PROVE  Matched'
<1>1. /\ sorts \in Seq(PendingSort) /\ program \in Seq(SortFrame \cup ScopeFrame)
      /\ Len(program) \in Nat /\ n \in Nat
  BY DEF IInv, TypeOK
<1>2. ss \in Seq(PendingSort) /\ Len(ss) = n /\ \A k \in 1..n : ss[k] = sorts[k]
  BY <1>1, Prefix
<1>3. ASSUME NEW mark \in Nat, mark <= n, sorts' = truncate(ss, mark)
      PROVE  Len(sorts') = mark /\ \A k \in 1..mark : sorts'[k] = sorts[k]
  <2>1. mark \in 0..Len(ss) /\ sorts' = SubSeq(ss, 1, mark)
    <3>1. CASE mark < Len(ss)
      BY <1>1, <1>2, <1>3, <3>1 DEF truncate
    <3>2. CASE mark = Len(ss)
      BY <1>2, <1>3, <3>2 DEF truncate
    <3>3. mark < Len(ss) \/ mark = Len(ss)
      BY ONLY <1>1, <1>2, <1>3
    <3> QED BY <3>1, <3>2, <3>3
  <2>2. Len(sorts') = mark /\ \A k \in 1..mark : sorts'[k] = ss[k]
    BY <1>2, <2>1, Prefix
  <2>3. \A k \in 1..mark : k \in 1..n
    BY ONLY <1>1, <1>3
  <2> QED BY <1>2, <2>2, <2>3
<1>4. CASE Scopes = {}
  <2>1. sorts' = truncate(ss, 0) /\ program' = <<>>
    BY <1>4 DEF Unwind
  <2>2. Len(sorts') = 0 /\ program' = SubSeq(program, 1, 0) /\ 0 \in 0..Len(program)
    BY <1>1, <1>3, <2>1
  <2>3. CallsIn(program, 0) = 0
    BY CallsCounted
  <2> QED BY <2>2, <2>3, MatchedCut
<1>5. CASE Scopes # {}
  <2>1. PICK k \in Scopes : /\ sorts' = truncate(ss, program[k].mark)
                            /\ program' = SubSeq(program, 1, k - 1)
    BY <1>5 DEF Unwind
  <2>2. k \in 1..Len(program) /\ k \in DOMAIN program /\ program[k].at = "scope"
    BY <1>1, <2>1 DEF Scopes
  <2>3. program[k].mark = CallsIn(program, k) /\ program[k].mark \in Nat
    BY <1>1, <2>2 DEF SortFrame, ScopeFrame, Matched
  <2>4. k - 1 \in Nat /\ k = (k - 1) + 1 /\ k - 1 \in 0..Len(program)
    BY ONLY <1>1, <2>2
  <2>5. CallsIn(program, k) = CallsIn(program, k - 1)
    BY ONLY <2>2, <2>4, CallsCounted
  <2>6. Len(sorts') = program[k].mark /\ \A x \in 1..Len(sorts') : sorts'[x] = sorts[x]
    BY <1>3, <2>1, <2>3
  <2> QED BY <2>1, <2>3, <2>4, <2>5, <2>6, MatchedCut
<1> QED BY <1>4, <1>5

(* Whoever is at work has a sort on top that no scope remembers.           *)
LEMMA ErrorMatches ==
  ASSUME IInv, Matched,
         \/ Unwind(sorts)
         \/ sorts # <<>> /\ program # <<>> /\ Frame.at # "scope" /\ Unwind(Front(sorts))
  PROVE  Matched'
<1>1. /\ sorts \in Seq(PendingSort) /\ Len(sorts) \in Nat
      /\ program \in Seq(SortFrame \cup ScopeFrame) /\ Len(program) \in Nat
  BY DEF IInv, TypeOK
<1>2. ASSUME NEW k \in Scopes
      PROVE  /\ k \in 1..Len(program) /\ program[k].at = "scope"
             /\ program[k].mark = CallsIn(program, k)
  BY <1>1 DEF Scopes, Matched
<1>3. CASE Unwind(sorts)
  <2>1. Len(sorts) \in 0..Len(sorts) /\ sorts = SubSeq(sorts, 1, Len(sorts))
    BY <1>1, SubSeqFull
  <2>2. ASSUME NEW k \in Scopes PROVE program[k].mark <= Len(sorts)
    <3>1. k \in 0..Len(program) /\ program[k].mark = CallsIn(program, k)
      BY <1>1, <1>2
    <3>2. CallsIn(program, k) <= CallsIn(program, Len(program))
      BY <1>1, <3>1, CallsCounted
    <3> QED BY <3>1, <3>2 DEF Matched
  <2> QED BY <1>3, <2>1, <2>2, UnwindMatches
<1>4. CASE sorts # <<>> /\ program # <<>> /\ Frame.at # "scope" /\ Unwind(Front(sorts))
  <2>1. Len(sorts) \in Nat \ {0} /\ Len(program) \in Nat \ {0} /\ Frame = program[Len(program)]
    BY <1>1, <1>4, TopOf DEF Frame
  <2>2. Len(sorts) - 1 \in 0..Len(sorts) /\ Front(sorts) = SubSeq(sorts, 1, Len(sorts) - 1)
    BY <2>1 DEF Front
  <2>3. CallsIn(program, Len(program) - 1) = Len(sorts) - 1
    <3>1. /\ Len(program) - 1 \in Nat /\ Len(program) = (Len(program) - 1) + 1
          /\ CallsIn(program, Len(program)) = Len(sorts) /\ program[Len(program)].at # "scope"
      BY <1>4, <2>1 DEF Matched
    <3>2. /\ CallsIn(program, Len(program) - 1) \in Nat
          /\ CallsIn(program, (Len(program) - 1) + 1) = CallsIn(program, Len(program) - 1) + 1
      BY ONLY <3>1, CallsCounted
    <3>3. Len(sorts) = CallsIn(program, Len(program) - 1) + 1
      BY ONLY <3>1, <3>2
    <3> QED BY ONLY <3>2, <3>3
  <2>4. ASSUME NEW k \in Scopes PROVE program[k].mark <= Len(sorts) - 1
    <3>1. k \in 0..(Len(program) - 1) /\ program[k].mark = CallsIn(program, k)
      <4>1. k # Len(program)
        BY <1>2, <1>4, <2>1
      <4> QED BY <1>2, <2>1, <4>1
    <3>2. Len(program) - 1 \in Nat
      BY ONLY <2>1
    <3>3. CallsIn(program, k) <= CallsIn(program, Len(program) - 1)
      BY ONLY <3>1, <3>2, CallsCounted
    <3> QED BY ONLY <2>3, <3>1, <3>3
  <2> QED BY <1>4, <2>2, <2>4, UnwindMatches
<1> QED BY <1>3, <1>4

(* A step of the sort on top, or of its call, changes neither what it sorts *)
(* nor how many there are.                                                 *)
LEMMA TopMatches ==
  ASSUME IInv, Matched, sorts # <<>>, NEW t \in PendingSort, t.vector = Running.vector,
         sorts' = WithRunning(t),
         UNCHANGED program \/ (program # <<>> /\ Frame.at # "scope" /\ Proceed("reading"))
  PROVE  Matched'
<1>1. /\ sorts \in Seq(PendingSort) /\ Len(sorts) \in Nat
      /\ program \in Seq(SortFrame \cup ScopeFrame) /\ Len(program) \in Nat
  BY DEF IInv, TypeOK
<1>2. Len(sorts) \in 1..Len(sorts) /\ Running = sorts[Len(sorts)]
  <2>1. Len(sorts) \in Nat \ {0} /\ Last(sorts) = sorts[Len(sorts)]
    BY ONLY <1>1, sorts # <<>>, TopOf
  <2>2. Len(sorts) \in 1..Len(sorts)
    BY ONLY <2>1
  <2> QED BY <2>1, <2>2 DEF Running
<1>3. /\ Len(sorts') = Len(sorts)
      /\ \A k \in 1..Len(sorts) : sorts'[k] = IF k = Len(sorts) THEN t ELSE sorts[k]
  BY <1>1, <1>2, ExceptSeq DEF WithRunning
<1>4. \A k \in 1..Len(sorts) : sorts'[k].vector = sorts[k].vector
  BY <1>2, <1>3
<1>5. CASE UNCHANGED program
  BY <1>1, <1>3, <1>4, <1>5, MatchedStays
<1>6. CASE program # <<>> /\ Frame.at # "scope" /\ Proceed("reading")
  <2> DEFINE f == [program[Len(program)] EXCEPT !.at = "reading"]
  <2>1. program' = [program EXCEPT ![Len(program)] = f]
    BY <1>6 DEF Proceed
  <2>2. /\ Frame = program[Len(program)] /\ Frame \in SortFrame
        /\ Len(program) \in Nat \ {0} /\ Len(program) \in 1..Len(program)
    BY <1>1, <1>6, TopFrame, EmptySeq DEF IInv
  <2>3. f \in SortFrame \cup ScopeFrame /\ f.at # "scope" /\ f.vector = program[Len(program)].vector
    BY <2>2 DEF SortFrame
  <2> HIDE DEF f
  <2>4. /\ Len(program') = Len(program) /\ DOMAIN program' = 1..Len(program)
        /\ \A k \in 1..Len(program) : program'[k] = IF k = Len(program) THEN f ELSE program[k]
    BY <1>1, <2>1, <2>2, <2>3, ExceptSeq
  <2>5. ASSUME NEW k \in 1..Len(program)
        PROVE  \/ program'[k] = program[k]
               \/ /\ program[k].at # "scope" /\ program'[k].at # "scope"
                  /\ program'[k].vector = program[k].vector
    BY <1>6, <2>2, <2>3, <2>4
  <2> QED BY <1>3, <1>4, <2>4, <2>5, MatchedStays
<1> QED BY <1>5, <1>6

(* The call on top goes on; sorts may lose trust, not their vectors.        *)
LEMMA CallMatches ==
  ASSUME IInv, Matched, program # <<>>, Frame.at # "scope", NEW f \in SortFrame,
         f.vector = Frame.vector, program' = [program EXCEPT ![Len(program)] = f],
         Len(sorts') = Len(sorts), \A k \in 1..Len(sorts) : sorts'[k].vector = sorts[k].vector
  PROVE  Matched'
<1>1. program \in Seq(SortFrame \cup ScopeFrame) /\ Len(program) \in Nat
  BY DEF IInv, TypeOK
<1>2. Frame = program[Len(program)] /\ Len(program) \in Nat \ {0} /\ Len(program) \in 1..Len(program)
  BY <1>1, TopFrame, EmptySeq DEF IInv
<1>3. f \in SortFrame \cup ScopeFrame /\ f.at # "scope"
  BY DEF SortFrame
<1>4. /\ Len(program') = Len(program) /\ DOMAIN program' = 1..Len(program)
      /\ \A k \in 1..Len(program) : program'[k] = IF k = Len(program) THEN f ELSE program[k]
  BY <1>1, <1>2, <1>3, ExceptSeq
<1>5. ASSUME NEW k \in 1..Len(program)
      PROVE  \/ program'[k] = program[k]
             \/ /\ program[k].at # "scope" /\ program'[k].at # "scope"
                /\ program'[k].vector = program[k].vector
  BY <1>2, <1>3, <1>4
<1> QED BY <1>4, <1>5, MatchedStays

LEMMA StepsMatch ==
  ASSUME IInv, Matched,
         TakeRange \/ AdvanceI \/ CompareI \/ AdvanceJ \/ CompareJ \/ Exchange \/ Split,
         IInv'
  PROVE  Matched'
<1>1. /\ sorts # <<>> /\ program # <<>> /\ Frame.at = "resuming" /\ Running \in PendingSort
      /\ Running.partition \in Partition /\ Running.ranges \in Seq(Int \X Int)
  <2>1. \E phase : InPhase(phase)
    BY DEF TakeRange, AdvanceI, CompareI, AdvanceJ, CompareJ, Exchange, Split
  <2> QED BY <2>1, InsideStep DEF PendingSort
<1>2. \E t : sorts' = WithRunning(t) /\ t.vector = Running.vector
  <2>1. CASE TakeRange
    <3> DEFINE l == Last(Running.ranges)[1]
               r == Last(Running.ranges)[2]
               t == [Running EXCEPT
                       !.ranges = Front(@),
                       !.partition = IF r > l
                                     THEN [l |-> l, r |-> r, i |-> l - 1, j |-> r, pivot |-> r,
                                           phase |-> "AdvanceI"]
                                     ELSE NoPartition]
    <3>1. sorts' = WithRunning(t)
      BY <2>1 DEF TakeRange
    <3>2. t.vector = Running.vector
      BY <1>1 DEF PendingSort
    <3> QED BY <3>1, <3>2
  <2>3. ASSUME NEW phase PROVE [Running EXCEPT !.partition.phase = phase].vector = Running.vector
    BY <1>1 DEF PendingSort
  <2>4. CASE AdvanceI
    <3> DEFINE i == Running.partition.i + 1
               s == [Running EXCEPT !.partition.i = i, !.partition.phase = "CompareI",
                                    !.pair = <<i, Running.partition.pivot>>]
               t == [Running EXCEPT !.partition.i = i, !.partition.phase = "AdvanceJ"]
    <3>1. sorts' = WithRunning(s) \/ sorts' = WithRunning(t)
      BY <2>4 DEF AdvanceI
    <3>2. s.vector = Running.vector /\ t.vector = Running.vector
      BY <1>1 DEF PendingSort
    <3> QED BY <3>1, <3>2
  <2>5. CASE AdvanceJ
    <3> DEFINE j == Running.partition.j - 1
               s == [Running EXCEPT !.partition.j = j, !.partition.phase = "CompareJ",
                                    !.pair = <<j, Running.partition.pivot>>]
               t == [Running EXCEPT !.partition.j = j, !.partition.phase = "Exchange"]
    <3>1. sorts' = WithRunning(s) \/ sorts' = WithRunning(t)
      BY <2>5 DEF AdvanceJ
    <3>2. s.vector = Running.vector /\ t.vector = Running.vector
      BY <1>1 DEF PendingSort
    <3> QED BY <3>1, <3>2
  <2>6. CASE CompareI \/ CompareJ
    <3>1. \E phase : sorts' = WithRunning([Running EXCEPT !.partition.phase = phase])
      BY <2>6 DEF CompareI, CompareJ
    <3> QED BY <2>3, <3>1
  <2>7. CASE Exchange
    <3> DEFINE t == [Running EXCEPT !.partition.pivot = PivotAfter(Running.partition),
                                    !.partition.phase = "AdvanceI"]
    <3>1. sorts' = WithRunning(t)
      BY <2>7 DEF Exchange
    <3>2. t.vector = Running.vector
      BY <1>1 DEF PendingSort
    <3> QED BY <3>1, <3>2
  <2>8. CASE Split
    <3> DEFINE t == [Running EXCEPT !.ranges = Halves(@, Running.partition),
                                    !.partition = NoPartition]
    <3>1. sorts' = WithRunning(t)
      BY <2>8 DEF Split
    <3>2. t.vector = Running.vector
      BY <1>1 DEF PendingSort
    <3> QED BY <3>1, <3>2
  <2> QED BY <2>1, <2>4, <2>5, <2>6, <2>7, <2>8
<1>3. UNCHANGED program \/ Proceed("reading")
  BY DEF TakeRange, AdvanceI, CompareI, AdvanceJ, CompareJ, Exchange, Split
<1>4. PICK t : sorts' = WithRunning(t) /\ t.vector = Running.vector
  BY <1>2
<1>5. t \in PendingSort
  <2>1. sorts' \in Seq(PendingSort) /\ sorts \in Seq(PendingSort)
    BY DEF IInv, TypeOK
  <2>2. Len(sorts) \in Nat \ {0}
    BY <1>1, <2>1, EmptySeq
  <2>3. Len(sorts) \in DOMAIN sorts /\ sorts' = [sorts EXCEPT ![Len(sorts)] = t]
    BY <1>4, <2>1, <2>2 DEF WithRunning
  <2>4. Len(sorts) \in DOMAIN sorts' /\ sorts'[Len(sorts)] = t
    BY <2>3, Zenon
  <2>5. \A k \in DOMAIN sorts' : sorts'[k] \in PendingSort
    BY <2>1
  <2> QED BY <2>4, <2>5
<1> QED BY <1>1, <1>3, <1>4, <1>5, TopMatches

LEMMA SortedMatches == ASSUME IInv, Matched, Sorted PROVE Matched'
<1>1. sorts # <<>> /\ program # <<>> /\ Frame.at = "resuming"
  BY InsideStep DEF Sorted
<1>2. /\ sorts \in Seq(PendingSort) /\ program \in Seq(SortFrame \cup ScopeFrame)
      /\ sorts' = Front(sorts) /\ program' = SubSeq(program, 1, Len(program) - 1)
  BY DEF IInv, TypeOK, Sorted, Front
<1>3. /\ Len(sorts) \in Nat \ {0} /\ Len(program) \in Nat \ {0}
      /\ Frame = program[Len(program)]
      /\ Len(sorts') = Len(sorts) - 1
      /\ \A k \in 1..(Len(sorts) - 1) : sorts'[k] = sorts[k]
  BY <1>1, <1>2, TopOf DEF Frame
<1>4. /\ Len(program) - 1 \in Nat /\ Len(program) = (Len(program) - 1) + 1
      /\ Len(program) - 1 \in 0..Len(program)
      /\ CallsIn(program, Len(program)) = Len(sorts) /\ program[Len(program)].at # "scope"
  BY <1>1, <1>3 DEF Matched
<1>5. /\ CallsIn(program, Len(program) - 1) \in Nat
      /\ CallsIn(program, (Len(program) - 1) + 1) = CallsIn(program, Len(program) - 1) + 1
  BY ONLY <1>4, CallsCounted
<1>6. Len(sorts) = CallsIn(program, Len(program) - 1) + 1
  BY ONLY <1>4, <1>5
<1>7. CallsIn(program, Len(program) - 1) = Len(sorts')
  BY ONLY <1>3, <1>5, <1>6
<1> QED BY <1>2, <1>3, <1>4, <1>7, MatchedCut

LEMMA LeaveMatches == ASSUME IInv, Matched, Leave PROVE Matched'
<1>1. /\ sorts \in Seq(PendingSort) /\ program \in Seq(SortFrame \cup ScopeFrame)
      /\ program # <<>> /\ Frame.at = "scope" /\ sorts' = truncate(sorts, Frame.mark)
      /\ program' = SubSeq(program, 1, Len(program) - 1) /\ Len(sorts) \in Nat
  BY DEF IInv, TypeOK, Leave, At, Front
<1>2. Len(program) \in Nat \ {0} /\ Frame = program[Len(program)]
  BY ONLY <1>1, TopOf DEF Frame
<1>3. /\ Len(program) - 1 \in Nat /\ Len(program) = (Len(program) - 1) + 1
      /\ Len(program) - 1 \in 0..Len(program) /\ program[Len(program)].at = "scope"
      /\ DOMAIN program = 1..Len(program) /\ Len(program) \in 1..Len(program)
  BY <1>1, <1>2
<1>4. Frame.mark = Len(sorts) /\ CallsIn(program, Len(program)) = Len(sorts)
  BY <1>2, <1>3 DEF Matched
<1>5. CallsIn(program, (Len(program) - 1) + 1) = CallsIn(program, Len(program) - 1)
  BY ONLY <1>3, CallsCounted
<1>6. sorts' = sorts
  <2>1. sorts' = SubSeq(sorts, 1, Len(sorts))
    BY <1>1, <1>4 DEF truncate
  <2> QED BY <1>1, <2>1, SubSeqFull
<1>7. Len(sorts') = CallsIn(program, Len(program) - 1)
  BY ONLY <1>3, <1>4, <1>5, <1>6
<1> QED BY <1>1, <1>3, <1>6, <1>7, MatchedCut

(* A frame is entered, and if it is a sort call, with a sort.              *)
LEMMA EnteredMatches ==
  ASSUME IInv, Matched, NEW f \in SortFrame \cup ScopeFrame, program' = Append(program, f),
         \A k \in 1..Len(sorts) : sorts'[k].vector = sorts[k].vector,
         IF f.at = "scope" THEN Len(sorts') = Len(sorts) /\ f.mark = Len(sorts)
         ELSE Len(sorts') = Len(sorts) + 1 /\ sorts'[Len(sorts) + 1].vector = f.vector
  PROVE  Matched'
<1> DEFINE n == Len(program)
<1>1. program \in Seq(SortFrame \cup ScopeFrame) /\ n \in Nat /\ Len(sorts) \in Nat
  BY DEF IInv, TypeOK
<1>2. /\ Len(program') = n + 1 /\ DOMAIN program' = 1..(n + 1)
      /\ \A k \in 1..n : program'[k] = program[k]
      /\ program'[n + 1] = f
  BY <1>1, AppendProperties
<1>3. CallsIn(program, n) = Len(sorts) /\ DOMAIN program = 1..n
  BY <1>1 DEF Matched
<1> HIDE DEF n
<1>4. ASSUME NEW k \in 0..n PROVE CallsIn(program', k) = CallsIn(program, k)
  <2>1. \A c \in 1..k : program'[c].at = "scope" <=> program[c].at = "scope"
    BY <1>1, <1>2, <1>4
  <2> QED BY <2>1, CallsSame
<1>5. CallsIn(program', n) = Len(sorts)
  BY <1>1, <1>3, <1>4
<1>6. CallsIn(program', n + 1) = IF f.at = "scope" THEN Len(sorts) ELSE Len(sorts) + 1
  <2>1. CallsIn(program', n + 1) =
          IF program'[n + 1].at = "scope" THEN CallsIn(program', n) ELSE CallsIn(program', n) + 1
    BY ONLY <1>1, CallsCounted
  <2> QED BY <1>2, <1>5, <2>1, Zenon
<1>7. Len(sorts') = CallsIn(program', Len(program'))
  BY <1>2, <1>6
<1>8. ASSUME NEW k \in DOMAIN program'
      PROVE  IF program'[k].at = "scope" THEN program'[k].mark = CallsIn(program', k)
             ELSE sorts'[CallsIn(program', k)].vector = program'[k].vector
  <2>1. CASE k = n + 1
    BY <1>2, <1>6, <2>1
  <2>2. CASE k # n + 1
    <3>1. k \in 1..n /\ k \in DOMAIN program /\ program'[k] = program[k]
      BY <1>1, <1>2, <1>3, <2>2
    <3>2. CallsIn(program', k) = CallsIn(program, k)
      BY <1>1, <1>4, <3>1
    <3>3. CASE program[k].at = "scope"
      BY <3>1, <3>2, <3>3 DEF Matched
    <3>4. CASE program[k].at # "scope"
      <4>1. CallsIn(program, k) \in 1..Len(sorts)
        BY <1>1, <1>3, <3>1, <3>4, CallsWithin
      <4>2. sorts[CallsIn(program, k)].vector = program[k].vector
        BY <3>1, <3>4 DEF Matched
      <4> QED BY <3>1, <3>2, <3>4, <4>1, <4>2
    <3> QED BY <3>3, <3>4
  <2> QED BY <2>1, <2>2
<1> QED BY <1>7, <1>8 DEF Matched

LEMMA TouchedVectors ==
  ASSUME IInv, NEW v \in Vectors
  PROVE  /\ Touched(sorts, v) \in Seq(PendingSort) /\ Len(Touched(sorts, v)) = Len(sorts)
         /\ \A k \in 1..Len(sorts) : Touched(sorts, v)[k].vector = sorts[k].vector
<1> DEFINE ss == Touched(sorts, v)
<1>1. sorts \in Seq(PendingSort) /\ Len(sorts) \in Nat
  BY DEF IInv, TypeOK
<1>2. ss = [k \in 1..Len(sorts) |-> IF sorts[k].vector = v
                                    THEN [sorts[k] EXCEPT !.trust = "changed"] ELSE sorts[k]]
  BY <1>1 DEF Touched
<1>3. ASSUME NEW k \in 1..Len(sorts)
      PROVE  ss[k] \in PendingSort /\ ss[k].vector = sorts[k].vector
  <2>1. sorts[k] \in PendingSort
    BY <1>1
  <2>2. ss[k] = sorts[k] \/ ss[k] = [sorts[k] EXCEPT !.trust = "changed"]
    BY <1>2
  <2> HIDE DEF ss
  <2> QED BY <2>1, <2>2 DEF PendingSort
<1>4. ss \in Seq(PendingSort) /\ Len(ss) = Len(sorts)
  BY <1>1, <1>2, <1>3
<1> QED BY <1>3, <1>4

LEMMA BeginMatches ==
  ASSUME IInv, Matched, NEW v \in Vectors, NEW descending \in BOOLEAN, Begin(v, descending)
  PROVE  Matched'
<1> DEFINE ss == Touched(sorts, v)
           s == [vector |-> v, descending |-> descending, ranges |-> new(Len(vectors[v])),
                 partition |-> NoPartition, pair |-> <<0, 0>>,
                 before |-> vectors[v], trust |-> "consistent"]
           f == [at |-> "next", vector |-> v, outcome |-> NotInteger]
<1>1. sorts' = Append(ss, s) /\ program' = Append(program, f)
  BY DEF Begin
<1>2. /\ ss \in Seq(PendingSort) /\ Len(ss) = Len(sorts)
      /\ \A k \in 1..Len(sorts) : ss[k].vector = sorts[k].vector
  BY TouchedVectors
<1>3. f \in SortFrame \cup ScopeFrame /\ f.at # "scope" /\ f.vector = v /\ s.vector = v
  BY DEF SortFrame, Outcomes, NotInteger
<1>4. sorts' \in Seq(PendingSort)
  <2>1. IInv'
    BY BeginKeeps
  <2> QED BY <2>1 DEF IInv, TypeOK
<1> HIDE DEF ss, s, f
<1>5. /\ Len(sorts') = Len(sorts) + 1
      /\ \A k \in 1..Len(sorts) : sorts'[k] = ss[k]
      /\ sorts'[Len(sorts) + 1] = s
  BY <1>1, <1>2
<1>6. \A k \in 1..Len(sorts) : sorts'[k].vector = sorts[k].vector
  BY <1>2, <1>5
<1>7. IF f.at = "scope" THEN Len(sorts') = Len(sorts) /\ f.mark = Len(sorts)
      ELSE Len(sorts') = Len(sorts) + 1 /\ sorts'[Len(sorts) + 1].vector = f.vector
  BY <1>3, <1>5
<1> QED BY ONLY IInv, Matched, <1>1, <1>3, <1>6, <1>7, EnteredMatches

LEMMA EnterMatches == ASSUME IInv, Matched, Enter PROVE Matched'
<1> DEFINE f == [at |-> "scope", mark |-> Len(sorts)]
<1>1. UNCHANGED sorts /\ program' = Append(program, f)
  BY DEF Enter
<1>2. f \in SortFrame \cup ScopeFrame /\ f.at = "scope" /\ f.mark = Len(sorts)
  BY DEF IInv, TypeOK, ScopeFrame
<1> HIDE DEF f
<1> QED BY <1>1, <1>2, EnteredMatches

LEMMA ChangeMatches == ASSUME IInv, Matched, NEW v \in Vectors, Change(v) PROVE Matched'
<1>1. sorts' = Touched(sorts, v) /\ UNCHANGED program
  BY DEF Change
<1>2. /\ Len(sorts') = Len(sorts)
      /\ \A k \in 1..Len(sorts) : sorts'[k].vector = sorts[k].vector
  BY <1>1, TouchedVectors
<1>3. DOMAIN program' = 1..Len(program) /\ Len(program') = Len(program)
  BY <1>1 DEF IInv, TypeOK
<1>4. \A k \in 1..Len(program) : program'[k] = program[k]
  BY <1>1
<1> QED BY <1>2, <1>3, <1>4, MatchedStays

LEMMA CallStepsMatch ==
  ASSUME IInv, Matched, Resume \/ Read \/ (\E outcome \in Outcomes : Answer(outcome))
  PROVE  Matched'
<1>1. program # <<>> /\ Frame.at \in {"next", "reading", "comparing"}
  BY DEF Resume, Read, Answer, At
<1>2. Frame = program[Len(program)] /\ Frame \in SortFrame /\ Frame.at # "scope"
  BY <1>1, TopFrame DEF IInv
<1>3. \E f \in SortFrame : f.vector = Frame.vector /\ program' = [program EXCEPT ![Len(program)] = f]
  <2>1. CASE Resume
    <3> DEFINE f == [program[Len(program)] EXCEPT !.at = "resuming", !.outcome = NotInteger]
    <3>1. program' = [program EXCEPT ![Len(program)] = f]
      BY <2>1 DEF Resume
    <3>2. f \in SortFrame /\ f.vector = Frame.vector
      BY <1>2 DEF SortFrame, NotInteger, Outcomes
    <3> HIDE DEF f
    <3> QED BY <3>1, <3>2
  <2>2. CASE Read
    <3> DEFINE f == [program[Len(program)] EXCEPT !.at = "comparing"]
    <3>1. program' = [program EXCEPT ![Len(program)] = f]
      BY <2>2 DEF Read, Proceed
    <3>2. f \in SortFrame /\ f.vector = Frame.vector
      BY <1>2 DEF SortFrame
    <3> HIDE DEF f
    <3> QED BY <3>1, <3>2
  <2>3. ASSUME NEW outcome \in Outcomes, Answer(outcome)
        PROVE  \E f \in SortFrame : /\ f.vector = Frame.vector
                                    /\ program' = [program EXCEPT ![Len(program)] = f]
    <3> DEFINE f == [program[Len(program)] EXCEPT !.at = "next", !.outcome = outcome]
    <3>1. program' = [program EXCEPT ![Len(program)] = f]
      BY <2>3 DEF Answer
    <3>2. f \in SortFrame /\ f.vector = Frame.vector
      BY <1>2 DEF SortFrame
    <3> HIDE DEF f
    <3> QED BY <3>1, <3>2
  <2> QED BY <2>1, <2>2, <2>3
<1>4. Len(sorts') = Len(sorts) /\ \A k \in 1..Len(sorts) : sorts'[k].vector = sorts[k].vector
  <2> DEFINE t == [Running EXCEPT !.trust = "arbitrary"]
  <2>1. UNCHANGED sorts \/ sorts' = WithRunning(t)
    <3>1. ASSUME NEW outcome \in Outcomes, Answer(outcome)
          PROVE  UNCHANGED sorts \/ sorts' = WithRunning(t)
      <4>1. CASE Running.trust = "consistent" /\ outcome # ByKeys(Running)
        BY <3>1, <4>1 DEF Answer
      <4>2. CASE ~(Running.trust = "consistent" /\ outcome # ByKeys(Running))
        BY <3>1, <4>2 DEF Answer
      <4> QED BY <4>1, <4>2
    <3> QED BY <3>1 DEF Resume, Read
  <2>2. CASE UNCHANGED sorts
    BY <2>2
  <2>3. CASE sorts # <<>> /\ sorts' = WithRunning(t)
    <3>1. sorts \in Seq(PendingSort)
      BY DEF IInv, TypeOK
    <3>2. /\ Len(sorts) \in Nat \ {0} /\ Running = sorts[Len(sorts)]
          /\ Running \in PendingSort
      BY <2>3, <3>1, TopOf DEF Running
    <3>3. t \in PendingSort /\ t.vector = Running.vector
      BY <3>2 DEF PendingSort
    <3> HIDE DEF t
    <3>4. Len(sorts) \in 1..Len(sorts)
      BY ONLY <3>2
    <3>5. /\ Len(sorts') = Len(sorts)
          /\ \A k \in 1..Len(sorts) : sorts'[k] = IF k = Len(sorts) THEN t ELSE sorts[k]
      BY <2>3, <3>1, <3>3, <3>4, ExceptSeq DEF WithRunning
    <3> QED BY <3>2, <3>3, <3>5
  <2>4. CASE sorts = <<>> /\ sorts' = WithRunning(t)
    BY <2>4 DEF WithRunning
  <2> HIDE DEF t
  <2> QED BY <2>1, <2>2, <2>3, <2>4
<1> QED BY <1>1, <1>2, <1>3, <1>4, CallMatches

LEMMA ErrorStepsMatch ==
  ASSUME IInv, Matched, WrongType \/ OutOfRange \/ Unreadable \/ Throw
  PROVE  Matched'
<1>1. CASE WrongType
  BY <1>1, ErrorMatches DEF WrongType, Mine, At
<1>2. CASE OutOfRange
  <2>1. sorts # <<>> /\ program # <<>> /\ Frame.at = "resuming"
    BY <1>2, InsideStep DEF OutOfRange
  <2> QED BY <1>2, <2>1, ErrorMatches DEF OutOfRange
<1>3. CASE Unreadable \/ Throw
  BY <1>3, ErrorMatches DEF Unreadable, Throw
<1> QED BY <1>1, <1>2, <1>3

LEMMA StepKeepsMatched == IInv /\ IInv' /\ Matched /\ [Next]_vars => Matched'
<1> SUFFICES ASSUME IInv, IInv', Matched, [Next]_vars PROVE Matched'
  OBVIOUS
<1>1. CASE UNCHANGED vars
  BY <1>1 DEF vars, Matched
<1>2. CASE \E v \in Vectors, descending \in BOOLEAN : Begin(v, descending)
  BY <1>2, BeginMatches
<1>3. CASE Resume \/ Read \/ (\E outcome \in Outcomes : Answer(outcome))
  BY <1>3, CallStepsMatch
<1>4. CASE TakeRange \/ AdvanceI \/ CompareI \/ AdvanceJ \/ CompareJ \/ Exchange \/ Split
  BY <1>4, StepsMatch
<1>5. CASE Sorted \/ Leave \/ Enter
  BY <1>5, SortedMatches, LeaveMatches, EnterMatches
<1>6. CASE WrongType \/ OutOfRange \/ Unreadable \/ Throw
  BY <1>6, ErrorStepsMatch
<1>7. CASE \E v \in Vectors : Change(v)
  BY <1>7, ChangeMatches
<1> QED BY <1>1, <1>2, <1>3, <1>4, <1>5, <1>6, <1>7 DEF Next

(***************************************************************************)
(* The theorems                                                            *)
(***************************************************************************)

(* The runtime's state keeps its shape, whatever the game does. *)
THEOREM TypeCorrect == Spec => []TypeOK
<1>1. IInv => TypeOK
  BY DEF IInv
<1> QED BY <1>1, Invariance, PTL

(* "Pending ranges are disjoint and non-empty, so `len` entries always      *)
(* suffice" (sort.rs, QuickSort::new), for vectors of any length and        *)
(* comparators that answer anything.                                       *)
THEOREM StackSuffices == Spec => []RangesFit
<1>1. IInv => RangesFit
  <2> SUFFICES ASSUME IInv, NEW s \in DOMAIN sorts
               PROVE  LET ranges == sorts[s].ranges
                          p == sorts[s].partition
                          len == Len(sorts[s].before)
                      IN /\ \A k \in DOMAIN ranges :
                              /\ 0 <= ranges[k][1] /\ ranges[k][1] <= ranges[k][2]
                              /\ ranges[k][2] < len
                              /\ \A below \in 1..(k - 1) : ranges[k][2] < ranges[below][1]
                              /\ p.phase # "none" => p.r < ranges[k][1]
                         /\ Len(ranges) <= len
    BY DEF RangesFit
  <2> DEFINE ranges == sorts[s].ranges
             p == sorts[s].partition
             len == Len(sorts[s].before)
  <2>1. sorts[s] \in PendingSort /\ SortOK(sorts[s], Len(vectors[sorts[s].vector]))
    <3>1. sorts \in Seq(PendingSort) /\ SortsOK
      BY DEF IInv, TypeOK
    <3>2. s \in 1..Len(sorts)
      BY <3>1
    <3> QED BY <3>1, <3>2 DEF SortsOK
  <2>2. ranges \in Seq(Int \X Int) /\ len \in Nat /\ Stacked(ranges, len)
    BY <2>1 DEF PendingSort, SortOK
  <2>3. \A k \in 1..Len(ranges) : p.phase # "none" => p.r < ranges[k][1]
    BY <2>1 DEF SortOK, PartitionFits
  <2> HIDE DEF ranges, p, len
  <2>4. ASSUME NEW k \in 1..Len(ranges)
        PROVE  /\ 0 <= ranges[k][1] /\ ranges[k][1] <= ranges[k][2] /\ ranges[k][2] < len
               /\ k <= len
               /\ \A below \in 1..(k - 1) : ranges[k][2] < ranges[below][1]
    <3>1. ranges[k] \in Int \X Int /\ k \in Nat \ {0}
      BY <2>2
    <3>2. /\ 0 <= ranges[k][1] /\ ranges[k][1] <= ranges[k][2] /\ ranges[k][2] <= len - k
          /\ \A below \in 1..(k - 1) : ranges[k][2] < ranges[below][1]
      BY <2>2 DEF Stacked
    <3> QED BY <2>2, <3>1, <3>2
  <2>5. Len(ranges) <= len
    <3>1. Len(ranges) \in Nat
      BY <2>2
    <3>2. CASE Len(ranges) = 0
      BY <2>2, <3>2
    <3>3. CASE Len(ranges) # 0
      <4>1. Len(ranges) \in 1..Len(ranges)
        BY ONLY <3>1, <3>3
      <4> QED BY <2>4, <4>1
    <3> QED BY <3>2, <3>3
  <2>6. DOMAIN ranges = 1..Len(ranges)
    BY <2>2
  <2> QED BY <2>3, <2>4, <2>5, <2>6 DEF ranges, p, len
<1> QED BY <1>1, Invariance, PTL

(* However the comparator answers, a sort nobody disturbs compares and      *)
(* exchanges only elements its vector has (sort.rs, resume), for vectors of *)
(* any length: it cannot fail.                                             *)
THEOREM Inside == Spec => []StaysInside
<1>1. IInv => StaysInside
  <2> SUFFICES ASSUME IInv, NEW s \in DOMAIN sorts, sorts[s].trust # "changed"
               PROVE  LET elements == vectors[sorts[s].vector]
                          p == sorts[s].partition
                      IN /\ awaiting(sorts[s]) => /\ Has(elements, sorts[s].pair[1])
                                                  /\ Has(elements, sorts[s].pair[2])
                         /\ p.phase = "Exchange" => /\ Has(elements, p.i)
                                                    /\ Has(elements, p.j)
                                                    /\ Has(elements, p.r)
    BY DEF StaysInside
  <2> DEFINE elements == vectors[sorts[s].vector]
             p == sorts[s].partition
             pair == sorts[s].pair
             ranges == sorts[s].ranges
             len == Len(sorts[s].before)
  <2>1. sorts[s] \in PendingSort /\ SortOK(sorts[s], Len(elements))
    <3>1. sorts \in Seq(PendingSort) /\ SortsOK
      BY DEF IInv, TypeOK
    <3>2. s \in 1..Len(sorts)
      BY <3>1
    <3> QED BY <3>1, <3>2 DEF SortsOK
  <2>2. /\ elements \in Seq(Keys) /\ Len(elements) = len /\ len \in Nat
        /\ p \in Partition /\ Len(ranges) \in Nat
    BY <2>1 DEF IInv, TypeOK, PendingSort, SortOK
  <2>3. ASSUME p.phase # "none"
        PROVE  /\ p.l \in Int /\ 0 <= p.l
               /\ p.r \in Int /\ 0 <= p.r /\ p.r < len
    <3>1. 0 <= p.l /\ p.l < p.r /\ p.r <= len - Len(ranges) - 1
      BY <2>1, <2>3 DEF SortOK, PartitionFits
    <3>2. p.l \in Int /\ p.r \in Int
      BY <2>2 DEF Partition
    <3> HIDE DEF p, len, ranges
    <3> QED BY <2>2, <3>1, <3>2
  <2>4. ASSUME NEW n \in Int, 0 <= n, n < len PROVE Has(elements, n)
    BY <2>2, <2>4 DEF Has
  <2>5. CASE p.phase = "CompareI"
    <3>1. p.l <= p.i /\ p.i < p.r /\ pair = <<p.i, p.r>>
      BY <2>1, <2>5 DEF SortOK, PositionsOK
    <3>2. p.i \in Int
      BY <2>2 DEF Partition
    <3>3. p.l \in Int /\ 0 <= p.l /\ p.r \in Int /\ 0 <= p.r /\ p.r < len
      BY <2>3, <2>5
    <3>4. Has(elements, p.i) /\ Has(elements, p.r)
      <4> HIDE DEF p, len, elements
      <4>1. 0 <= p.i /\ p.i < len
        BY <2>2, <3>1, <3>2, <3>3
      <4> QED BY <2>4, <3>2, <3>3, <4>1
    <3> QED BY <2>5, <3>1, <3>4
  <2>6. CASE p.phase = "CompareJ"
    <3>1. p.l < p.j /\ p.j < p.r /\ pair = <<p.j, p.r>>
      BY <2>1, <2>6 DEF SortOK, PositionsOK
    <3>2. p.j \in Int
      BY <2>2 DEF Partition
    <3>3. p.l \in Int /\ 0 <= p.l /\ p.r \in Int /\ 0 <= p.r /\ p.r < len
      BY <2>3, <2>6
    <3>4. Has(elements, p.j) /\ Has(elements, p.r)
      <4> HIDE DEF p, len, elements
      <4>1. 0 <= p.j /\ p.j < len
        BY <2>2, <3>1, <3>2, <3>3
      <4> QED BY <2>4, <3>2, <3>3, <4>1
    <3> QED BY <2>6, <3>1, <3>4
  <2>7. CASE p.phase = "Exchange"
    <3>1. p.l <= p.i /\ p.i <= p.r /\ p.l <= p.j /\ p.j < p.r
      BY <2>1, <2>7 DEF SortOK, PositionsOK
    <3>2. p.i \in Int /\ p.j \in Int
      BY <2>2 DEF Partition
    <3>3. p.l \in Int /\ 0 <= p.l /\ p.r \in Int /\ 0 <= p.r /\ p.r < len
      BY <2>3, <2>7
    <3>4. Has(elements, p.i) /\ Has(elements, p.j) /\ Has(elements, p.r)
      <4> HIDE DEF p, len, elements
      <4>1. 0 <= p.i /\ p.i < len /\ 0 <= p.j /\ p.j < len
        BY <2>2, <3>1, <3>2, <3>3
      <4> QED BY <2>4, <3>2, <3>3, <4>1
    <3> QED BY <2>7, <3>4 DEF awaiting
  <2>8. CASE p.phase \notin {"CompareI", "CompareJ", "Exchange"}
    BY <2>8 DEF awaiting
  <2> QED BY <2>5, <2>6, <2>7, <2>8
<1> QED BY <1>1, Invariance, PTL
(* Whatever a comparator answers, and for vectors of any length, the stack   *)
(* of ranges suffices, and a sort whose vector nobody else changed compares  *)
(* and exchanges only elements there are: it cannot fail (sort.rs resume).   *)
THEOREM CannotFail == Spec => []NeverFails
<1>1. RangesFit /\ StaysInside => NeverFails
  BY DEF NeverFails
<1> QED BY <1>1, StackSuffices, Inside, PTL

(* The runtime's stack of sorts and the sort calls of the program are in   *)
(* step (native_objects.rs, operations 65 and 112 to 114, around the loop   *)
(* of ir.rs): for any depth of nested sorts and scopes, whatever errors     *)
(* leave a sort behind and whatever comparators throw, every call steps its *)
(* own sort, and every scope finds the sorts it began with.                *)
THEOREM InStep == Spec => []Matched
<1>1. Init => Matched
  <2> SUFFICES ASSUME Init PROVE Matched
    OBVIOUS
  <2>1. sorts = <<>> /\ program = <<>> /\ Len(sorts) = 0 /\ Len(program) = 0
    BY DEF Init
  <2>2. CallsIn(program, 0) = 0
    BY CallsCounted
  <2> QED BY <2>1, <2>2 DEF Matched
<1>2. IInv /\ IInv' /\ Matched /\ [Next]_vars => Matched'
  BY StepKeepsMatched
<1> QED BY <1>1, <1>2, Invariance, PTL DEF Spec


(***************************************************************************)
(* The inductive invariant, on top of IInv of SortProofs.                  *)
(*                                                                         *)
(* Of two elements of a sort in progress the earlier one is in order before *)
(* the later one, unless both still lie in one range or in the partition at *)
(* work: Ordered.  Inside the partition, what is left of i belongs before   *)
(* the pivot and what is right of j behind it: Parted.  Kept says that only *)
(* places have changed.  Alone: of the suspended sorts of one vector only   *)
(* the innermost may still be undisturbed, so that no sort's exchanges are  *)
(* seen by another that counts on its elements.  Answered: what the        *)
(* comparator of a consistent sort answered is still what the keys say when *)
(* the step it was for looks at it.                                        *)
(***************************************************************************)
Before(descending, a, b) == IF descending THEN a >= b ELSE a <= b

(* The element at a position belongs on the left, on the right of the pivot.*)
Low(s, elements, x) == Before(s.descending, elements[x + 1], elements[s.partition.r + 1])
High(s, elements, x) == Before(s.descending, elements[s.partition.r + 1], elements[x + 1])

Parted(s, elements) ==
  LET p == s.partition
  IN /\ \A x \in p.l..(p.i - 1) : Low(s, elements, x)
     /\ p.phase = "AdvanceI" /\ p.l <= p.i => Low(s, elements, p.i)
     /\ \A x \in (p.j + 1)..(p.r - 1) : High(s, elements, x)
     /\ p.phase \in {"AdvanceI", "CompareI", "AdvanceJ"} /\ p.j < p.r => High(s, elements, p.j)
     /\ p.phase \in {"AdvanceJ", "CompareJ", "Exchange"} => High(s, elements, p.i)
     /\ p.phase = "Exchange" /\ p.j # p.l => Low(s, elements, p.j)

(* Indices a and b of a vector lie in one range, or in the partition.       *)
InRange(ranges, a, b) ==
  \E k \in 1..Len(ranges) : ranges[k][1] < a /\ b - 1 <= ranges[k][2]
InPartition(p, a, b) == p.phase # "none" /\ p.l < a /\ b - 1 <= p.r

Ordered(s, elements) ==
  \A a, b \in 1..Len(elements) :
    a < b => \/ Before(s.descending, elements[a], elements[b])
             \/ InRange(s.ranges, a, b)
             \/ InPartition(s.partition, a, b)

Kept(s, elements) == \A key \in Keys : Count(elements, key) = Count(s.before, key)

SoFar(s, elements) ==
  /\ s.trust # "changed" => Kept(s, elements)
  /\ s.trust = "consistent" => /\ Ordered(s, elements)
                               /\ s.partition.phase # "none" => Parted(s, elements)

Sound == \A k \in 1..Len(sorts) : SoFar(sorts[k], vectors[sorts[k].vector])

Alone ==
  \A k, m \in 1..Len(sorts) :
    k < m /\ sorts[k].vector = sorts[m].vector => sorts[k].trust = "changed"

Asked == sorts # <<>> /\ awaiting(Running) /\ Running.trust = "consistent"

Directed(sort) == IF sort.descending THEN -ByKeys(sort) ELSE ByKeys(sort)

Answered ==
  /\ At("next") /\ Asked => Frame.outcome = ByKeys(Running)
  /\ At("resuming") /\ Asked => order = Directed(Running)

OInv == IInv /\ Sound /\ Alone /\ Answered

(***************************************************************************)
(* Exchanging two elements                                                 *)
(***************************************************************************)
LEMMA ExchangedValues ==
  ASSUME NEW e \in Seq(Keys), NEW a \in Int, NEW b \in Int, CanExchange(e, a, b)
  PROVE  \A n \in 1..Len(e) :
           Exchanged(e, a, b)[n] = IF n = a + 1 THEN e[b + 1] ELSE IF n = b + 1 THEN e[a + 1]
                                   ELSE e[n]
<1>1. /\ a + 1 \in 1..Len(e) /\ b + 1 \in 1..Len(e)
      /\ e[a + 1] \in Keys /\ e[b + 1] \in Keys
  BY DEF CanExchange, Has
<1> DEFINE once == [e EXCEPT ![b + 1] = e[a + 1]]
<1>2. /\ once \in Seq(Keys) /\ Len(once) = Len(e)
      /\ \A n \in 1..Len(e) : once[n] = IF n = b + 1 THEN e[a + 1] ELSE e[n]
  BY <1>1, ExceptSeq
<1>3. Exchanged(e, a, b) = [once EXCEPT ![a + 1] = e[b + 1]]
  BY DEF Exchanged
<1> HIDE DEF once
<1>4. \A n \in 1..Len(e) : Exchanged(e, a, b)[n] = IF n = a + 1 THEN e[b + 1] ELSE once[n]
  BY <1>1, <1>2, <1>3, ExceptSeq
<1> QED BY <1>2, <1>4

LEMMA ExchangedCounts ==
  ASSUME NEW e \in Seq(Keys), NEW a \in Int, NEW b \in Int, CanExchange(e, a, b), NEW key
  PROVE  Count(Exchanged(e, a, b), key) = Count(e, key)
<1> DEFINE g == Exchanged(e, a, b)
           S == {n \in 1..Len(e) : e[n] = key}
           T == {n \in 1..Len(e) : g[n] = key}
           swap == [n \in S |-> IF n = a + 1 THEN b + 1 ELSE IF n = b + 1 THEN a + 1 ELSE n]
<1>1. /\ a + 1 \in 1..Len(e) /\ b + 1 \in 1..Len(e) /\ Len(e) \in Nat
      /\ \A n \in 1..Len(e) : g[n] = IF n = a + 1 THEN e[b + 1] ELSE IF n = b + 1 THEN e[a + 1]
                                     ELSE e[n]
  BY ExchangedValues DEF CanExchange, Has
<1>2. g \in Seq(Keys) /\ Len(g) = Len(e)
  BY ExchangedKeeps
<1> HIDE DEF g
<1>3. swap \in [S -> T]
  BY <1>1
<1>4. \A m, n \in S : swap[m] = swap[n] => m = n
  BY <1>1
<1>5. ASSUME NEW t \in T PROVE \E n \in S : swap[n] = t
  <2>1. CASE t = a + 1
    BY <1>1, <2>1
  <2>2. CASE t = b + 1
    BY <1>1, <2>2
  <2>3. CASE t # a + 1 /\ t # b + 1
    BY <1>1, <2>3
  <2> QED BY <2>1, <2>2, <2>3
<1>6. IsFiniteSet(S)
  <2>1. IsFiniteSet(1..Len(e))
    BY <1>1, FS_Interval
  <2> QED BY <2>1, FS_Subset
<1>7. ExistsBijection(S, T)
  <2> HIDE DEF swap, S, T
  <2> QED BY <1>3, <1>4, <1>5, Fun_IsBij DEF ExistsBijection
<1>8. Cardinality(T) = Cardinality(S)
  <2> HIDE DEF S, T
  <2> QED BY <1>6, <1>7, FS_Bijection
<1>9. Count(e, key) = Cardinality(S) /\ Count(g, key) = Cardinality(T)
  <2>1. DOMAIN e = 1..Len(e) /\ DOMAIN g = 1..Len(e)
    BY <1>2
  <2> QED BY <2>1, Zenon DEF Count
<1> QED BY <1>8, <1>9 DEF g

(***************************************************************************)
(* The order of the keys                                                   *)
(***************************************************************************)
LEMMA BeforeOrders ==
  ASSUME NEW d, NEW a \in Int, NEW b \in Int, NEW c \in Int
  PROVE  /\ Before(d, a, a)
         /\ Before(d, a, b) /\ Before(d, b, c) => Before(d, a, c)
BY DEF Before

(***************************************************************************)
(* One sort, its elements and what a step makes of them                    *)
(***************************************************************************)

(* What a sort has and its partition, while it is undisturbed.              *)
LEMMA Bounds ==
  ASSUME NEW s \in PendingSort, NEW e \in Seq(Keys), SortOK(s, Len(e)),
         s.trust # "changed", s.partition.phase # "none"
  PROVE  /\ s.partition \in Partition
         /\ s.partition.l \in Int /\ s.partition.r \in Int
         /\ s.partition.i \in Int /\ s.partition.j \in Int
         /\ s.ranges \in Seq(Int \X Int)
         /\ 0 <= s.partition.l /\ s.partition.l < s.partition.r /\ s.partition.r < Len(e)
         /\ \A k \in 1..Len(s.ranges) : s.partition.r < s.ranges[k][1]
         /\ \A x \in s.partition.l..s.partition.r : x + 1 \in 1..Len(e) /\ e[x + 1] \in Int
<1>1. /\ s.partition \in Partition /\ s.ranges \in Seq(Int \X Int)
      /\ Len(s.ranges) \in Nat /\ Len(e) \in Nat
      /\ \A n \in 1..Len(e) : e[n] \in Int
  <2>1. s.partition \in Partition /\ s.ranges \in Seq(Int \X Int) /\ Len(s.ranges) \in Nat
    BY DEF PendingSort
  <2>2. Len(e) \in Nat /\ \A n \in 1..Len(e) : e[n] \in Keys
    OBVIOUS
  <2>3. Keys \subseteq Int
    BY SortAssumption, Zenon
  <2> QED BY ONLY <2>1, <2>2, <2>3
<1>2. /\ s.partition.l \in Int /\ s.partition.r \in Int
      /\ s.partition.i \in Int /\ s.partition.j \in Int
  BY <1>1 DEF Partition
<1>3. /\ 0 <= s.partition.l /\ s.partition.l < s.partition.r
      /\ s.partition.r <= Len(e) - Len(s.ranges) - 1
      /\ \A k \in 1..Len(s.ranges) : s.partition.r < s.ranges[k][1]
  BY DEF SortOK, PartitionFits
<1>4. s.partition.r < Len(e)
  BY ONLY <1>1, <1>2, <1>3
<1>5. \A x \in s.partition.l..s.partition.r : x + 1 \in 1..Len(e) /\ e[x + 1] \in Int
  BY ONLY <1>1, <1>2, <1>3, <1>4
<1> QED BY <1>1, <1>2, <1>3, <1>4, <1>5

(* Elements that change places inside the partition stay in order with those*)
(* outside of it.                                                          *)
LEMMA OutsideOrdered ==
  ASSUME NEW s \in PendingSort, NEW e \in Seq(Keys), SortOK(s, Len(e)),
         s.trust # "changed", s.partition.phase # "none", Ordered(s, e),
         NEW f, NEW inside, inside = (s.partition.l + 1)..(s.partition.r + 1),
         \A n \in 1..Len(e) : n \notin inside => f[n] = e[n],
         \A n \in inside : \E x \in inside : f[n] = e[x],
         NEW a \in 1..Len(e), NEW b \in 1..Len(e), a < b, ~(a \in inside /\ b \in inside)
  PROVE  Before(s.descending, f[a], f[b]) \/ InRange(s.ranges, a, b)
<1> DEFINE l == s.partition.l
           r == s.partition.r
<1>1. /\ l \in Int /\ r \in Int /\ 0 <= l /\ l < r /\ r < Len(e) /\ Len(e) \in Nat
      /\ s.ranges \in Seq(Int \X Int)
      /\ \A k \in 1..Len(s.ranges) : r < s.ranges[k][1]
      /\ inside = (l + 1)..(r + 1)
  <2>1. Len(e) \in Nat
    OBVIOUS
  <2> QED BY <2>1, Bounds, Zenon
<1>2. \A x, y \in 1..Len(e) :
        x < y => \/ Before(s.descending, e[x], e[y])
                 \/ \E k \in 1..Len(s.ranges) : s.ranges[k][1] < x /\ y - 1 <= s.ranges[k][2]
                 \/ l < x /\ y - 1 <= r
  BY DEF Ordered, InRange, InPartition
<1> HIDE DEF l, r
<1> DEFINE rs == s.ranges
<1>3. \A k \in 1..Len(rs) : rs[k][1] \in Int /\ rs[k][2] \in Int /\ r < rs[k][1]
  <2>1. rs \in Seq(Int \X Int) /\ \A k \in 1..Len(rs) : r < rs[k][1]
    BY <1>1
  <2> HIDE DEF rs
  <2>2. \A k \in 1..Len(rs) : rs[k] \in Int \X Int
    BY ONLY <2>1
  <2> QED BY ONLY <2>1, <2>2
<1>4. CASE a \notin inside /\ b \notin inside
  <2>1. f[a] = e[a] /\ f[b] = e[b]
    BY <1>4
  <2>2. ~(l < a /\ b - 1 <= r)
    BY ONLY <1>1, <1>4, a < b, a \in 1..Len(e), b \in 1..Len(e)
  <2> QED BY <1>2, <2>1, <2>2 DEF InRange
<1>5. CASE a \in inside /\ b \notin inside
  <2>1. PICK x \in inside : f[a] = e[x]
    BY <1>5
  <2>2. f[b] = e[b] /\ x \in 1..Len(e) /\ x < b /\ ~(b - 1 <= r) /\ x <= r + 1
    BY ONLY <1>1, <1>5, <2>1, a < b, b \in 1..Len(e), a \in 1..Len(e),
            \A n \in 1..Len(e) : n \notin inside => f[n] = e[n]
  <2>3. \A k \in 1..Len(rs) : ~(rs[k][1] < x)
    <3>1. x \in Int /\ x <= r + 1 /\ r \in Int
      BY ONLY <1>1, <2>1, <2>2
    <3> HIDE DEF rs
    <3> QED BY ONLY <1>3, <3>1
  <2> QED BY <1>2, <2>1, <2>2, <2>3
<1>6. CASE a \notin inside /\ b \in inside
  <2>1. PICK x \in inside : f[b] = e[x]
    BY <1>6
  <2>2. f[a] = e[a] /\ x \in 1..Len(e) /\ a < x /\ ~(l < a) /\ a <= r + 1
    BY ONLY <1>1, <1>6, <2>1, a < b, b \in 1..Len(e), a \in 1..Len(e),
            \A n \in 1..Len(e) : n \notin inside => f[n] = e[n]
  <2>3. \A k \in 1..Len(rs) : ~(rs[k][1] < a)
    <3>1. a \in Int /\ a <= r + 1 /\ r \in Int
      BY ONLY <1>1, <2>1, <2>2, a \in 1..Len(e)
    <3> HIDE DEF rs
    <3> QED BY ONLY <1>3, <3>1
  <2> QED BY <1>2, <2>1, <2>2, <2>3
<1> QED BY <1>4, <1>5, <1>6

(* Only the positions of the partition change, or what it is about to do.   *)
LEMMA PositionsSoFar ==
  ASSUME NEW s \in PendingSort, s.partition.phase # "none", NEW e, SoFar(s, e),
         NEW i, NEW j, NEW phase, phase # "none", NEW pair, NEW t,
         t = WithPositions(s, i, j, phase, pair), t.trust = "consistent" => Parted(t, e)
  PROVE  SoFar(t, e)
<1>1. /\ t.trust = s.trust /\ t.before = s.before /\ t.ranges = s.ranges
      /\ t.descending = s.descending /\ t.partition.phase = phase
      /\ t.partition.l = s.partition.l /\ t.partition.r = s.partition.r
  BY DEF WithPositions, PendingSort, Partition
<1>2. ASSUME s.trust # "changed" PROVE Kept(t, e)
  BY <1>1, <1>2 DEF SoFar, Kept
<1>3. ASSUME s.trust = "consistent" PROVE Ordered(t, e)
  BY <1>1, <1>3 DEF SoFar, Ordered, InPartition
<1> QED BY <1>1, <1>2, <1>3 DEF SoFar

(* The top range becomes the partition, or is dropped if it is one element. *)
LEMMA RangeSoFar ==
  ASSUME NEW s \in PendingSort, s.partition.phase = "none", s.ranges # <<>>,
         NEW e \in Seq(Keys), SoFar(s, e), NEW p \in Partition, NEW t,
         t = WithPartition(s, p),
         \/ p.phase = "none" /\ Last(s.ranges)[2] <= Last(s.ranges)[1]
         \/ /\ p.phase = "AdvanceI"
            /\ p.l = Last(s.ranges)[1] /\ p.r = Last(s.ranges)[2] /\ p.l < p.r
            /\ p.i = p.l - 1 /\ p.j = p.r /\ p.pivot = p.r
  PROVE  SoFar(t, e)
<1> DEFINE rs == s.ranges
           rest == Front(s.ranges)
<1>1. /\ t.trust = s.trust /\ t.before = s.before /\ t.ranges = rest
      /\ t.descending = s.descending /\ t.partition = p
  BY DEF WithPartition, PendingSort
<1>2. /\ rs \in Seq(Int \X Int) /\ Len(rs) \in Nat \ {0} /\ Last(rs) = rs[Len(rs)]
      /\ Len(rest) = Len(rs) - 1 /\ \A k \in 1..(Len(rs) - 1) : rest[k] = rs[k]
  <2>1. rs \in Seq(Int \X Int)
    BY DEF PendingSort
  <2> QED BY <2>1, TopOf
<1>3. ASSUME s.trust # "changed" PROVE Kept(t, e)
  BY <1>1, <1>3 DEF SoFar, Kept
<1>4. ASSUME s.trust = "consistent" PROVE Ordered(t, e)
  <2> SUFFICES ASSUME NEW a \in 1..Len(e), NEW b \in 1..Len(e), a < b,
                      ~Before(s.descending, e[a], e[b])
               PROVE  InRange(rest, a, b) \/ InPartition(p, a, b)
    BY <1>1 DEF Ordered
  <2>1. InRange(rs, a, b)
    BY <1>4 DEF SoFar, Ordered, InPartition
  <2>2. PICK k \in 1..Len(rs) : rs[k][1] < a /\ b - 1 <= rs[k][2]
    BY <2>1 DEF InRange
  <2> HIDE DEF rs, rest
  <2>3. CASE k # Len(rs)
    <3>1. k \in 1..Len(rest) /\ rest[k] = rs[k]
      BY ONLY <1>2, <2>3
    <3> QED BY <2>2, <3>1 DEF InRange
  <2>4. CASE k = Len(rs)
    <3>1. Last(rs)[1] < a /\ b - 1 <= Last(rs)[2]
      BY <1>2, <2>2, <2>4
    <3>2. Last(rs)[1] \in Int /\ Last(rs)[2] \in Int
      BY ONLY <1>2
    <3>3. a \in Int /\ b \in Int
      OBVIOUS
    <3>4. ~(Last(rs)[2] <= Last(rs)[1])
      BY ONLY <3>1, <3>2, <3>3, a < b
    <3> QED BY <3>1, <3>4 DEF InPartition, rs
  <2> QED BY <2>3, <2>4
<1>5. ASSUME p.phase # "none" PROVE Parted(t, e)
  <2>1. /\ p.phase = "AdvanceI" /\ p.l \in Int /\ p.r \in Int
        /\ p.i = p.l - 1 /\ p.j = p.r
    BY <1>5 DEF Partition
  <2>2. p.l..(p.i - 1) = {} /\ (p.j + 1)..(p.r - 1) = {} /\ ~(p.l <= p.i) /\ ~(p.j < p.r)
    BY ONLY <2>1
  <2> QED BY <1>1, <2>1, <2>2 DEF Parted
<1> QED BY <1>1, <1>3, <1>4, <1>5 DEF SoFar

(* i and j have not met: what they stopped at changes sides.               *)
LEMMA ExchangeSoFar ==
  ASSUME NEW s \in PendingSort, NEW e \in Seq(Keys), SortOK(s, Len(e)), SoFar(s, e),
         s.partition.phase = "Exchange", s.partition.i < s.partition.j,
         CanExchange(e, s.partition.i, s.partition.j), NEW f,
         f = Exchanged(e, s.partition.i, s.partition.j), NEW t,
         t = WithPositions(s, s.partition.i, s.partition.j, "AdvanceI", s.pair)
  PROVE  SoFar(t, f)
<1> DEFINE l == s.partition.l
           r == s.partition.r
           i == s.partition.i
           j == s.partition.j
           d == s.descending
           inside == (l + 1)..(r + 1)
<1>1. /\ t.trust = s.trust /\ t.before = s.before /\ t.ranges = s.ranges
      /\ t.descending = d /\ t.partition.phase = "AdvanceI"
      /\ t.partition.l = l /\ t.partition.r = r /\ t.partition.i = i /\ t.partition.j = j
  BY DEF WithPositions, PendingSort, Partition
<1>2. f \in Seq(Keys) /\ Len(f) = Len(e)
  BY ExchangedKeeps
<1>3. CASE s.trust = "changed"
  BY <1>1, <1>3 DEF SoFar
<1>4. CASE s.trust # "changed"
  <2>1. /\ l \in Int /\ r \in Int /\ i \in Int /\ j \in Int
        /\ 0 <= l /\ l < r /\ r < Len(e) /\ Len(e) \in Nat
        /\ \A x \in l..r : x + 1 \in 1..Len(e) /\ e[x + 1] \in Int
    <3>1. Len(e) \in Nat
      OBVIOUS
    <3> QED BY <1>4, <3>1, Bounds, Zenon
  <2>2. l <= i /\ i <= r /\ l <= j /\ j < r /\ i < j
    BY DEF SortOK, PositionsOK
  <2>3. \A n \in 1..Len(e) :
          f[n] = IF n = i + 1 THEN e[j + 1] ELSE IF n = j + 1 THEN e[i + 1] ELSE e[n]
    <3>1. /\ e \in Seq(Keys) /\ i \in Int /\ j \in Int /\ CanExchange(e, i, j)
          /\ f = Exchanged(e, i, j)
      BY <2>1
    <3> HIDE DEF i, j
    <3> QED BY ONLY <3>1, ExchangedValues
  <2>4. Kept(t, f)
    <3>1. Kept(s, e)
      BY <1>4 DEF SoFar
    <3>2. \A key \in Keys : Count(f, key) = Count(e, key)
      BY <2>1, ExchangedCounts
    <3> QED BY <1>1, <3>1, <3>2 DEF Kept
  <2>5. ASSUME s.trust = "consistent" PROVE Ordered(t, f) /\ Parted(t, f)
    <3>1. Ordered(s, e) /\ Parted(s, e)
      BY <2>5 DEF SoFar
    <3>2. /\ \A x \in l..(i - 1) : Before(d, e[x + 1], e[r + 1])
          /\ \A x \in (j + 1)..(r - 1) : Before(d, e[r + 1], e[x + 1])
          /\ Before(d, e[r + 1], e[i + 1])
          /\ j # l => Before(d, e[j + 1], e[r + 1])
      BY <3>1 DEF Parted, Low, High
    <3>3. /\ \A n \in 1..Len(e) : n \notin inside => f[n] = e[n]
          /\ \A n \in inside : \E x \in inside : f[n] = e[x]
      <4> HIDE DEF l, r, i, j
      <4>1. ASSUME NEW n \in 1..Len(e), n \notin inside PROVE f[n] = e[n]
        BY ONLY <2>1, <2>2, <2>3, <4>1
      <4>2. ASSUME NEW n \in inside PROVE \E x \in inside : f[n] = e[x]
        <5>1. n \in 1..Len(e)
          BY ONLY <2>1, <4>2
        <5>2. i + 1 \in inside /\ j + 1 \in inside
          BY ONLY <2>1, <2>2
        <5> QED BY ONLY <2>3, <4>2, <5>1, <5>2
      <4> QED BY <4>1, <4>2
    <3>4. Ordered(t, f)
      <4> SUFFICES ASSUME NEW a \in 1..Len(e), NEW b \in 1..Len(e), a < b
                   PROVE  \/ Before(d, f[a], f[b])
                          \/ InRange(s.ranges, a, b)
                          \/ InPartition(t.partition, a, b)
        BY <1>1, <1>2, Zenon DEF Ordered
      <4>1. CASE a \in inside /\ b \in inside
        <5>1. l < a /\ b - 1 <= r
          BY ONLY <2>1, <4>1
        <5> QED BY <1>1, <5>1 DEF InPartition
      <4>2. CASE ~(a \in inside /\ b \in inside)
        BY <1>4, <3>1, <3>3, <4>2, OutsideOrdered
      <4> QED BY <4>1, <4>2
    <3>5. Parted(t, f)
      <4> HIDE DEF l, r, i, j, d
      <4>1. f[r + 1] = e[r + 1] /\ f[i + 1] = e[j + 1] /\ f[j + 1] = e[i + 1]
        BY ONLY <2>1, <2>2, <2>3
      <4>2. ASSUME NEW x \in l..(i - 1) PROVE Before(d, f[x + 1], f[r + 1])
        <5>1. f[x + 1] = e[x + 1]
          BY ONLY <2>1, <2>2, <2>3, <4>2
        <5> QED BY <3>2, <4>1, <5>1
      <4>3. ASSUME NEW x \in (j + 1)..(r - 1) PROVE Before(d, f[r + 1], f[x + 1])
        <5>1. f[x + 1] = e[x + 1]
          BY ONLY <2>1, <2>2, <2>3, <4>3
        <5> QED BY <3>2, <4>1, <5>1
      <4>4. Before(d, f[i + 1], f[r + 1]) /\ Before(d, f[r + 1], f[j + 1])
        <5>1. j # l
          BY ONLY <2>1, <2>2
        <5> QED BY <3>2, <4>1, <5>1
      <4> QED BY <1>1, <4>2, <4>3, <4>4 DEF Parted, Low, High
    <3> QED BY <3>4, <3>5
  <2> QED BY <1>1, <2>4, <2>5 DEF SoFar
<1> QED BY <1>3, <1>4

(* Where the two halves are on the stack. *)
LEMMA HalvesHold ==
  ASSUME NEW ranges \in Seq(Int \X Int), NEW p \in Partition
  PROVE  /\ \A a, b : InRange(ranges, a, b) => InRange(Halves(ranges, p), a, b)
         /\ \A a, b : p.i < p.r /\ p.i + 1 < a /\ b - 1 <= p.r =>
                      InRange(Halves(ranges, p), a, b)
         /\ \A a, b : p.i > p.l /\ p.l < a /\ b - 1 <= p.i - 1 =>
                      InRange(Halves(ranges, p), a, b)
<1> DEFINE more == IF p.i < p.r THEN Append(ranges, <<p.i + 1, p.r>>) ELSE ranges
<1>1. /\ p.i \in Int /\ p.r \in Int /\ p.l \in Int
      /\ <<p.i + 1, p.r>> \in Int \X Int /\ <<p.l, p.i - 1>> \in Int \X Int
  BY DEF Partition
<1>2. /\ more \in Seq(Int \X Int)
      /\ Len(ranges) <= Len(more) /\ \A k \in 1..Len(ranges) : more[k] = ranges[k]
      /\ p.i < p.r => Len(more) \in 1..Len(more) /\ more[Len(more)] = <<p.i + 1, p.r>>
  <2>1. CASE p.i < p.r
    BY <1>1, <2>1, AppendProperties
  <2>2. CASE ~(p.i < p.r)
    BY <2>2
  <2> QED BY <2>1, <2>2
<1>3. Halves(ranges, p) = IF p.i > p.l THEN Append(more, <<p.l, p.i - 1>>) ELSE more
  BY DEF Halves
<1> HIDE DEF more
<1>4. /\ Len(more) \in Nat
      /\ Len(more) <= Len(Halves(ranges, p)) /\ Len(Halves(ranges, p)) \in Nat
      /\ \A k \in 1..Len(more) : Halves(ranges, p)[k] = more[k]
      /\ p.i > p.l => /\ Len(Halves(ranges, p)) \in 1..Len(Halves(ranges, p))
                      /\ Halves(ranges, p)[Len(Halves(ranges, p))] = <<p.l, p.i - 1>>
  <2>1. CASE p.i > p.l
    BY <1>1, <1>2, <1>3, <2>1, AppendProperties
  <2>2. CASE ~(p.i > p.l)
    BY <1>2, <1>3, <2>2
  <2> QED BY <2>1, <2>2
<1> DEFINE halves == Halves(ranges, p)
<1>5. ASSUME NEW k \in 1..Len(ranges) PROVE k \in 1..Len(halves) /\ halves[k] = ranges[k]
  <2>1. Len(ranges) \in Nat
    OBVIOUS
  <2>2. /\ Len(ranges) <= Len(more) /\ Len(more) \in Nat
        /\ Len(more) <= Len(halves) /\ Len(halves) \in Nat
    BY ONLY <1>2, <1>4
  <2>3. k \in 1..Len(more) /\ k \in 1..Len(halves)
    BY ONLY <2>1, <2>2, k \in 1..Len(ranges)
  <2>4. more[k] = ranges[k]
    BY ONLY <1>2, k \in 1..Len(ranges)
  <2>5. halves[k] = more[k]
    BY ONLY <1>4, <2>3
  <2> QED BY ONLY <2>3, <2>4, <2>5
<1>6. ASSUME p.i < p.r
      PROVE  Len(more) \in 1..Len(halves) /\ halves[Len(more)] = <<p.i + 1, p.r>>
  BY <1>2, <1>4, <1>6
<1>7. ASSUME NEW a, NEW b, InRange(ranges, a, b) PROVE InRange(halves, a, b)
  <2>1. PICK k \in 1..Len(ranges) : ranges[k][1] < a /\ b - 1 <= ranges[k][2]
    BY <1>7 DEF InRange
  <2> HIDE DEF halves
  <2> QED BY <1>5, <2>1 DEF InRange
<1>8. ASSUME NEW a, NEW b, NEW k \in 1..Len(halves), NEW first, NEW last,
             halves[k] = <<first, last>>, first < a, b - 1 <= last
      PROVE  InRange(halves, a, b)
  <2> HIDE DEF halves
  <2>1. halves[k][1] = first /\ halves[k][2] = last
    BY <1>8
  <2> QED BY <1>8, <2>1, Zenon DEF InRange
<1>9. ASSUME NEW a, NEW b, p.i < p.r, p.i + 1 < a, b - 1 <= p.r PROVE InRange(halves, a, b)
  <2> HIDE DEF halves
  <2> QED BY <1>6, <1>8, <1>9, Zenon
<1>10. ASSUME NEW a, NEW b, p.i > p.l, p.l < a, b - 1 <= p.i - 1 PROVE InRange(halves, a, b)
  <2>1. Len(halves) \in 1..Len(halves) /\ halves[Len(halves)] = <<p.l, p.i - 1>>
    BY <1>4, <1>10
  <2> HIDE DEF halves
  <2> QED BY <1>8, <1>10, <2>1, Zenon
<1> QED BY <1>7, <1>9, <1>10, Zenon

(* Taken back and done again: of three exchanges one is left. *)
LEMMA ThriceExchanged ==
  ASSUME NEW e \in Seq(Keys), NEW i \in Int, NEW j \in Int, NEW r \in Int,
         CanExchange(e, i, j), CanExchange(e, i, r), NEW f,
         f = Exchanged(Exchanged(Exchanged(e, i, j), i, j), i, r)
  PROVE  /\ f \in Seq(Keys) /\ Len(f) = Len(e)
         /\ \A n \in 1..Len(e) :
              f[n] = IF n = i + 1 THEN e[r + 1] ELSE IF n = r + 1 THEN e[i + 1] ELSE e[n]
         /\ \A key : Count(f, key) = Count(e, key)
<1> DEFINE once == Exchanged(e, i, j)
           back == Exchanged(once, i, j)
<1>1. once \in Seq(Keys) /\ Len(once) = Len(e)
  BY ExchangedKeeps
<1>2. \A n \in 1..Len(e) :
        once[n] = IF n = i + 1 THEN e[j + 1] ELSE IF n = j + 1 THEN e[i + 1] ELSE e[n]
  BY ExchangedValues
<1>3. \A key : Count(once, key) = Count(e, key)
  BY ExchangedCounts
<1>4. i + 1 \in 1..Len(e) /\ j + 1 \in 1..Len(e) /\ r + 1 \in 1..Len(e)
  BY DEF CanExchange, Has
<1> HIDE DEF once
<1>5. CanExchange(once, i, j)
  BY <1>1, <1>4 DEF CanExchange, Has
<1>6. back \in Seq(Keys) /\ Len(back) = Len(e)
  BY <1>1, <1>5, ExchangedKeeps
<1>7. \A n \in 1..Len(e) :
        back[n] = IF n = i + 1 THEN once[j + 1] ELSE IF n = j + 1 THEN once[i + 1] ELSE once[n]
  BY <1>1, <1>5, ExchangedValues
<1>8. \A key : Count(back, key) = Count(once, key)
  BY <1>1, <1>5, ExchangedCounts
<1> HIDE DEF back
<1>9. \A n \in 1..Len(e) : back[n] = e[n]
  BY ONLY <1>2, <1>4, <1>7, i \in Int, j \in Int
<1>10. CanExchange(back, i, r)
  BY <1>4, <1>6 DEF CanExchange, Has
<1>11. f = Exchanged(back, i, r)
  BY DEF once, back
<1>12. f \in Seq(Keys) /\ Len(f) = Len(e)
  BY <1>6, <1>10, <1>11, ExchangedKeeps
<1>13. \A n \in 1..Len(e) :
         f[n] = IF n = i + 1 THEN back[r + 1] ELSE IF n = r + 1 THEN back[i + 1] ELSE back[n]
  BY <1>6, <1>10, <1>11, ExchangedValues
<1>14. \A key : Count(f, key) = Count(back, key)
  BY <1>6, <1>10, <1>11, ExchangedCounts
<1>15. \A n \in 1..Len(e) :
         f[n] = IF n = i + 1 THEN e[r + 1] ELSE IF n = r + 1 THEN e[i + 1] ELSE e[n]
  BY ONLY <1>4, <1>9, <1>13
<1> QED BY <1>3, <1>8, <1>12, <1>14, <1>15

(* i and j have met: the pivot goes between the halves, which are left.     *)
LEMMA SplitSoFar ==
  ASSUME NEW s \in PendingSort, NEW e \in Seq(Keys), SortOK(s, Len(e)), SoFar(s, e),
         s.partition.phase = "Exchange", s.partition.j <= s.partition.i,
         CanExchange(e, s.partition.i, s.partition.j),
         CanExchange(e, s.partition.i, s.partition.r), NEW f,
         f = Exchanged(Exchanged(Exchanged(e, s.partition.i, s.partition.j),
                                 s.partition.i, s.partition.j),
                       s.partition.i, s.partition.r), NEW t,
         t = [s EXCEPT !.ranges = Halves(s.ranges, s.partition), !.partition = NoPartition]
  PROVE  SoFar(t, f)
<1> DEFINE l == s.partition.l
           r == s.partition.r
           i == s.partition.i
           j == s.partition.j
           d == s.descending
           inside == (l + 1)..(r + 1)
           halves == Halves(s.ranges, s.partition)
<1>1. /\ t.trust = s.trust /\ t.before = s.before /\ t.ranges = halves
      /\ t.descending = d /\ t.partition.phase = "none"
  BY DEF NoPartition, PendingSort
<1>2. CASE s.trust = "changed"
  BY <1>1, <1>2 DEF SoFar
<1>3. CASE s.trust # "changed"
  <2>1. /\ l \in Int /\ r \in Int /\ i \in Int /\ j \in Int
        /\ 0 <= l /\ l < r /\ r < Len(e) /\ Len(e) \in Nat
        /\ s.ranges \in Seq(Int \X Int) /\ s.partition \in Partition
        /\ \A x \in l..r : x + 1 \in 1..Len(e) /\ e[x + 1] \in Int
    <3>1. Len(e) \in Nat
      OBVIOUS
    <3> QED BY <1>3, <3>1, Bounds, Zenon
  <2>2. l <= i /\ i <= r /\ l <= j /\ j < r /\ j <= i
    BY DEF SortOK, PositionsOK
  <2>3. /\ f \in Seq(Keys) /\ Len(f) = Len(e)
        /\ \A n \in 1..Len(e) :
             f[n] = IF n = i + 1 THEN e[r + 1] ELSE IF n = r + 1 THEN e[i + 1] ELSE e[n]
        /\ \A key : Count(f, key) = Count(e, key)
    BY <2>1, ThriceExchanged
  <2>4. Kept(t, f)
    <3>1. Kept(s, e)
      BY <1>3 DEF SoFar
    <3> QED BY <1>1, <2>3, <3>1 DEF Kept
  <2>5. ASSUME s.trust = "consistent" PROVE Ordered(t, f)
    <3>1. Ordered(s, e) /\ Parted(s, e)
      BY <2>5 DEF SoFar
    <3>2. /\ \A x \in l..(i - 1) : Before(d, e[x + 1], e[r + 1])
          /\ \A x \in (j + 1)..(r - 1) : Before(d, e[r + 1], e[x + 1])
          /\ Before(d, e[r + 1], e[i + 1])
      BY <3>1 DEF Parted, Low, High
    <3>3. /\ \A n \in 1..Len(e) : n \notin inside => f[n] = e[n]
          /\ \A n \in inside : \E x \in inside : f[n] = e[x]
      <4> HIDE DEF l, r, i, j
      <4>1. ASSUME NEW n \in 1..Len(e), n \notin inside PROVE f[n] = e[n]
        BY ONLY <2>1, <2>2, <2>3, <4>1
      <4>2. ASSUME NEW n \in inside PROVE \E x \in inside : f[n] = e[x]
        <5>1. n \in 1..Len(e)
          BY ONLY <2>1, <4>2
        <5>2. i + 1 \in inside /\ r + 1 \in inside
          BY ONLY <2>1, <2>2
        <5> QED BY ONLY <2>3, <4>2, <5>1, <5>2
      <4> QED BY <4>1, <4>2
    <3>4. /\ \A n \in (l + 1)..i : Before(d, f[n], f[i + 1])
          /\ \A n \in (i + 2)..(r + 1) : Before(d, f[i + 1], f[n])
          /\ \A n \in inside : f[n] \in Int
      <4> HIDE DEF l, r, i, j, d
      <4>1. f[i + 1] = e[r + 1]
        BY ONLY <2>1, <2>2, <2>3
      <4>2. ASSUME NEW n \in (l + 1)..i PROVE Before(d, f[n], f[i + 1])
        <5>1. f[n] = e[(n - 1) + 1] /\ n - 1 \in l..(i - 1)
          BY ONLY <2>1, <2>2, <2>3, <4>2
        <5> QED BY <3>2, <4>1, <5>1
      <4>3. ASSUME NEW n \in (i + 2)..(r + 1) PROVE Before(d, f[i + 1], f[n])
        <5>1. CASE n = r + 1
          <6>1. f[n] = e[i + 1]
            BY ONLY <2>1, <2>2, <2>3, <4>3, <5>1
          <6> QED BY <3>2, <4>1, <6>1
        <5>2. CASE n # r + 1
          <6>1. f[n] = e[(n - 1) + 1] /\ n - 1 \in (j + 1)..(r - 1)
            BY ONLY <2>1, <2>2, <2>3, <4>3, <5>2
          <6> QED BY <3>2, <4>1, <6>1
        <5> QED BY <5>1, <5>2
      <4>4. ASSUME NEW n \in inside PROVE f[n] \in Int
        <5>1. PICK x \in inside : f[n] = e[x]
          BY <3>3, <4>4
        <5>2. x - 1 \in l..r /\ x = (x - 1) + 1
          BY ONLY <2>1, <5>1
        <5>3. e[(x - 1) + 1] \in Int
          BY ONLY <2>1, <5>2
        <5> QED BY ONLY <5>1, <5>2, <5>3
      <4> QED BY <4>2, <4>3, <4>4
    <3>5. SUFFICES ASSUME NEW a \in 1..Len(e), NEW b \in 1..Len(e), a < b
                   PROVE  Before(d, f[a], f[b]) \/ InRange(halves, a, b)
      BY <1>1, <2>3, Zenon DEF Ordered
    <3>6. /\ InRange(s.ranges, a, b) => InRange(halves, a, b)
          /\ i < r /\ i + 1 < a /\ b - 1 <= r => InRange(halves, a, b)
          /\ i > l /\ l < a /\ b - 1 <= i - 1 => InRange(halves, a, b)
      BY <2>1, HalvesHold, Zenon
    <3>7. CASE ~(a \in inside /\ b \in inside)
      <4>1. Before(d, f[a], f[b]) \/ InRange(s.ranges, a, b)
        <5>1. s.partition.phase # "none"
          OBVIOUS
        <5>2. inside = (s.partition.l + 1)..(s.partition.r + 1)
          OBVIOUS
        <5> HIDE DEF inside, halves
        <5> QED BY ONLY <1>3, <3>1, <3>3, <3>7, <5>1, <5>2, OutsideOrdered, a < b,
                        s \in PendingSort, e \in Seq(Keys), SortOK(s, Len(e)),
                        a \in 1..Len(e), b \in 1..Len(e)
      <4> QED BY <3>6, <4>1
    <3>8. CASE a \in inside /\ b \in inside
      <4> HIDE DEF l, r, i, j, d, halves
      <4>1. CASE b <= i
        <5>1. i > l /\ l < a /\ b - 1 <= i - 1
          BY ONLY <2>1, <2>2, <3>8, <4>1, a < b
        <5> QED BY <3>6, <5>1
      <4>2. CASE i + 1 < a
        <5>1. i < r /\ b - 1 <= r
          BY ONLY <2>1, <2>2, <3>8, <4>2, a < b
        <5> QED BY <3>6, <4>2, <5>1
      <4>3. CASE a <= i + 1 /\ i < b
        <5>1. /\ a \in (l + 1)..i \/ a = i + 1
              /\ b \in (i + 2)..(r + 1) \/ b = i + 1
              /\ i + 1 \in inside
          BY ONLY <2>1, <2>2, <3>8, <4>3, a < b
        <5>2. a = i + 1 => b # i + 1
          BY ONLY <2>1, <3>8, a < b
        <5>3. f[a] \in Int /\ f[b] \in Int /\ f[i + 1] \in Int
          BY ONLY <3>4, <3>8, <5>1
        <5>4. a # i + 1 => Before(d, f[a], f[i + 1])
          BY ONLY <3>4, <5>1
        <5>5. b # i + 1 => Before(d, f[i + 1], f[b])
          BY ONLY <3>4, <5>1
        <5> QED BY <5>2, <5>3, <5>4, <5>5, BeforeOrders
      <4>4. a <= i + 1 \/ i + 1 < a
        BY ONLY <2>1, <3>8
      <4>5. b <= i \/ i < b
        BY ONLY <2>1, <3>8
      <4> QED BY <4>1, <4>2, <4>3, <4>4, <4>5
    <3> QED BY <3>7, <3>8
  <2> QED BY <1>1, <2>4, <2>5 DEF SoFar
<1> QED BY <1>2, <1>3

(***************************************************************************)
(* The stacks                                                              *)
(***************************************************************************)
LEMMA Elsewhere ==
  ASSUME program' # <<>> => Last(program').at \notin {"next", "resuming"}
  PROVE  Answered'
BY DEF Answered, At, Frame

LEMMA NotAsked == ASSUME ~Asked' PROVE Answered'
BY DEF Answered

(* The sort on top is replaced: the others of its vector have lost trust.   *)
LEMMA TopSteps ==
  ASSUME OInv, sorts # <<>>, NEW t \in PendingSort, t.vector = Running.vector,
         sorts' = WithRunning(t),
         \A x \in Vectors : x # Running.vector => vectors'[x] = vectors[x],
         SoFar(t, vectors'[t.vector])
  PROVE  Sound' /\ Alone' /\ sorts' # <<>> /\ Running' = t
<1>1. sorts \in Seq(PendingSort) /\ Sound /\ Alone
  BY DEF OInv, IInv, TypeOK
<1>2. /\ Len(sorts) \in 1..Len(sorts) /\ Len(sorts) \in Nat \ {0} /\ Running = sorts[Len(sorts)]
  <2>1. Len(sorts) \in Nat \ {0} /\ Last(sorts) = sorts[Len(sorts)]
    BY ONLY <1>1, sorts # <<>>, TopOf
  <2>2. Len(sorts) \in 1..Len(sorts)
    BY ONLY <2>1
  <2> QED BY <2>1, <2>2 DEF Running
<1>3. /\ sorts' \in Seq(PendingSort) /\ Len(sorts') = Len(sorts)
      /\ \A k \in 1..Len(sorts) : sorts'[k] = IF k = Len(sorts) THEN t ELSE sorts[k]
  BY <1>1, <1>2, ExceptSeq DEF WithRunning
<1>4. sorts' # <<>> /\ Running' = t
  BY <1>2, <1>3 DEF Running, Last
<1>5. ASSUME NEW k \in 1..Len(sorts'), k # Len(sorts)
      PROVE  SoFar(sorts'[k], vectors'[sorts'[k].vector])
  <2>1. /\ k \in 1..Len(sorts) /\ k < Len(sorts) /\ sorts'[k] = sorts[k]
        /\ sorts[k] \in PendingSort
    BY <1>1, <1>2, <1>3, <1>5
  <2>2. CASE sorts[k].vector = Running.vector
    <3>1. sorts[k].trust = "changed"
      BY <1>1, <1>2, <2>1, <2>2 DEF Alone
    <3> QED BY <2>1, <3>1 DEF SoFar
  <2>3. CASE sorts[k].vector # Running.vector
    <3>1. vectors'[sorts[k].vector] = vectors[sorts[k].vector]
      BY <2>1, <2>3 DEF PendingSort
    <3>2. SoFar(sorts[k], vectors[sorts[k].vector])
      BY <1>1, <2>1 DEF Sound
    <3> QED BY <2>1, <3>1, <3>2
  <2> QED BY <2>2, <2>3
<1>6. Sound'
  <2>1. ASSUME NEW k \in 1..Len(sorts') PROVE SoFar(sorts'[k], vectors'[sorts'[k].vector])
    <3>1. CASE k = Len(sorts)
      BY <1>2, <1>3, <3>1
    <3>2. CASE k # Len(sorts)
      BY <1>5, <3>2
    <3> QED BY <3>1, <3>2
  <2> QED BY <2>1 DEF Sound
<1>7. Alone'
  <2>1. ASSUME NEW k \in 1..Len(sorts'), NEW m \in 1..Len(sorts'), k < m,
               sorts'[k].vector = sorts'[m].vector
        PROVE  sorts'[k].trust = "changed"
    <3>1. k \in 1..Len(sorts) /\ m \in 1..Len(sorts) /\ k # Len(sorts)
      BY ONLY <1>2, <1>3, <2>1
    <3>2. sorts'[k] = sorts[k] /\ sorts'[m].vector = sorts[m].vector
      BY <1>2, <1>3, <3>1
    <3> QED BY <1>1, <2>1, <3>1, <3>2 DEF Alone
  <2> QED BY <2>1 DEF Alone
<1> QED BY <1>4, <1>6, <1>7

(* The sorts above a point are gone, those below as they were. *)
LEMMA Fewer ==
  ASSUME OInv, NEW m \in 0..Len(sorts), Len(sorts') = m,
         \A k \in 1..m : sorts'[k] = sorts[k], UNCHANGED vectors
  PROVE  Sound' /\ Alone'
<1>1. Sound /\ Alone /\ Len(sorts) \in Nat
  BY DEF OInv, IInv, TypeOK
<1>2. \A k \in 1..m : k \in 1..Len(sorts)
  BY <1>1
<1>3. Sound'
  BY <1>1, <1>2 DEF Sound
<1>4. Alone'
  BY <1>1, <1>2 DEF Alone
<1> QED BY <1>3, <1>4

(* The frame that comes to the top was waiting: no step of its sort is due. *)
LEMMA FramesFewer ==
  ASSUME OInv, NEW m \in Nat, m < Len(program) \/ m = 0, program' = SubSeq(program, 1, m)
  PROVE  Answered'
<1>1. program \in Seq(SortFrame \cup ScopeFrame) /\ m \in 0..Len(program)
  BY DEF OInv, IInv, TypeOK
<1>2. /\ program' \in Seq(SortFrame \cup ScopeFrame)
      /\ Len(program') = m
      /\ \A k \in 1..m : program'[k] = program[k]
  BY <1>1, Prefix
<1>3. \A k \in 1..m : program'[k].at \in {"scope", "comparing"}
  BY <1>1, <1>2 DEF OInv, IInv, ProgramOK
<1>4. ASSUME program' # <<>> PROVE Last(program').at \in {"scope", "comparing"}
  <2>1. Len(program') \in Nat \ {0} /\ Last(program') = program'[Len(program')]
    BY ONLY <1>2, <1>4, TopOf
  <2>2. m \in 1..m /\ Last(program') = program'[m]
    BY ONLY <1>2, <2>1
  <2> QED BY ONLY <1>3, <2>2
<1> QED BY <1>4, Elsewhere

(* An error. *)
LEMMA UnwindSound ==
  ASSUME OInv, NEW ss, NEW n \in 0..Len(sorts), ss = SubSeq(sorts, 1, n),
         Unwind(ss), UNCHANGED vectors
  PROVE  Sound' /\ Alone' /\ Answered'
<1>1. sorts \in Seq(PendingSort) /\ program \in Seq(SortFrame \cup ScopeFrame)
  BY DEF OInv, IInv, TypeOK
<1>2. ss \in Seq(PendingSort) /\ Len(ss) = n /\ \A k \in 1..n : ss[k] = sorts[k]
  BY <1>1, Prefix
<1>3. ASSUME NEW mark \in Nat, sorts' = truncate(ss, mark) PROVE Sound' /\ Alone'
  <2>1. PICK m \in 0..Len(ss) : sorts' = SubSeq(ss, 1, m)
    BY <1>2, <1>3, Truncated
  <2>2. Len(sorts') = m /\ \A k \in 1..m : sorts'[k] = ss[k]
    BY <1>2, <2>1, Prefix
  <2>3. m \in 0..Len(sorts) /\ \A k \in 1..m : sorts'[k] = sorts[k]
    BY <1>1, <1>2, <2>2
  <2> QED BY <2>2, <2>3, Fewer
<1>4. CASE Scopes = {}
  <2>1. sorts' = truncate(ss, 0) /\ program' = <<>>
    BY <1>4 DEF Unwind
  <2>2. Answered'
    BY <2>1, Elsewhere
  <2> QED BY <1>3, <2>1, <2>2
<1>5. CASE Scopes # {}
  <2>1. PICK k \in Scopes : /\ sorts' = truncate(ss, program[k].mark)
                            /\ program' = SubSeq(program, 1, k - 1)
    BY <1>5 DEF Unwind
  <2>2. k \in 1..Len(program) /\ program[k].at = "scope"
    BY <1>1, <2>1 DEF Scopes
  <2>3. program[k].mark \in Nat
    BY <1>1, <2>2 DEF SortFrame, ScopeFrame
  <2>4. k - 1 \in Nat /\ k - 1 < Len(program)
    BY <1>1, <2>2
  <2> QED BY <1>3, <2>1, <2>3, <2>4, FramesFewer
<1> QED BY <1>4, <1>5

LEMMA FrameMoves ==
  ASSUME IInv, program # <<>>, NEW f \in SortFrame \cup ScopeFrame,
         program' = [program EXCEPT ![Len(program)] = f]
  PROVE  program' # <<>> /\ Frame' = f
<1>1. program \in Seq(SortFrame \cup ScopeFrame)
  BY DEF IInv, TypeOK
<1>2. Len(program) \in 1..Len(program) /\ Len(program) \in Nat \ {0}
  BY <1>1, TopOf
<1>3. /\ program' \in Seq(SortFrame \cup ScopeFrame)
      /\ Len(program') = Len(program)
      /\ program'[Len(program)] = f
  BY <1>1, <1>2, ExceptSeq
<1> QED BY <1>2, <1>3 DEF Frame, Last

(* The step returns with a pair to compare. *)
LEMMA Suspends ==
  ASSUME IInv, program # <<>>, Frame.at # "scope", Proceed("reading")
  PROVE  Answered'
<1> DEFINE f == [program[Len(program)] EXCEPT !.at = "reading"]
<1>1. f \in SortFrame \cup ScopeFrame /\ f.at = "reading"
  BY TopFrame DEF SortFrame, IInv
<1>2. program' = [program EXCEPT ![Len(program)] = f]
  BY DEF Proceed
<1> HIDE DEF f
<1>3. Last(program').at = "reading"
  BY <1>1, <1>2, FrameMoves DEF Frame
<1> QED BY <1>3, Elsewhere

(***************************************************************************)
(* The steps of the quicksort                                              *)
(***************************************************************************)

(* The sort at work, its elements, and where it has got to. *)
LEMMA AtWork ==
  ASSUME OInv, NEW phase, InPhase(phase)
  PROVE  /\ sorts # <<>> /\ program # <<>> /\ Frame.at = "resuming"
         /\ Running \in PendingSort /\ Running.partition.phase = phase
         /\ Running.vector \in Vectors
         /\ vectors[Running.vector] \in Seq(Keys)
         /\ SortOK(Running, Len(vectors[Running.vector]))
         /\ SoFar(Running, vectors[Running.vector])
<1>1. /\ sorts # <<>> /\ program # <<>> /\ Frame.at = "resuming"
      /\ Running \in PendingSort /\ Running.partition.phase = phase
      /\ vectors[Running.vector] \in Seq(Keys)
      /\ SortOK(Running, Len(vectors[Running.vector]))
  BY InsideStep DEF OInv
<1>2. Running = sorts[Len(sorts)] /\ Len(sorts) \in 1..Len(sorts)
  <2>1. sorts \in Seq(PendingSort)
    BY DEF OInv, IInv, TypeOK
  <2>2. Len(sorts) \in Nat \ {0} /\ Last(sorts) = sorts[Len(sorts)]
    BY ONLY <1>1, <2>1, TopOf
  <2>3. Len(sorts) \in 1..Len(sorts)
    BY ONLY <2>2
  <2> QED BY <2>2, <2>3 DEF Running
<1>3. SoFar(Running, vectors[Running.vector])
  BY <1>2 DEF OInv, Sound
<1> QED BY <1>1, <1>3 DEF PendingSort

(* The steps that move i or j or go on from a comparison. *)
LEMMA PositionsStep ==
  ASSUME OInv, NEW from, InPhase(from), from # "none",
         NEW i \in Int, NEW j \in Int, NEW phase \in Phases, phase # "none",
         NEW pair \in Int \X Int, NEW t,
         t = WithPositions(Running, i, j, phase, pair), sorts' = WithRunning(t),
         UNCHANGED vectors,
         Running.trust = "consistent" => Parted(t, vectors[Running.vector]),
         phase \in {"CompareI", "CompareJ"} => Proceed("reading")
  PROVE  Sound' /\ Alone' /\ Answered'
<1>1. /\ sorts # <<>> /\ program # <<>> /\ Frame.at = "resuming"
      /\ Running \in PendingSort /\ Running.partition.phase = from
      /\ SoFar(Running, vectors[Running.vector])
  BY AtWork
<1>2. /\ t \in PendingSort /\ t.vector = Running.vector /\ t.trust = Running.trust
      /\ t.partition.phase = phase
  BY <1>1 DEF WithPositions, PendingSort, Partition
<1>3. SoFar(t, vectors[Running.vector])
  <2>1. Running.partition.phase # "none" /\ (t.trust = "consistent" => Parted(t, vectors[Running.vector]))
    BY <1>1, <1>2
  <2> QED BY <1>1, <2>1, PositionsSoFar
<1>4. Sound' /\ Alone' /\ Running' = t
  BY <1>1, <1>2, <1>3, TopSteps
<1>5. Answered'
  <2>1. CASE phase \in {"CompareI", "CompareJ"}
    BY <1>1, <2>1, Suspends DEF OInv
  <2>2. CASE phase \notin {"CompareI", "CompareJ"}
    <3>1. ~Asked'
      BY <1>2, <1>4, <2>2 DEF Asked, awaiting
    <3> QED BY <3>1, NotAsked
  <2> QED BY <2>1, <2>2
<1> QED BY <1>4, <1>5

(* What a partition at work says, with its numbers. *)
LEMMA PartitionAtWork ==
  ASSUME OInv, NEW phase, InPhase(phase), phase # "none"
  PROVE  /\ Running.partition \in Partition
         /\ Running.partition.i \in Int /\ Running.partition.j \in Int
         /\ Running.partition.l \in Int /\ Running.partition.r \in Int
         /\ Running.pair \in Int \X Int
         /\ Running.partition.pivot = Running.partition.r
         /\ PositionsOK(Running)
         /\ Running.trust = "consistent" => Parted(Running, vectors[Running.vector])
<1>1. /\ Running \in PendingSort /\ Running.partition.phase = phase
      /\ SortOK(Running, Len(vectors[Running.vector]))
      /\ SoFar(Running, vectors[Running.vector])
  BY AtWork
<1>2. Running.partition \in Partition /\ Running.pair \in Int \X Int
  BY <1>1 DEF PendingSort
<1>3. /\ Running.partition.i \in Int /\ Running.partition.j \in Int
      /\ Running.partition.l \in Int /\ Running.partition.r \in Int
  BY <1>2 DEF Partition
<1>4. Running.partition.pivot = Running.partition.r /\ PositionsOK(Running)
  BY <1>1 DEF SortOK, PartitionFits
<1>5. Running.trust = "consistent" => Parted(Running, vectors[Running.vector])
  BY <1>1 DEF SoFar
<1> QED BY <1>2, <1>3, <1>4, <1>5

LEMMA TakeRangeSound == ASSUME OInv, TakeRange PROVE Sound' /\ Alone' /\ Answered'
<1> DEFINE l == Last(Running.ranges)[1]
           r == Last(Running.ranges)[2]
           p == IF r > l THEN [l |-> l, r |-> r, i |-> l - 1, j |-> r, pivot |-> r,
                               phase |-> "AdvanceI"]
                ELSE NoPartition
           t == WithPartition(Running, p)
           e == vectors[Running.vector]
<1>1. /\ sorts # <<>> /\ Running \in PendingSort /\ e \in Seq(Keys)
      /\ Running.partition.phase = "none" /\ SoFar(Running, e) /\ Running.ranges # <<>>
  BY AtWork DEF TakeRange
<1>2. l \in Int /\ r \in Int
  <2>1. Running.ranges \in Seq(Int \X Int)
    BY <1>1 DEF PendingSort
  <2>2. Last(Running.ranges) \in Int \X Int
    BY ONLY <1>1, <2>1, TopOf
  <2> QED BY <2>2
<1>3. sorts' = WithRunning(t) /\ UNCHANGED <<vectors, program, order, left>>
  BY DEF TakeRange, WithPartition
<1>4. /\ p \in Partition
      /\ \/ p.phase = "none" /\ r <= l
         \/ /\ p.phase = "AdvanceI"
            /\ p.l = l /\ p.r = r /\ p.l < p.r
            /\ p.i = p.l - 1 /\ p.j = p.r /\ p.pivot = p.r
  <2>1. CASE r > l
    BY <1>2, <2>1 DEF Partition, Phases
  <2>2. CASE ~(r > l)
    BY <1>2, <2>2 DEF Partition, Phases, NoPartition
  <2> QED BY <2>1, <2>2
<1>5. SoFar(t, e)
  <2>1. p \in Partition /\ t = WithPartition(Running, p)
    BY <1>4
  <2>2. \/ p.phase = "none" /\ Last(Running.ranges)[2] <= Last(Running.ranges)[1]
        \/ /\ p.phase = "AdvanceI"
           /\ p.l = Last(Running.ranges)[1] /\ p.r = Last(Running.ranges)[2] /\ p.l < p.r
           /\ p.i = p.l - 1 /\ p.j = p.r /\ p.pivot = p.r
    BY <1>4
  <2> HIDE DEF p, t, e
  <2> QED BY ONLY <1>1, <2>1, <2>2, RangeSoFar
<1>6. t \in PendingSort /\ t.vector = Running.vector /\ t.partition = p
  <2>1. Running.ranges \in Seq(Int \X Int)
    BY <1>1 DEF PendingSort
  <2>2. Front(Running.ranges) \in Seq(Int \X Int)
    BY ONLY <1>1, <2>1, TopOf
  <2> HIDE DEF p
  <2> QED BY <1>1, <1>4, <2>2 DEF WithPartition, PendingSort
<1>7. p.phase \notin {"CompareI", "CompareJ"}
  BY <1>4
<1> HIDE DEF t, p
<1>8. Sound' /\ Alone' /\ Running' = t
  BY <1>1, <1>3, <1>5, <1>6, TopSteps
<1>9. ~Asked'
  BY <1>6, <1>7, <1>8 DEF Asked, awaiting
<1> QED BY <1>8, <1>9, NotAsked

LEMMA SortedSound == ASSUME OInv, Sorted PROVE Sound' /\ Alone' /\ Answered'
<1>1. sorts # <<>> /\ program # <<>>
  BY AtWork DEF Sorted
<1>2. sorts \in Seq(PendingSort) /\ program \in Seq(SortFrame \cup ScopeFrame)
  BY DEF OInv, IInv, TypeOK
<1>3. /\ Len(sorts) \in Nat \ {0} /\ Len(program) \in Nat \ {0}
      /\ Len(Front(sorts)) = Len(sorts) - 1
      /\ \A k \in 1..(Len(sorts) - 1) : Front(sorts)[k] = sorts[k]
  BY ONLY <1>1, <1>2, TopOf
<1>4. sorts' = Front(sorts) /\ program' = SubSeq(program, 1, Len(program) - 1) /\ UNCHANGED vectors
  BY DEF Sorted, Front
<1>5. /\ Len(sorts) - 1 \in 0..Len(sorts)
      /\ Len(program) - 1 \in Nat /\ Len(program) - 1 < Len(program)
  BY ONLY <1>3
<1>6. Sound' /\ Alone'
  BY <1>3, <1>4, <1>5, Fewer
<1>7. Answered'
  BY <1>4, <1>5, FramesFewer
<1> QED BY <1>6, <1>7

LEMMA AdvanceISound == ASSUME OInv, AdvanceI PROVE Sound' /\ Alone' /\ Answered'
<1> DEFINE p == Running.partition
           i == p.i + 1
           e == vectors[Running.vector]
<1>1. /\ InPhase("AdvanceI") /\ Running \in PendingSort /\ p.phase = "AdvanceI"
      /\ SortOK(Running, Len(e)) /\ e \in Seq(Keys) /\ UNCHANGED vectors
  BY AtWork DEF AdvanceI
<1>2. /\ p \in Partition /\ p.i \in Int /\ p.j \in Int /\ p.l \in Int /\ p.r \in Int
      /\ Running.pair \in Int \X Int /\ p.pivot = p.r /\ PositionsOK(Running)
      /\ Running.trust = "consistent" => Parted(Running, e)
  BY <1>1, PartitionAtWork
<1>3. p.l - 1 <= p.i /\ p.i < p.r
  BY <1>1, <1>2 DEF PositionsOK
<1>4. ASSUME Running.trust = "consistent"
      PROVE  /\ \A x \in p.l..(i - 1) : Low(Running, e, x)
             /\ \A x \in (p.j + 1)..(p.r - 1) : High(Running, e, x)
             /\ p.j < p.r => High(Running, e, p.j)
             /\ High(Running, e, p.r)
  <2>1. Parted(Running, e)
    BY <1>2, <1>4
  <2>2. /\ \A x \in p.l..(p.i - 1) : Low(Running, e, x)
        /\ p.l <= p.i => Low(Running, e, p.i)
        /\ \A x \in (p.j + 1)..(p.r - 1) : High(Running, e, x)
        /\ p.j < p.r => High(Running, e, p.j)
    BY <1>1, <2>1 DEF Parted
  <2>3. ASSUME NEW x \in p.l..(i - 1) PROVE Low(Running, e, x)
    <3>1. CASE x = p.i
      <4>1. p.l <= p.i
        BY ONLY <1>2, <2>3, <3>1
      <4> QED BY <2>2, <3>1, <4>1
    <3>2. CASE x # p.i
      <4>1. x \in p.l..(p.i - 1)
        BY ONLY <1>2, <2>3, <3>2
      <4> QED BY <2>2, <4>1
    <3> QED BY <3>1, <3>2
  <2>4. High(Running, e, p.r)
    <3>1. p.r \in p.l..p.r
      BY ONLY <1>2, <1>3
    <3>2. e[p.r + 1] \in Int
      <4>1. Running.trust # "changed" /\ p.phase # "none"
        BY <1>1, <1>4
      <4>2. \A x \in p.l..p.r : x + 1 \in 1..Len(e) /\ e[x + 1] \in Int
        BY ONLY <1>1, <4>1, Bounds
      <4> QED BY <3>1, <4>2
    <3> QED BY <3>2, BeforeOrders DEF High
  <2> QED BY <2>2, <2>3, <2>4
<1>5. CASE i # p.r
  <2> DEFINE t == WithPositions(Running, i, p.j, "CompareI", <<i, p.pivot>>)
  <2>1. sorts' = WithRunning(t) /\ Proceed("reading")
    <3>1. t = [Running EXCEPT !.partition.i = i, !.partition.phase = "CompareI",
                              !.pair = <<i, p.pivot>>]
      BY <1>1, <1>2 DEF WithPositions, PendingSort, Partition
    <3> QED BY <1>5, <3>1 DEF AdvanceI
  <2>2. Running.trust = "consistent" => Parted(t, e)
    <3>1. /\ t.partition.i = i /\ t.partition.j = p.j /\ t.partition.l = p.l
          /\ t.partition.r = p.r /\ t.partition.phase = "CompareI"
          /\ t.descending = Running.descending
      BY <1>1, <1>2 DEF WithPositions, PendingSort, Partition
    <3> HIDE DEF t, i, p, e
    <3> QED BY <1>4, <3>1 DEF Parted, Low, High, p
  <2>3. i \in Int /\ <<i, p.pivot>> \in Int \X Int /\ "CompareI" \in Phases
    BY <1>2 DEF Phases
  <2>4. t = WithPositions(Running, i, p.j, "CompareI", <<i, p.pivot>>)
    OBVIOUS
  <2> HIDE DEF t, i
  <2> QED BY <1>1, <1>2, <2>1, <2>2, <2>3, <2>4, PositionsStep
<1>6. CASE i = p.r
  <2> DEFINE t == WithPositions(Running, i, p.j, "AdvanceJ", Running.pair)
  <2>1. sorts' = WithRunning(t)
    <3>1. t = [Running EXCEPT !.partition.i = i, !.partition.phase = "AdvanceJ"]
      BY <1>1, <1>2 DEF WithPositions, PendingSort, Partition
    <3> QED BY <1>6, <3>1 DEF AdvanceI
  <2>2. Running.trust = "consistent" => Parted(t, e)
    <3>1. /\ t.partition.i = i /\ t.partition.j = p.j /\ t.partition.l = p.l
          /\ t.partition.r = p.r /\ t.partition.phase = "AdvanceJ"
          /\ t.descending = Running.descending
      BY <1>1, <1>2 DEF WithPositions, PendingSort, Partition
    <3> HIDE DEF t, i, p, e
    <3> QED BY <1>4, <1>6, <3>1 DEF Parted, Low, High, p
  <2>3. i \in Int /\ "AdvanceJ" \in Phases
    BY <1>2 DEF Phases
  <2>4. t = WithPositions(Running, i, p.j, "AdvanceJ", Running.pair)
    OBVIOUS
  <2> HIDE DEF t, i
  <2> QED BY <1>1, <1>2, <2>1, <2>2, <2>3, <2>4, PositionsStep
<1> QED BY <1>5, <1>6

LEMMA AdvanceJSound == ASSUME OInv, AdvanceJ PROVE Sound' /\ Alone' /\ Answered'
<1> DEFINE p == Running.partition
           j == p.j - 1
           e == vectors[Running.vector]
<1>1. /\ InPhase("AdvanceJ") /\ Running \in PendingSort /\ p.phase = "AdvanceJ"
      /\ UNCHANGED vectors
  BY AtWork DEF AdvanceJ
<1>2. /\ p \in Partition /\ p.i \in Int /\ p.j \in Int /\ p.l \in Int /\ p.r \in Int
      /\ Running.pair \in Int \X Int /\ p.pivot = p.r /\ PositionsOK(Running)
      /\ Running.trust = "consistent" => Parted(Running, e)
  BY <1>1, PartitionAtWork
<1>3. p.l < p.j /\ p.j <= p.r
  BY <1>1, <1>2 DEF PositionsOK
<1>4. ASSUME Running.trust = "consistent"
      PROVE  /\ \A x \in p.l..(p.i - 1) : Low(Running, e, x)
             /\ \A x \in (j + 1)..(p.r - 1) : High(Running, e, x)
             /\ High(Running, e, p.i)
  <2>1. Parted(Running, e)
    BY <1>2, <1>4
  <2>2. /\ \A x \in p.l..(p.i - 1) : Low(Running, e, x)
        /\ \A x \in (p.j + 1)..(p.r - 1) : High(Running, e, x)
        /\ p.j < p.r => High(Running, e, p.j)
        /\ High(Running, e, p.i)
    BY <1>1, <2>1 DEF Parted
  <2>3. ASSUME NEW x \in (j + 1)..(p.r - 1) PROVE High(Running, e, x)
    <3>1. CASE x = p.j
      <4>1. p.j < p.r
        BY ONLY <1>2, <2>3, <3>1
      <4> QED BY <2>2, <3>1, <4>1
    <3>2. CASE x # p.j
      <4>1. x \in (p.j + 1)..(p.r - 1)
        BY ONLY <1>2, <2>3, <3>2
      <4> QED BY <2>2, <4>1
    <3> QED BY <3>1, <3>2
  <2> QED BY <2>2, <2>3
<1>5. CASE j # p.l
  <2> DEFINE t == WithPositions(Running, p.i, j, "CompareJ", <<j, p.pivot>>)
  <2>1. sorts' = WithRunning(t) /\ Proceed("reading")
    <3>1. t = [Running EXCEPT !.partition.j = j, !.partition.phase = "CompareJ",
                              !.pair = <<j, p.pivot>>]
      BY <1>1, <1>2 DEF WithPositions, PendingSort, Partition
    <3> QED BY <1>5, <3>1 DEF AdvanceJ
  <2>2. Running.trust = "consistent" => Parted(t, e)
    <3>1. /\ t.partition.i = p.i /\ t.partition.j = j /\ t.partition.l = p.l
          /\ t.partition.r = p.r /\ t.partition.phase = "CompareJ"
          /\ t.descending = Running.descending
      BY <1>1, <1>2 DEF WithPositions, PendingSort, Partition
    <3> HIDE DEF t, j, p, e
    <3> QED BY <1>4, <3>1 DEF Parted, Low, High, p
  <2>3. j \in Int /\ <<j, p.pivot>> \in Int \X Int /\ "CompareJ" \in Phases
    BY <1>2 DEF Phases
  <2>4. t = WithPositions(Running, p.i, j, "CompareJ", <<j, p.pivot>>)
    OBVIOUS
  <2> HIDE DEF t, j
  <2> QED BY <1>1, <1>2, <2>1, <2>2, <2>3, <2>4, PositionsStep
<1>6. CASE j = p.l
  <2> DEFINE t == WithPositions(Running, p.i, j, "Exchange", Running.pair)
  <2>1. sorts' = WithRunning(t)
    <3>1. t = [Running EXCEPT !.partition.j = j, !.partition.phase = "Exchange"]
      BY <1>1, <1>2 DEF WithPositions, PendingSort, Partition
    <3> QED BY <1>6, <3>1 DEF AdvanceJ
  <2>2. Running.trust = "consistent" => Parted(t, e)
    <3>1. /\ t.partition.i = p.i /\ t.partition.j = j /\ t.partition.l = p.l
          /\ t.partition.r = p.r /\ t.partition.phase = "Exchange"
          /\ t.descending = Running.descending
      BY <1>1, <1>2 DEF WithPositions, PendingSort, Partition
    <3> HIDE DEF t, j, p, e
    <3> QED BY <1>4, <1>6, <3>1 DEF Parted, Low, High, p
  <2>3. j \in Int /\ "Exchange" \in Phases
    BY <1>2 DEF Phases
  <2>4. t = WithPositions(Running, p.i, j, "Exchange", Running.pair)
    OBVIOUS
  <2> HIDE DEF t, j
  <2> QED BY <1>1, <1>2, <2>1, <2>2, <2>3, <2>4, PositionsStep
<1> QED BY <1>5, <1>6

(* An answer, turned round for a descending sort, says on which side of the *)
(* pivot the element of the pair belongs.                                  *)
LEMMA AnswerMeans ==
  ASSUME OInv, NEW from \in {"CompareI", "CompareJ"}, InPhase(from),
         Running.trust = "consistent",
         NEW x, x = IF from = "CompareI" THEN Running.partition.i ELSE Running.partition.j
  PROVE  LET e == vectors[Running.vector]
         IN /\ order < 0 => Low(Running, e, x)
            /\ ~(order < 0) => High(Running, e, x)
            /\ order > 0 => High(Running, e, x)
            /\ ~(order > 0) => Low(Running, e, x)
<1> DEFINE p == Running.partition
           e == vectors[Running.vector]
<1>1. /\ sorts # <<>> /\ Running \in PendingSort /\ p.phase = from
      /\ SortOK(Running, Len(e)) /\ e \in Seq(Keys) /\ At("resuming")
  BY AtWork DEF InPhase
<1>2. /\ p.i \in Int /\ p.j \in Int /\ p.l \in Int /\ p.r \in Int /\ PositionsOK(Running)
  BY PartitionAtWork
<1>3. Running.pair = <<x, p.r>> /\ x \in p.l..p.r /\ p.r \in p.l..p.r
  BY <1>1, <1>2 DEF PositionsOK
<1>4. e[x + 1] \in Int /\ e[p.r + 1] \in Int
  <2>1. Running.trust # "changed" /\ p.phase # "none"
    BY <1>1
  <2>2. \A y \in p.l..p.r : y + 1 \in 1..Len(e) /\ e[y + 1] \in Int
    BY ONLY <1>1, <2>1, Bounds
  <2> QED BY <1>3, <2>2
<1>5. order = Directed(Running)
  BY <1>1 DEF OInv, Answered, Asked, awaiting
<1>6. Running.pair[1] = x /\ Running.pair[2] = p.r
  BY <1>3
<1>7. order = LET first == e[x + 1]
                  second == e[p.r + 1]
                  by == IF first < second THEN -1 ELSE IF first > second THEN 1 ELSE 0
              IN IF Running.descending THEN -by ELSE by
  BY <1>5, <1>6 DEF Directed, ByKeys
<1> HIDE DEF e, p
<1>8. /\ order < 0 => Before(Running.descending, e[x + 1], e[p.r + 1])
      /\ ~(order < 0) => Before(Running.descending, e[p.r + 1], e[x + 1])
      /\ order > 0 => Before(Running.descending, e[p.r + 1], e[x + 1])
      /\ ~(order > 0) => Before(Running.descending, e[x + 1], e[p.r + 1])
  BY ONLY <1>4, <1>7 DEF Before
<1> QED BY <1>8 DEF Low, High, e, p

LEMMA CompareISound == ASSUME OInv, CompareI PROVE Sound' /\ Alone' /\ Answered'
<1> DEFINE p == Running.partition
           e == vectors[Running.vector]
           to == IF order < 0 THEN "AdvanceI" ELSE "AdvanceJ"
           t == WithPositions(Running, p.i, p.j, to, Running.pair)
<1>1. /\ InPhase("CompareI") /\ Running \in PendingSort /\ p.phase = "CompareI"
      /\ UNCHANGED vectors
  BY AtWork DEF CompareI
<1>2. /\ p \in Partition /\ p.i \in Int /\ p.j \in Int /\ p.l \in Int /\ p.r \in Int
      /\ Running.pair \in Int \X Int
      /\ Running.trust = "consistent" => Parted(Running, e)
  BY <1>1, PartitionAtWork
<1>3. sorts' = WithRunning(t)
  <2>1. t = [Running EXCEPT !.partition.phase = to]
    BY <1>1, <1>2 DEF WithPositions, PendingSort, Partition
  <2> QED BY <2>1 DEF CompareI
<1>4. Running.trust = "consistent" => Parted(t, e)
  <2>1. /\ t.partition.i = p.i /\ t.partition.j = p.j /\ t.partition.l = p.l
        /\ t.partition.r = p.r /\ t.partition.phase = to
        /\ t.descending = Running.descending
    BY <1>1, <1>2 DEF WithPositions, PendingSort, Partition
  <2> SUFFICES ASSUME Running.trust = "consistent" PROVE Parted(t, e)
    OBVIOUS
  <2>2. /\ \A x \in p.l..(p.i - 1) : Low(Running, e, x)
        /\ \A x \in (p.j + 1)..(p.r - 1) : High(Running, e, x)
        /\ p.j < p.r => High(Running, e, p.j)
    BY <1>1, <1>2 DEF Parted
  <2>3. (order < 0 => Low(Running, e, p.i)) /\ (~(order < 0) => High(Running, e, p.i))
    BY <1>1, AnswerMeans
  <2>4. /\ to = "AdvanceI" => Low(Running, e, p.i)
        /\ to = "AdvanceJ" => High(Running, e, p.i)
        /\ to \in {"AdvanceI", "AdvanceJ"}
    BY <2>3
  <2> HIDE DEF t, p, e, to
  <2> QED BY <2>1, <2>2, <2>4 DEF Parted, Low, High, p
<1>5. to \in Phases /\ to \in {"AdvanceI", "AdvanceJ"}
  BY DEF Phases
<1>6. t = WithPositions(Running, p.i, p.j, to, Running.pair)
  OBVIOUS
<1> HIDE DEF t, to
<1> QED BY <1>1, <1>2, <1>3, <1>4, <1>5, <1>6, PositionsStep

LEMMA CompareJSound == ASSUME OInv, CompareJ PROVE Sound' /\ Alone' /\ Answered'
<1> DEFINE p == Running.partition
           e == vectors[Running.vector]
           to == IF order > 0 THEN "AdvanceJ" ELSE "Exchange"
           t == WithPositions(Running, p.i, p.j, to, Running.pair)
<1>1. /\ InPhase("CompareJ") /\ Running \in PendingSort /\ p.phase = "CompareJ"
      /\ UNCHANGED vectors
  BY AtWork DEF CompareJ
<1>2. /\ p \in Partition /\ p.i \in Int /\ p.j \in Int /\ p.l \in Int /\ p.r \in Int
      /\ Running.pair \in Int \X Int
      /\ Running.trust = "consistent" => Parted(Running, e)
  BY <1>1, PartitionAtWork
<1>3. sorts' = WithRunning(t)
  <2>1. t = [Running EXCEPT !.partition.phase = to]
    BY <1>1, <1>2 DEF WithPositions, PendingSort, Partition
  <2> QED BY <2>1 DEF CompareJ
<1>4. Running.trust = "consistent" => Parted(t, e)
  <2>1. /\ t.partition.i = p.i /\ t.partition.j = p.j /\ t.partition.l = p.l
        /\ t.partition.r = p.r /\ t.partition.phase = to
        /\ t.descending = Running.descending
    BY <1>1, <1>2 DEF WithPositions, PendingSort, Partition
  <2> SUFFICES ASSUME Running.trust = "consistent" PROVE Parted(t, e)
    OBVIOUS
  <2>2. /\ \A x \in p.l..(p.i - 1) : Low(Running, e, x)
        /\ \A x \in (p.j + 1)..(p.r - 1) : High(Running, e, x)
        /\ High(Running, e, p.i)
    BY <1>1, <1>2 DEF Parted
  <2>3. (order > 0 => High(Running, e, p.j)) /\ (~(order > 0) => Low(Running, e, p.j))
    BY <1>1, AnswerMeans
  <2>4. /\ to = "AdvanceJ" => High(Running, e, p.j)
        /\ to = "Exchange" => Low(Running, e, p.j)
        /\ to \in {"AdvanceJ", "Exchange"}
    BY <2>3
  <2> HIDE DEF t, p, e, to
  <2> QED BY <2>1, <2>2, <2>4 DEF Parted, Low, High, p
<1>5. to \in Phases /\ to \in {"AdvanceJ", "Exchange"}
  BY DEF Phases
<1>6. t = WithPositions(Running, p.i, p.j, to, Running.pair)
  OBVIOUS
<1> HIDE DEF t, to
<1> QED BY <1>1, <1>2, <1>3, <1>4, <1>5, <1>6, PositionsStep

LEMMA ExchangeSound == ASSUME OInv, Exchange PROVE Sound' /\ Alone' /\ Answered'
<1> DEFINE p == Running.partition
           v == Running.vector
           e == vectors[v]
           f == Exchanged(e, p.i, p.j)
           t == WithPositions(Running, p.i, p.j, "AdvanceI", Running.pair)
<1>1. /\ InPhase("Exchange") /\ sorts # <<>> /\ Running \in PendingSort /\ p.phase = "Exchange"
      /\ v \in Vectors /\ e \in Seq(Keys) /\ SortOK(Running, Len(e)) /\ SoFar(Running, e)
  BY AtWork DEF Exchange
<1>2. /\ p \in Partition /\ p.i \in Int /\ p.j \in Int /\ p.l \in Int /\ p.r \in Int
      /\ Running.pair \in Int \X Int /\ p.pivot = p.r /\ PositionsOK(Running)
  BY <1>1, PartitionAtWork
<1>3. p.i < p.j /\ CanExchange(e, p.i, p.j) /\ vectors' = [vectors EXCEPT ![v] = f]
  BY <1>2 DEF Exchange
<1>4. p.i <= p.r /\ p.j < p.r
  BY <1>1, <1>2 DEF PositionsOK
<1>5. PivotAfter(p) = p.pivot
  BY <1>2, <1>3, <1>4 DEF PivotAfter
<1>6. sorts' = WithRunning(t)
  <2>1. t = [Running EXCEPT !.partition.pivot = PivotAfter(p), !.partition.phase = "AdvanceI"]
    BY <1>1, <1>2, <1>5 DEF WithPositions, PendingSort, Partition
  <2> QED BY <2>1 DEF Exchange
<1>7. t \in PendingSort /\ t.vector = v /\ t.partition.phase = "AdvanceI"
  BY <1>1, <1>2 DEF WithPositions, PendingSort, Partition, Phases
<1>8. SoFar(t, f)
  <2>1. f = Exchanged(e, p.i, p.j) /\ t = WithPositions(Running, p.i, p.j, "AdvanceI", Running.pair)
    OBVIOUS
  <2> HIDE DEF t, f, e
  <2> QED BY ONLY <1>1, <1>3, <2>1, ExchangeSoFar
<1>9. /\ vectors'[v] = f
      /\ \A x \in Vectors : x # v => vectors'[x] = vectors[x]
  BY <1>1, <1>3 DEF OInv, IInv, TypeOK
<1> HIDE DEF t, f
<1>10. Sound' /\ Alone' /\ Running' = t
  BY <1>1, <1>6, <1>7, <1>8, <1>9, TopSteps
<1>11. ~Asked'
  BY <1>7, <1>10 DEF Asked, awaiting
<1> QED BY <1>10, <1>11, NotAsked

LEMMA SplitSound == ASSUME OInv, Split PROVE Sound' /\ Alone' /\ Answered'
<1> DEFINE p == Running.partition
           v == Running.vector
           e == vectors[v]
           f == Exchanged(Exchanged(Exchanged(e, p.i, p.j), p.i, p.j), p.i, p.r)
           t == [Running EXCEPT !.ranges = Halves(Running.ranges, p), !.partition = NoPartition]
<1>1. /\ InPhase("Exchange") /\ sorts # <<>> /\ Running \in PendingSort /\ p.phase = "Exchange"
      /\ v \in Vectors /\ e \in Seq(Keys) /\ SortOK(Running, Len(e)) /\ SoFar(Running, e)
  BY AtWork DEF Split
<1>2. /\ p.j <= p.i /\ CanExchange(e, p.i, p.j) /\ CanExchange(e, p.i, p.r)
      /\ vectors' = [vectors EXCEPT ![v] = f] /\ sorts' = WithRunning(t)
  BY DEF Split
<1>3. t = [Running EXCEPT !.ranges = Halves(Running.ranges, Running.partition), !.partition = NoPartition]
  OBVIOUS
<1>4. f = Exchanged(Exchanged(Exchanged(e, p.i, p.j), p.i, p.j), p.i, p.r)
  OBVIOUS
<1> HIDE DEF t, f, e
<1>5. t \in PendingSort /\ t.vector = v
  BY ONLY <1>1, <1>3, RangesSplit
<1>6. t.partition.phase = "none"
  BY <1>1, <1>3 DEF PendingSort, NoPartition
<1>7. SoFar(t, f)
  BY ONLY <1>1, <1>2, <1>3, <1>4, SplitSoFar
<1>8. /\ vectors'[v] = f
      /\ \A x \in Vectors : x # v => vectors'[x] = vectors[x]
  BY <1>1, <1>2 DEF OInv, IInv, TypeOK
<1>9. Sound' /\ Alone' /\ Running' = t
  BY <1>1, <1>2, <1>5, <1>7, <1>8, TopSteps
<1>10. ~Asked'
  BY <1>6, <1>9 DEF Asked, awaiting
<1> QED BY <1>9, <1>10, NotAsked

(***************************************************************************)
(* The steps of the game and of the operations                             *)
(***************************************************************************)
LEMMA ErrorSound ==
  ASSUME OInv, Unwind(sorts) \/ (sorts # <<>> /\ Unwind(Front(sorts))), UNCHANGED vectors
  PROVE  Sound' /\ Alone' /\ Answered'
<1>1. sorts \in Seq(PendingSort) /\ Len(sorts) \in Nat
  BY DEF OInv, IInv, TypeOK
<1>2. CASE Unwind(sorts)
  <2>1. Len(sorts) \in 0..Len(sorts) /\ sorts = SubSeq(sorts, 1, Len(sorts))
    BY <1>1, SubSeqFull
  <2> QED BY <1>2, <2>1, UnwindSound
<1>3. CASE sorts # <<>> /\ Unwind(Front(sorts))
  <2>1. Len(sorts) \in Nat \ {0}
    BY <1>1, <1>3, EmptySeq
  <2>2. Len(sorts) - 1 \in 0..Len(sorts) /\ Front(sorts) = SubSeq(sorts, 1, Len(sorts) - 1)
    BY <2>1 DEF Front
  <2> QED BY <1>3, <2>2, UnwindSound
<1> QED BY <1>2, <1>3

(* Sorts and vectors stay as they are. *)
LEMMA SoundStays ==
  ASSUME OInv, UNCHANGED <<vectors, sorts>>
  PROVE  Sound' /\ Alone'
BY DEF OInv, Sound, Alone

LEMMA ResumeSound == ASSUME OInv, Resume PROVE Sound' /\ Alone' /\ Answered'
<1> DEFINE f == [program[Len(program)] EXCEPT !.at = "resuming", !.outcome = NotInteger]
<1>1. /\ IInv /\ program # <<>> /\ Frame.at = "next"
      /\ UNCHANGED <<vectors, sorts>>
      /\ program' = [program EXCEPT ![Len(program)] = f]
  BY DEF Resume, At, OInv
<1>2. Frame = program[Len(program)] /\ Frame \in SortFrame
  BY <1>1, TopFrame DEF IInv
<1>3. f \in SortFrame \cup ScopeFrame /\ f.at = "resuming"
  BY <1>2 DEF SortFrame, NotInteger, Outcomes
<1> HIDE DEF f
<1>4. Frame' = f
  BY <1>1, <1>3, FrameMoves
<1>5. ASSUME Asked PROVE order' = Directed(Running)
  <2>1. Frame.outcome = ByKeys(Running) /\ awaiting(Running)
    BY <1>1, <1>5 DEF OInv, Answered, Asked, At
  <2> QED BY <2>1 DEF Resume, Directed
<1>6. Running' = Running /\ Asked' = Asked /\ Directed(Running)' = Directed(Running)
  BY <1>1 DEF Running, Asked, awaiting, Directed, ByKeys
<1>7. Answered'
  BY <1>3, <1>4, <1>5, <1>6 DEF Answered, At
<1> QED BY <1>1, <1>7, SoundStays

LEMMA ReadSound == ASSUME OInv, Read PROVE Sound' /\ Alone' /\ Answered'
<1> DEFINE f == [program[Len(program)] EXCEPT !.at = "comparing"]
<1>1. /\ IInv /\ program # <<>> /\ Frame.at = "reading"
      /\ UNCHANGED <<vectors, sorts>>
      /\ program' = [program EXCEPT ![Len(program)] = f]
  BY DEF Read, At, OInv, Proceed
<1>2. Frame = program[Len(program)] /\ Frame \in SortFrame
  BY <1>1, TopFrame DEF IInv
<1>3. f \in SortFrame \cup ScopeFrame /\ f.at = "comparing"
  BY <1>2 DEF SortFrame
<1> HIDE DEF f
<1>4. Last(program').at = "comparing"
  BY <1>1, <1>3, FrameMoves DEF Frame
<1> QED BY <1>1, <1>4, Elsewhere, SoundStays

(* An answer that is not what the keys say ends the sort's consistency.     *)
LEMMA AnswerSound ==
  ASSUME OInv, NEW outcome \in Outcomes, Answer(outcome)
  PROVE  Sound' /\ Alone' /\ Answered'
<1> DEFINE f == [program[Len(program)] EXCEPT !.at = "next", !.outcome = outcome]
           t == [Running EXCEPT !.trust = "arbitrary"]
           e == vectors[Running.vector]
<1>1. /\ IInv /\ program # <<>> /\ Frame.at = "comparing" /\ UNCHANGED vectors
      /\ program' = [program EXCEPT ![Len(program)] = f]
  BY DEF Answer, At, OInv
<1>2. Frame = program[Len(program)] /\ Frame \in SortFrame
  BY <1>1, TopFrame DEF IInv
<1>3. f \in SortFrame \cup ScopeFrame /\ f.at = "next" /\ f.outcome = outcome
  BY <1>2 DEF SortFrame
<1> HIDE DEF f
<1>4. Frame' = f
  BY <1>1, <1>3, FrameMoves
<1>5. sorts' = IF Running.trust = "consistent" /\ outcome # ByKeys(Running) THEN WithRunning(t)
               ELSE sorts
  BY DEF Answer
<1>6. CASE sorts = <<>>
  <2>1. sorts' = <<>>
    BY <1>5, <1>6 DEF WithRunning
  <2>2. Sound' /\ Alone' /\ ~Asked'
    BY <2>1 DEF Sound, Alone, Asked
  <2> QED BY <2>2, NotAsked
<1>7. CASE sorts # <<>> /\ ~(Running.trust = "consistent" /\ outcome # ByKeys(Running))
  <2>1. UNCHANGED <<vectors, sorts>>
    BY <1>1, <1>5, <1>7
  <2>2. Running' = Running /\ Asked' = Asked /\ ByKeys(Running)' = ByKeys(Running)
    BY <2>1 DEF Running, Asked, awaiting, ByKeys
  <2>3. Asked => f.outcome = ByKeys(Running)
    BY <1>3, <1>7 DEF Asked
  <2>4. Answered'
    BY <1>3, <1>4, <2>2, <2>3 DEF Answered, At
  <2> QED BY <2>1, <2>4, SoundStays
<1>8. CASE sorts # <<>> /\ Running.trust = "consistent" /\ outcome # ByKeys(Running)
  <2>1. sorts' = WithRunning(t)
    BY <1>5, <1>8
  <2>2. Running \in PendingSort /\ SoFar(Running, e)
    <3>1. sorts \in Seq(PendingSort)
      BY <1>1 DEF IInv, TypeOK
    <3>2. Len(sorts) \in Nat \ {0} /\ Last(sorts) = sorts[Len(sorts)] /\ Last(sorts) \in PendingSort
      BY ONLY <1>8, <3>1, TopOf
    <3>3. Len(sorts) \in 1..Len(sorts)
      BY ONLY <3>2
    <3> QED BY <3>2, <3>3 DEF Running, OInv, Sound
  <2>3. /\ t \in PendingSort /\ t.vector = Running.vector /\ t.trust = "arbitrary"
        /\ t.before = Running.before
    BY <2>2 DEF PendingSort
  <2>4. SoFar(t, e)
    BY <1>8, <2>2, <2>3 DEF SoFar, Kept
  <2>5. SoFar(t, vectors'[t.vector]) /\ \A x \in Vectors : vectors'[x] = vectors[x]
    BY <1>1, <2>3, <2>4
  <2> HIDE DEF t, e
  <2>6. Sound' /\ Alone' /\ Running' = t
    BY <1>8, <2>1, <2>3, <2>5, TopSteps
  <2>7. ~Asked'
    BY <2>3, <2>6 DEF Asked
  <2> QED BY <2>6, <2>7, NotAsked
<1> QED BY <1>6, <1>7, <1>8

(* What others do to a vector, and what it leaves of the sorts.            *)
LEMMA TouchedSound ==
  ASSUME OInv, NEW v \in Vectors, \A x \in Vectors : x # v => vectors'[x] = vectors[x]
  PROVE  /\ Touched(sorts, v) \in Seq(PendingSort) /\ Len(Touched(sorts, v)) = Len(sorts)
         /\ \A k \in 1..Len(sorts) :
              /\ Touched(sorts, v)[k].vector = sorts[k].vector
              /\ sorts[k].trust = "changed" => Touched(sorts, v)[k].trust = "changed"
              /\ sorts[k].vector = v => Touched(sorts, v)[k].trust = "changed"
              /\ SoFar(Touched(sorts, v)[k], vectors'[sorts[k].vector])
<1> DEFINE ss == Touched(sorts, v)
<1>1. sorts \in Seq(PendingSort) /\ Len(sorts) \in Nat /\ IInv
  BY DEF OInv, IInv, TypeOK
<1>2. ss \in Seq(PendingSort) /\ Len(ss) = Len(sorts)
  BY <1>1, TouchedKeeps
<1>3. ss = [k \in 1..Len(sorts) |-> IF sorts[k].vector = v
                                    THEN [sorts[k] EXCEPT !.trust = "changed"] ELSE sorts[k]]
  BY <1>1 DEF Touched
<1>4. ASSUME NEW k \in 1..Len(sorts)
      PROVE  /\ ss[k].vector = sorts[k].vector
             /\ sorts[k].trust = "changed" => ss[k].trust = "changed"
             /\ sorts[k].vector = v => ss[k].trust = "changed"
             /\ SoFar(ss[k], vectors'[sorts[k].vector])
  <2>1. sorts[k] \in PendingSort /\ SoFar(sorts[k], vectors[sorts[k].vector])
    BY <1>1 DEF OInv, Sound
  <2>2. CASE sorts[k].vector = v
    <3>1. ss[k] = [sorts[k] EXCEPT !.trust = "changed"]
      BY <1>3, <2>2
    <3> HIDE DEF ss
    <3>2. ss[k].vector = sorts[k].vector /\ ss[k].trust = "changed"
      BY <2>1, <3>1 DEF PendingSort
    <3> QED BY <3>2 DEF SoFar
  <2>3. CASE sorts[k].vector # v
    <3>1. ss[k] = sorts[k]
      BY <1>3, <2>3
    <3>2. vectors'[sorts[k].vector] = vectors[sorts[k].vector]
      BY <2>1, <2>3 DEF PendingSort
    <3> QED BY <2>1, <2>3, <3>1, <3>2
  <2> QED BY <2>2, <2>3
<1> QED BY <1>2, <1>4

LEMMA BeginSound ==
  ASSUME OInv, NEW v \in Vectors, NEW descending \in BOOLEAN, Begin(v, descending)
  PROVE  Sound' /\ Alone' /\ Answered'
<1> DEFINE ss == Touched(sorts, v)
           e == vectors[v]
           s == [vector |-> v, descending |-> descending, ranges |-> new(Len(e)),
                 partition |-> NoPartition, pair |-> <<0, 0>>, before |-> e,
                 trust |-> "consistent"]
<1>1. e \in Seq(Keys) /\ Len(e) \in Nat /\ Alone /\ Len(sorts) \in Nat
  BY DEF OInv, IInv, TypeOK
<1>2. new(Len(e)) \in Seq(Int \X Int)
  <2>1. CASE Len(e) = 0
    BY <2>1 DEF new
  <2>2. CASE Len(e) # 0
    BY <1>1, <2>2 DEF new
  <2> QED BY <2>1, <2>2
<1>3. s \in PendingSort /\ s.vector = v /\ s.partition.phase = "none"
  BY <1>1, <1>2 DEF PendingSort, NoPartition, Partition, Phases
<1>4. SoFar(s, e)
  <2>1. Ordered(s, e)
    <3> SUFFICES ASSUME NEW a \in 1..Len(e), NEW b \in 1..Len(e) PROVE InRange(new(Len(e)), a, b)
      BY DEF Ordered
    <3>1. new(Len(e)) = << <<0, Len(e) - 1>> >>
      BY <1>1 DEF new
    <3>2. 0 < a /\ b - 1 <= Len(e) - 1
      BY ONLY <1>1, a \in 1..Len(e), b \in 1..Len(e)
    <3> HIDE DEF e
    <3> QED BY <3>1, <3>2 DEF InRange
  <2>2. Kept(s, e)
    BY DEF Kept
  <2> QED BY <1>3, <2>1, <2>2 DEF SoFar
<1>5. UNCHANGED vectors /\ sorts' = Append(ss, s)
  BY DEF Begin
<1>6. /\ ss \in Seq(PendingSort) /\ Len(ss) = Len(sorts)
      /\ \A k \in 1..Len(sorts) :
           /\ ss[k].vector = sorts[k].vector
           /\ sorts[k].trust = "changed" => ss[k].trust = "changed"
           /\ sorts[k].vector = v => ss[k].trust = "changed"
           /\ SoFar(ss[k], vectors'[sorts[k].vector])
  BY <1>5, TouchedSound
<1>7. s.vector = v /\ vectors'[v] = e
  BY <1>5
<1> HIDE DEF ss, s, e
<1>8. /\ sorts' \in Seq(PendingSort) /\ Len(sorts') = Len(sorts) + 1 /\ sorts' # <<>>
      /\ \A k \in 1..Len(sorts) : sorts'[k] = ss[k]
      /\ sorts'[Len(sorts) + 1] = s
  BY <1>3, <1>5, <1>6, AppendProperties
<1>9. ASSUME NEW k \in 1..Len(sorts'), k # Len(sorts) + 1
      PROVE  k \in 1..Len(sorts)
  BY ONLY <1>1, <1>8, <1>9
<1>10. Sound'
  <2>1. ASSUME NEW k \in 1..Len(sorts') PROVE SoFar(sorts'[k], vectors'[sorts'[k].vector])
    <3>1. CASE k = Len(sorts) + 1
      BY <1>4, <1>7, <1>8, <3>1
    <3>2. CASE k # Len(sorts) + 1
      BY <1>6, <1>8, <1>9, <3>2
    <3> QED BY <3>1, <3>2
  <2> QED BY <2>1 DEF Sound
<1>11. Alone'
  <2>1. ASSUME NEW k \in 1..Len(sorts'), NEW m \in 1..Len(sorts'), k < m,
               sorts'[k].vector = sorts'[m].vector
        PROVE  sorts'[k].trust = "changed"
    <3>1. k \in 1..Len(sorts)
      BY ONLY <1>1, <1>8, <2>1
    <3>2. CASE m = Len(sorts) + 1
      BY <1>6, <1>7, <1>8, <2>1, <3>1, <3>2
    <3>3. CASE m # Len(sorts) + 1
      <4>1. m \in 1..Len(sorts)
        BY <1>9, <3>3
      <4>2. sorts[k].vector = sorts[m].vector
        BY <1>6, <1>8, <2>1, <3>1, <4>1
      <4>3. sorts[k].trust = "changed"
        BY <1>1, <2>1, <3>1, <4>1, <4>2 DEF Alone
      <4> QED BY <1>6, <1>8, <3>1, <4>3
    <3> QED BY <3>2, <3>3
  <2> QED BY <2>1 DEF Alone
<1>12. ~Asked'
  <2>1. Len(sorts') \in Nat \ {0} /\ Last(sorts') = sorts'[Len(sorts')]
    BY ONLY <1>8, TopOf
  <2>2. Running' = s
    BY <1>8, <2>1 DEF Running
  <2> QED BY <1>3, <2>2 DEF Asked, awaiting
<1> QED BY <1>10, <1>11, <1>12, NotAsked

LEMMA ChangeSound ==
  ASSUME OInv, NEW v \in Vectors, Change(v)
  PROVE  Sound' /\ Alone' /\ Answered'
<1>1. /\ vectors \in [Vectors -> Seq(Keys)] /\ Alone /\ InCode
      /\ UNCHANGED program /\ sorts' = Touched(sorts, v)
  BY DEF OInv, IInv, TypeOK, Change
<1>2. \A x \in Vectors : x # v => vectors'[x] = vectors[x]
  <2>1. PICK elements \in Changes(vectors[v]) : vectors' = [vectors EXCEPT ![v] = elements]
    BY DEF Change
  <2> QED BY <1>1, <2>1
<1>3. /\ Len(sorts') = Len(sorts)
      /\ \A k \in 1..Len(sorts) :
           /\ sorts'[k].vector = sorts[k].vector
           /\ sorts[k].trust = "changed" => sorts'[k].trust = "changed"
           /\ SoFar(sorts'[k], vectors'[sorts[k].vector])
  BY <1>1, <1>2, TouchedSound
<1>4. Sound'
  BY <1>3 DEF Sound
<1>5. Alone'
  BY <1>1, <1>3 DEF Alone
<1>6. Answered'
  BY <1>1, Elsewhere DEF InCode, Frame
<1> QED BY <1>4, <1>5, <1>6

LEMMA EnterSound == ASSUME OInv, Enter PROVE Sound' /\ Alone' /\ Answered'
<1> DEFINE f == [at |-> "scope", mark |-> Len(sorts)]
<1>1. /\ program \in Seq(SortFrame \cup ScopeFrame) /\ UNCHANGED <<vectors, sorts>>
      /\ program' = Append(program, f) /\ Len(sorts) \in Nat
  BY DEF OInv, IInv, TypeOK, Enter
<1>2. f \in SortFrame \cup ScopeFrame /\ f.at = "scope"
  BY <1>1 DEF ScopeFrame
<1> HIDE DEF f
<1>3. /\ program' \in Seq(SortFrame \cup ScopeFrame)
      /\ Len(program') = Len(program) + 1
      /\ program'[Len(program) + 1] = f
  BY <1>1, <1>2, AppendProperties
<1>4. Last(program') = f
  BY <1>3 DEF Last
<1> QED BY <1>1, <1>2, <1>4, Elsewhere, SoundStays

LEMMA LeaveSound == ASSUME OInv, Leave PROVE Sound' /\ Alone' /\ Answered'
<1>1. /\ IInv /\ program # <<>> /\ Frame.at = "scope" /\ UNCHANGED vectors
      /\ sorts' = truncate(sorts, Frame.mark) /\ program' = Front(program)
  BY DEF OInv, Leave, At
<1>2. Frame.mark \in Nat
  BY <1>1, TopFrame DEF IInv, SortFrame, ScopeFrame
<1>3. sorts \in Seq(PendingSort) /\ program \in Seq(SortFrame \cup ScopeFrame)
  BY <1>1 DEF IInv, TypeOK
<1>4. Sound' /\ Alone'
  <2>1. PICK m \in 0..Len(sorts) : sorts' = SubSeq(sorts, 1, m)
    BY <1>1, <1>2, <1>3, Truncated
  <2>2. Len(sorts') = m /\ \A k \in 1..m : sorts'[k] = sorts[k]
    BY <1>3, <2>1, Prefix
  <2> QED BY <1>1, <2>2, Fewer
<1>5. Answered'
  <2>1. Len(program) \in Nat \ {0}
    BY <1>1, <1>3, EmptySeq
  <2>2. program' = SubSeq(program, 1, Len(program) - 1)
    BY <1>1 DEF Front
  <2> QED BY <2>1, <2>2, FramesFewer
<1> QED BY <1>4, <1>5

(***************************************************************************)
(* The theorems                                                            *)
(***************************************************************************)
LEMMA OrderBegins == Init => OInv
<1> SUFFICES ASSUME Init PROVE OInv
  OBVIOUS
<1>1. sorts = <<>> /\ program = <<>>
  BY DEF Init
<1>2. Sound /\ Alone /\ Answered
  BY <1>1 DEF Sound, Alone, Answered, Asked
<1> QED BY <1>2, InitHolds DEF OInv

LEMMA OrderKept == OInv /\ [Next]_vars => OInv'
<1> SUFFICES ASSUME OInv, [Next]_vars PROVE OInv'
  OBVIOUS
<1>0. SUFFICES Sound' /\ Alone' /\ Answered'
  BY StepKeeps DEF OInv
<1>1. CASE UNCHANGED vars
  BY <1>1 DEF vars, OInv, Sound, Alone, Answered, Asked, At, Frame, Running, Directed, ByKeys, awaiting
<1>2. CASE \E v \in Vectors, descending \in BOOLEAN : Begin(v, descending)
  BY <1>2, BeginSound
<1>3. CASE Resume
  BY <1>3, ResumeSound
<1>4. CASE WrongType \/ Unreadable \/ Throw
  BY <1>4, ErrorSound DEF WrongType, Unreadable, Throw, Mine
<1>5. CASE TakeRange \/ Sorted
  BY <1>5, TakeRangeSound, SortedSound
<1>6. CASE AdvanceI \/ CompareI \/ AdvanceJ \/ CompareJ
  BY <1>6, AdvanceISound, CompareISound, AdvanceJSound, CompareJSound
<1>7. CASE Exchange \/ Split
  BY <1>7, ExchangeSound, SplitSound
<1>8. CASE OutOfRange
  <2>1. sorts # <<>>
    BY <1>8, AtWork DEF OutOfRange
  <2> QED BY <1>8, <2>1, ErrorSound DEF OutOfRange
<1>9. CASE Read
  BY <1>9, ReadSound
<1>10. CASE \E outcome \in Outcomes : Answer(outcome)
  BY <1>10, AnswerSound
<1>11. CASE \E v \in Vectors : Change(v)
  BY <1>11, ChangeSound
<1>12. CASE Enter \/ Leave
  BY <1>12, EnterSound, LeaveSound
<1> QED BY <1>1, <1>2, <1>3, <1>4, <1>5, <1>6, <1>7, <1>8, <1>9, <1>10, <1>11, <1>12 DEF Next

(* Whatever the game does, the sorts in progress are as far as they say:    *)
(* the elements are those the sort began with, and with answers that keep   *)
(* to the keys everything outside one range is in order already.           *)
THEOREM OrderInvariant == Spec => []OInv
BY OrderBegins, OrderKept, PTL DEF Spec

(* The quicksort is right (sort.rs, resume): for vectors of any length, a   *)
(* sort nobody disturbed returns with the elements it was given, and if     *)
(* every answer was what the keys say, in their order or in the opposite    *)
(* one, as asked.                                                          *)
THEOREM QuicksortSorts == Spec => []SortedWhenDone
<1>1. OInv => SortedWhenDone
  <2> SUFFICES ASSUME OInv, InPhase("none"), Running.ranges = <<>>
               PROVE  LET elements == vectors[Running.vector]
                      IN /\ Running.trust # "changed" =>
                              \A key \in Keys : Count(elements, key) = Count(Running.before, key)
                         /\ Running.trust = "consistent" =>
                              \A n \in DOMAIN elements : \A m \in 1..n :
                                IF Running.descending THEN elements[m] >= elements[n]
                                                      ELSE elements[m] <= elements[n]
    BY DEF SortedWhenDone
  <2> DEFINE e == vectors[Running.vector]
  <2>1. /\ e \in Seq(Keys) /\ SoFar(Running, e) /\ Running.partition.phase = "none"
    BY AtWork
  <2>2. /\ DOMAIN e = 1..Len(e) /\ Len(e) \in Nat /\ \A n \in 1..Len(e) : e[n] \in Int
    <3>1. DOMAIN e = 1..Len(e) /\ Len(e) \in Nat /\ \A n \in 1..Len(e) : e[n] \in Keys
      BY <2>1
    <3>2. Keys \subseteq Int
      BY SortAssumption, Zenon
    <3> QED BY ONLY <3>1, <3>2
  <2>3. Running.trust # "changed" =>
          \A key \in Keys : Count(e, key) = Count(Running.before, key)
    BY <2>1 DEF SoFar, Kept
  <2>4. ASSUME Running.trust = "consistent", NEW n \in 1..Len(e), NEW m \in 1..n
        PROVE  Before(Running.descending, e[m], e[n])
    <3>1. CASE m = n
      BY <2>2, <3>1, BeforeOrders
    <3>2. CASE m # n
      <4>1. m \in 1..Len(e) /\ m < n
        BY ONLY <2>2, <3>2, n \in 1..Len(e), m \in 1..n
      <4>2. ~InRange(Running.ranges, m, n) /\ ~InPartition(Running.partition, m, n)
        BY <2>1 DEF InRange, InPartition
      <4>3. Ordered(Running, e)
        BY <2>1, <2>4 DEF SoFar
      <4> HIDE DEF e
      <4> QED BY <4>1, <4>2, <4>3 DEF Ordered
    <3> QED BY <3>1, <3>2
  <2>5. ASSUME Running.trust = "consistent", NEW n \in DOMAIN e, NEW m \in 1..n
        PROVE  IF Running.descending THEN e[m] >= e[n] ELSE e[m] <= e[n]
    BY <2>2, <2>4, <2>5 DEF Before
  <2> QED BY <2>3, <2>5
<1> QED BY <1>1, OrderInvariant, PTL

=============================================================================
