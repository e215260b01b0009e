--------------------------- MODULE ObjectsProofs ---------------------------
(***************************************************************************)
(* Proofs about Objects: for any games, with any statics, calls, limits and*)
(* number of cycles, records form a forest whose charges are the counter,  *)
(* a handle that is held never names another record, and a handled         *)
(* exception keeps the object it owns.                                     *)
(***************************************************************************)
EXTENDS Objects, WellFoundedInduction, FiniteSetTheorems, TLAPS

(***************************************************************************)
(* The invariant                                                           *)
(***************************************************************************)
(* Handles whose slot and identity are below n, and references to them. *)
Old(n) == [slot : 1..(n - 1), born : 1..(n - 1)]
Ref(n) == Old(n) \cup {Nil}
(* Something is the function of its own values. *)
IsFun(f) == f = [x \in DOMAIN f |-> f[x]]

(* The elements of a container of a kind. *)
ElementsOK(e, kind, n, g) ==
  /\ IsFun(e) /\ IsFiniteSet(DOMAIN e) /\ \A k \in DOMAIN e : e[k] \in Ref(n)
  /\ kind = "plain" => DOMAIN e = {}
  /\ kind = "vector" => DOMAIN e = 1..Cardinality(DOMAIN e)
  /\ kind = "table" => DOMAIN e \subseteq g.keys \cup Old(n)

(* A record of a heap whose next identity is n, in the game g. *)
RecordOK(r, n, g) ==
  /\ r \in [born : 1..(n - 1), lifetime : {"World", "Turn"}, kind : {"plain", "vector", "table"},
            parent : Ref(n), children : SUBSET Old(n), properties : {r.properties},
            owned : {r.owned}, elements : {r.elements}, capacity : Nat, prototypes : 0..1]
  /\ IsFun(r.properties) /\ IsFiniteSet(DOMAIN r.properties)
  /\ DOMAIN r.properties \subseteq g.props \cup {Field}
  /\ \A p \in DOMAIN r.properties : r.properties[p] \in Ref(n)
  /\ IsFun(r.owned) /\ DOMAIN r.owned \subseteq DOMAIN r.properties
  /\ \A p \in DOMAIN r.owned : r.owned[p] \in Old(n)
  /\ ElementsOK(r.elements, r.kind, n, g)
  /\ r.kind = "vector" => Cardinality(DOMAIN r.elements) <= r.capacity

(* A heap has its fields, and no other. *)
Shaped(h) ==
  /\ h \in [records : {h.records}, roots : {h.roots}, free : {h.free}, next_identity : {h.next_identity},
         charged : {h.charged}, status : {h.status}]
  /\ IsFun(h.records)

(* Every record is a root or a child of its parent, and parents are older. *)
TreeOK(h) ==
  /\ \A o \in h.roots : Live(h, o) /\ Of(h, o).parent = Nil
  /\ \A s \in DOMAIN h.records : h.records[s].parent = Nil => HandleAt(h, s) \in h.roots
  /\ \A s \in DOMAIN h.records :
       LET p == h.records[s].parent
       IN  p # Nil => Live(h, p) /\ HandleAt(h, s) \in Of(h, p).children /\ p.born < h.records[s].born
  /\ \A s \in DOMAIN h.records : \A c \in h.records[s].children :
       Live(h, c) /\ Of(h, c).parent = HandleAt(h, s)

(* What a field owns is a child, if it is still there. *)
OwnsOK(h) ==
  \A s \in DOMAIN h.records : \A p \in DOMAIN h.records[s].owned :
    LET c == h.records[s].owned[p] IN Live(h, c) => h.records[c.slot].parent = HandleAt(h, s)

(* A heap of the game g: records below the next identity, none in a free   *)
(* slot and not too many, a forest, and a counter that is the sum.         *)
HeapOK(h, g) ==
  /\ g \in Games /\ Shaped(h)
  /\ h.next_identity \in 1..g.identities
  /\ h.status \in {"live", "terminal", "aborted"}
  /\ DOMAIN h.records \cup h.free \subseteq 1..(h.next_identity - 1)
  /\ DOMAIN h.records \cap h.free = {}
  /\ h.roots \subseteq Old(h.next_identity)
  /\ \A s \in DOMAIN h.records : RecordOK(h.records[s], h.next_identity, g)
  /\ TreeOK(h) /\ OwnsOK(h)
  /\ h.charged = Total(h) /\ h.charged <= g.properties
  /\ Cardinality(DOMAIN h.records) <= g.objects

(* A snapshot that can be put back: what it holds fits its container, if   *)
(* that is still there, and charges no more than it does now.              *)
SnapOK(d, h, g) ==
  /\ d.object \in Old(h.next_identity) /\ d.capacity \in Nat
  /\ IsFun(d.elements) /\ IsFiniteSet(DOMAIN d.elements)
  /\ \A k \in DOMAIN d.elements : d.elements[k] \in Ref(h.next_identity)
  /\ Live(h, d.object) =>
       LET r == Of(h, d.object)
       IN  /\ ElementsOK(d.elements, r.kind, h.next_identity, g)
           /\ d.capacity <= r.capacity
           /\ r.kind = "table" => Cardinality(DOMAIN d.elements) <= Cardinality(DOMAIN r.elements)
           /\ r.kind = "vector" => Cardinality(DOMAIN d.elements) <= d.capacity

(* A snapshot charges no more than another one of the same container. *)
Lighter(d, e, h) ==
  d.object = e.object /\ Live(h, d.object) =>
    /\ d.capacity <= e.capacity
    /\ Of(h, d.object).kind = "table" => Cardinality(DOMAIN d.elements) <= Cardinality(DOMAIN e.elements)

(* The snapshots of a cycle, each no heavier than the later ones. *)
ContainersOK(c, h, g) ==
  /\ \A i \in DOMAIN c : SnapOK(c[i], h, g)
  /\ \A i, j \in DOMAIN c : i < j => Lighter(c[i], c[j], h)
(* The snapshots of an older cycle are no heavier than those of a newer    *)
(* one.                                                                    *)
Before(c, d, h) == \A i \in DOMAIN c, j \in DOMAIN d : Lighter(c[i], d[j], h)

(* A journalled write: a property that did not exist does not own its      *)
(* value now.                                                              *)
PropertyOK(d, h, g) ==
  /\ d.object \in Old(h.next_identity) /\ d.property \in g.props \cup {Field}
  /\ d.previous \in Ref(h.next_identity) \cup {Absent}
  /\ d.previous = Absent /\ Live(h, d.object) => d.property \notin DOMAIN Of(h, d.object).owned

(* Something is the sequence of its own values. *)
Listed(s) == s \in Seq({s[i] : i \in DOMAIN s})

(* The open journals and the history: their entries can be put back,       *)
(* newest first.                                                           *)
JournalsOK(h, g, js, cs, hs) ==
  /\ Listed(js) /\ Len(js) <= g.properties /\ \A i \in DOMAIN js : PropertyOK(js[i], h, g)
  /\ Listed(cs) /\ Len(cs) <= g.objects /\ ContainersOK(cs, h, g)
  /\ Listed(hs) /\ Len(hs) <= g.depth
  /\ \A l \in DOMAIN hs :
       /\ Listed(hs[l].properties) /\ \A i \in DOMAIN hs[l].properties : PropertyOK(hs[l].properties[i], h, g)
       /\ Listed(hs[l].containers) /\ ContainersOK(hs[l].containers, h, g)
       /\ Before(hs[l].containers, cs, h)
  /\ \A l, m \in DOMAIN hs : l < m => Before(hs[l].containers, hs[m].containers, h)

(* A constructor or an exception: its activation is a root that a game     *)
(* never sees, and holds the object unless that is gone, which only a      *)
(* despawn does.                                                           *)
FrameOK(c, h, n, ds) ==
  /\ c.activation \in h.roots
  /\ LET a == Of(h, c.activation)
     IN  a.kind = "plain" /\ a.prototypes = 0 /\ c.activation.born > n /\ DOMAIN a.owned = {}
  /\ Live(h, c.object) => Of(h, c.object).parent = c.activation
  /\ Live(h, c.object) \/ c.object \in ds

(* No two frames have the same activation, and a claimed exception still   *)
(* has its own.                                                            *)
FramesOK(h, n, cs, es, ds) ==
  /\ \A i \in DOMAIN cs : FrameOK(cs[i], h, n, ds)
  /\ \A i, j \in DOMAIN cs : i # j => cs[i].activation # cs[j].activation
  /\ \A e \in es : Live(h, e.activation) => FrameOK(e, h, n, ds)
  /\ \A e \in es : e.claimed => Live(h, e.activation)
  /\ \A e, f \in es : e.activation = f.activation => e = f
  /\ \A e \in es : \A i \in DOMAIN cs : e.activation # cs[i].activation

(* The types of the frames. *)
FrameTypes(n, cs, es) ==
  /\ Listed(cs)
  /\ \A i \in DOMAIN cs :
       cs[i] \in [owner : {"Published", "Owned"}, activation : Old(n), object : Old(n)]
  /\ es \subseteq [activation : Old(n), object : Old(n), claimed : BOOLEAN]

(* The frames of a store that has not failed. *)
FramesWell(h, n, cs, es, ds) ==
  /\ n < h.next_identity /\ FrameTypes(h.next_identity, cs, es) /\ ds \subseteq Old(h.next_identity)
  /\ h.status = "live" => FramesOK(h, n, cs, es, ds)

(* The types of the other variables. *)
OtherTypes ==
  /\ journalling \in BOOLEAN /\ default_lifetime \in {"World", "Turn"}
  /\ Listed(past) /\ Len(past) = Len(history)
  /\ phase \in {"startup", "between", "open", "failed"} /\ calls \in 0..MaxCalls

(* The inductive invariant. *)
AllOK ==
  /\ HeapOK(heap, game) /\ JournalsOK(heap, game, journal, containers, history)
  /\ FramesWell(heap, Len(Statics), constructions, exceptions, despawned)
  /\ OtherTypes

(* Induction over the naturals, for a set of them. *)
LEMMA SetInduction ==
  ASSUME NEW A \in SUBSET Nat, 0 \in A, \A n \in A : n + 1 \in A
  PROVE  A = Nat
<1> DEFINE T == Nat \ A
<1>1. SUFFICES ASSUME T # {} PROVE FALSE
  OBVIOUS
<1>2. IsWellFoundedOn(OpToRel(<, Nat), Nat)
  BY NatLessThanWellFounded
<1>3. PICK x \in T : \A y \in T : ~(<<y, x>> \in OpToRel(<, Nat))
  BY <1>1, <1>2, WFMin
<1>4. \A y \in T : ~(y < x)
  BY <1>3 DEF OpToRel
<1>5. x # 0 /\ x - 1 \in Nat /\ x - 1 < x
  OBVIOUS
<1>6. x - 1 \in A
  BY <1>4, <1>5
<1>7. (x - 1) + 1 \in A
  BY <1>6
<1> QED BY <1>5, <1>7


(***************************************************************************)
(* Sums                                                                    *)
(***************************************************************************)
Sum(h, S) == MapThenSumSet(LAMBDA s : Charge(h.records[s]), S)

(* The sum of charges over subsets, as a function of them. *)
SumBody(h, f, t) ==
  IF t = {} THEN 0
  ELSE Charge(h.records[CHOOSE x \in t : TRUE]) + f[t \ {CHOOSE x \in t : TRUE}]

Adds(h, f, S) == f = [t \in SUBSET S |-> SumBody(h, f, t)]

(* A chosen member is a member. *)
LEMMA Chosen == ASSUME NEW t, t # {} PROVE (CHOOSE x \in t : TRUE) \in t
  OBVIOUS

(* A finite set without one of its members. *)
LEMMA Smaller ==
  ASSUME NEW t, IsFiniteSet(t), NEW x \in t
  PROVE  IsFiniteSet(t \ {x}) /\ Cardinality(t \ {x}) = Cardinality(t) - 1
         /\ Cardinality(t) \in Nat /\ Cardinality(t \ {x}) \in Nat
  BY FS_RemoveElement, FS_CardinalityType

(* The function that sums over subsets exists. *)
LEMMA SumExists ==
  ASSUME NEW h, NEW S, IsFiniteSet(S)
  PROVE  \E f : Adds(h, f, S)
<1> DEFINE Upto(f, n) == f = [t \in SUBSET S |-> f[t]]
              /\ \A t \in SUBSET S : Cardinality(t) <= n => f[t] = SumBody(h, f, t)
           A == {n \in Nat : \E f : Upto(f, n)}
<1>0. \A t \in SUBSET S : IsFiniteSet(t) /\ Cardinality(t) \in Nat /\ Cardinality(t) <= Cardinality(S)
  BY FS_Subset, FS_CardinalityType
<1>1. 0 \in A
  <2> DEFINE f == [t \in SUBSET S |-> 0]
  <2>1. \A t \in SUBSET S : Cardinality(t) <= 0 => t = {}
    BY <1>0, FS_EmptySet
  <2>2. Upto(f, 0)
    BY <2>1 DEF SumBody
  <2> QED BY <2>2
<1>2. \A n \in A : n + 1 \in A
  <2>1. SUFFICES ASSUME NEW n \in A PROVE \E g : Upto(g, n + 1)
    <3> HIDE DEF Upto
    <3> QED OBVIOUS
  <2>2. PICK f : Upto(f, n)
    BY <2>1
  <2> DEFINE g == [t \in SUBSET S |-> IF Cardinality(t) <= n THEN f[t] ELSE SumBody(h, f, t)]
  <2>3. ASSUME NEW t \in SUBSET S, Cardinality(t) <= n + 1
        PROVE  g[t] = SumBody(h, g, t)
    <3>1. CASE t = {}
      <4>1. g[t] = f[t]
        BY <3>1, <1>0, FS_EmptySet
      <4>2. f[t] = SumBody(h, f, t)
        <5>1. Cardinality(t) = 0
          BY <3>1, FS_EmptySet
        <5>2. n \in Nat
          OBVIOUS
        <5>3. Cardinality(t) <= n
          BY <5>1, <5>2
        <5> QED BY <2>2, <5>3
      <4> QED BY <4>1, <4>2, <3>1 DEF SumBody
    <3>2. CASE t # {}
      <4> DEFINE x == CHOOSE x \in t : TRUE
      <4>1. x \in t
        BY <3>2
      <4>2. Cardinality(t \ {x}) = Cardinality(t) - 1 /\ Cardinality(t) \in Nat
        BY <4>1, <1>0, Smaller
      <4>3. t \ {x} \in SUBSET S /\ Cardinality(t \ {x}) <= n
        BY <4>2, <2>3
      <4>4. g[t \ {x}] = f[t \ {x}]
        BY <4>3
      <4>5. SumBody(h, g, t) = SumBody(h, f, t)
        BY <4>4 DEF SumBody
      <4>6. g[t] = SumBody(h, f, t)
        BY <2>2
      <4> QED BY <4>5, <4>6
    <3> QED BY <3>1, <3>2
  <2>4. Upto(g, n + 1)
    <3> HIDE DEF g
    <3>1. g = [t \in SUBSET S |-> g[t]]
      BY DEF g
    <3> QED BY <2>3, <3>1
  <2> QED BY <2>4
<1>3. A = Nat
  <2>1. A \in SUBSET Nat
    OBVIOUS
  <2> HIDE DEF A
  <2> QED BY <1>1, <1>2, <2>1, SetInduction
<1>4. Cardinality(S) \in A
  BY <1>3, <1>0
<1>5. PICK f : Upto(f, Cardinality(S))
  BY <1>4
<1>6. Adds(h, f, S)
  <2>1. \A t \in SUBSET S : f[t] = SumBody(h, f, t)
    BY <1>5, <1>0
  <2>2. f = [t \in SUBSET S |-> f[t]]
    BY <1>5
  <2> QED BY <2>1, <2>2 DEF Adds
<1> QED BY <1>6

SameCharges(h, g, S) == \A s \in S : Charge(h.records[s]) = Charge(g.records[s])

(* Two such functions agree where the charges do. *)
LEMMA SumUnique ==
  ASSUME NEW h, NEW g, NEW S, NEW T, IsFiniteSet(S), IsFiniteSet(T), NEW f, NEW e, Adds(h, f, S), Adds(g, e, T),
         NEW U \in SUBSET (S \cap T), SameCharges(h, g, U)
  PROVE  f[U] = e[U]
<1> DEFINE A == {n \in Nat : \A t \in SUBSET U : Cardinality(t) = n => f[t] = e[t]}
<1>0. \A t \in SUBSET U : IsFiniteSet(t) /\ Cardinality(t) \in Nat
  BY FS_Subset, FS_CardinalityType
<1>1. \A t \in SUBSET U : f[t] = SumBody(h, f, t) /\ e[t] = SumBody(g, e, t)
  BY DEF Adds
<1>2. 0 \in A
  <2>1. \A t \in SUBSET U : Cardinality(t) = 0 => t = {}
    BY <1>0, FS_EmptySet
  <2> QED BY <2>1, <1>1 DEF SumBody
<1>3. \A n \in A : n + 1 \in A
  <2>1. SUFFICES ASSUME NEW n \in A, NEW t \in SUBSET U, Cardinality(t) = n + 1 PROVE f[t] = e[t]
    OBVIOUS
  <2> DEFINE x == CHOOSE x \in t : TRUE
  <2>2. t # {}
    <3>1. Cardinality(t) # 0
      BY <2>1
    <3> QED BY <3>1, FS_EmptySet
  <2>3. x \in t
    BY <2>2
  <2>4. Cardinality(t \ {x}) = n
    <3>1. IsFiniteSet(t)
      BY <1>0
    <3>2. Cardinality(t \ {x}) = Cardinality(t) - 1
      <4> HIDE DEF x
      <4> QED BY <2>3, <3>1, Smaller
    <3> QED BY <3>2, <2>1
  <2>5. f[t \ {x}] = e[t \ {x}]
    BY <2>4
  <2>6. f[t] = Charge(h.records[x]) + f[t \ {x}] /\ e[t] = Charge(g.records[x]) + e[t \ {x}]
    BY <1>1, <2>2 DEF SumBody
  <2>7. Charge(h.records[x]) = Charge(g.records[x])
    BY <2>3 DEF SameCharges
  <2> QED BY <2>5, <2>6, <2>7
<1>4. A = Nat
  <2>1. A \in SUBSET Nat
    OBVIOUS
  <2> HIDE DEF A
  <2> QED BY <1>2, <1>3, <2>1, SetInduction
<1>5. Cardinality(U) \in A
  BY <1>4, <1>0
<1> QED BY <1>5

(* Sum is such a function. *)
LEMMA SumIs ==
  ASSUME NEW h, NEW S, IsFiniteSet(S)
  PROVE  \E f : Adds(h, f, S) /\ Sum(h, S) = f[S]
<1> DEFINE f == CHOOSE f : Adds(h, f, S)
<1>1. Adds(h, f, S)
  <2> HIDE DEF Adds
  <2> QED BY SumExists
<1>2. Sum(h, S) = f[S]
  BY DEF Sum, MapThenSumSet, MapThenFoldSet, Adds, SumBody
<1> QED BY <1>1, <1>2

(* The sum over nothing is zero. *)
LEMMA SumEmpty ==
  ASSUME NEW h PROVE Sum(h, {}) = 0
<1>1. PICK f : Adds(h, f, {}) /\ Sum(h, {}) = f[{}]
  BY SumIs, FS_EmptySet
<1> QED BY <1>1 DEF Adds, SumBody

(* Equal charges have equal sums. *)
LEMMA SumSame ==
  ASSUME NEW h, NEW g, NEW S, IsFiniteSet(S), SameCharges(h, g, S)
  PROVE  Sum(h, S) = Sum(g, S)
<1>1. PICK f : Adds(h, f, S) /\ Sum(h, S) = f[S]
  BY SumIs
<1>2. PICK e : Adds(g, e, S) /\ Sum(g, S) = e[S]
  BY SumIs
<1>3. S \in SUBSET (S \cap S)
  OBVIOUS
<1>4. f[S] = e[S]
  BY <1>1, <1>2, <1>3, SumUnique
<1> QED BY <1>1, <1>2, <1>4

(* One member at a time. *)
LEMMA SumStep ==
  ASSUME NEW h, NEW S, IsFiniteSet(S), S # {}
  PROVE  \E x \in S : Sum(h, S) = Charge(h.records[x]) + Sum(h, S \ {x})
<1> DEFINE x == CHOOSE x \in S : TRUE
<1>1. x \in S
  OBVIOUS
<1>2. IsFiniteSet(S \ {x})
  BY FS_RemoveElement
<1>3. PICK f : Adds(h, f, S) /\ Sum(h, S) = f[S]
  BY SumIs
<1>4. PICK e : Adds(h, e, S \ {x}) /\ Sum(h, S \ {x}) = e[S \ {x}]
  <2> HIDE DEF x
  <2> QED BY <1>2, SumIs
<1>5. f[S \ {x}] = e[S \ {x}]
  <2> HIDE DEF x
  <2>1. S \ {x} \in SUBSET (S \cap (S \ {x}))
    OBVIOUS
  <2>2. SameCharges(h, h, S \ {x})
    BY DEF SameCharges
  <2> QED BY <1>2, <1>3, <1>4, <2>1, <2>2, SumUnique
<1>6. f[S] = Charge(h.records[x]) + f[S \ {x}]
  BY <1>3 DEF Adds, SumBody
<1> QED BY <1>1, <1>3, <1>4, <1>5, <1>6

Counts(h, S) == \A s \in S : Charge(h.records[s]) \in Nat

(* Sums of charges are natural, and any member may be taken out. *)
LEMMA SumFacts ==
  ASSUME NEW h, NEW S, IsFiniteSet(S), Counts(h, S)
  PROVE  /\ \A T \in SUBSET S : Sum(h, T) \in Nat
         /\ \A T \in SUBSET S : \A x \in T :
              Sum(h, T) = Charge(h.records[x]) + Sum(h, T \ {x})
<1> DEFINE Good(T) == /\ Sum(h, T) \in Nat
                     /\ \A x \in T : Sum(h, T) = Charge(h.records[x]) + Sum(h, T \ {x})
           A == {n \in Nat : \A T \in SUBSET S : Cardinality(T) <= n => Good(T)}
<1>4. Good({})
  BY SumEmpty
<1>0. \A t \in SUBSET S : IsFiniteSet(t) /\ Cardinality(t) \in Nat
  BY FS_Subset, FS_CardinalityType
<1>1. 0 \in A
  <2>1. \A t \in SUBSET S : Cardinality(t) <= 0 => t = {}
    BY <1>0, FS_EmptySet
  <2> HIDE DEF Good
  <2> QED BY <2>1, <1>4
<1>2. \A n \in A : n + 1 \in A
  <2>0. SUFFICES ASSUME NEW n \in A, NEW T \in SUBSET S, Cardinality(T) <= n + 1
                 PROVE  Good(T)
    <3> HIDE DEF Good
    <3> QED OBVIOUS
  <2>1. SUFFICES ASSUME T # {} PROVE Good(T)
    <3> HIDE DEF Good
    <3> QED BY <1>4
  <2>2. IsFiniteSet(T) /\ T # {}
    BY <1>0, <2>1
  <2>3. \A x \in T : Cardinality(T \ {x}) <= n /\ IsFiniteSet(T \ {x})
    BY <2>2, <2>0, <1>0, FS_RemoveElement
  <2>4. PICK y \in T : Sum(h, T) = Charge(h.records[y]) + Sum(h, T \ {y})
    BY <2>2, SumStep
  <2>5. \A x \in T : Sum(h, T \ {x}) \in Nat
    BY <2>3
  <2>6. \A x \in T : \A z \in T \ {x} :
          Sum(h, T \ {x}) = Charge(h.records[z]) + Sum(h, (T \ {x}) \ {z})
    <3>1. SUFFICES ASSUME NEW x \in T PROVE \A z \in T \ {x} :
            Sum(h, T \ {x}) = Charge(h.records[z]) + Sum(h, (T \ {x}) \ {z})
      OBVIOUS
    <3>2. T \ {x} \in SUBSET S /\ Cardinality(T \ {x}) <= n
      BY <2>3
    <3> QED BY <3>2
  <2>7. \A x \in T : Charge(h.records[x]) \in Nat
    BY DEF Counts
  <2>8. Sum(h, T) \in Nat
    BY <2>4, <2>5, <2>7
  <2>9. ASSUME NEW x \in T, x # y
        PROVE  Sum(h, T) = Charge(h.records[x]) + Sum(h, T \ {x})
    <3>1. (T \ {x}) \ {y} = (T \ {y}) \ {x}
      OBVIOUS
    <3>2. Sum(h, T \ {y}) = Charge(h.records[x]) + Sum(h, (T \ {y}) \ {x})
      BY <2>6, <2>9
    <3>3. Sum(h, T \ {x}) = Charge(h.records[y]) + Sum(h, (T \ {x}) \ {y})
      BY <2>6, <2>9
    <3>4. Sum(h, (T \ {y}) \ {x}) = Sum(h, (T \ {x}) \ {y})
      BY <3>1
    <3>5. (T \ {x}) \ {y} \in SUBSET S /\ Cardinality((T \ {x}) \ {y}) \in Nat
      BY <1>0
    <3>6. Sum(h, T \ {x}) \in Nat /\ Sum(h, T \ {y}) \in Nat
      BY <2>5
    <3>7. Sum(h, (T \ {x}) \ {y}) \in Int
      <4>1. (T \ {x}) \ {y} \in SUBSET S /\ Cardinality((T \ {x}) \ {y}) <= n
        <5>1. IsFiniteSet(T \ {x}) /\ Cardinality(T \ {x}) <= n /\ Cardinality(T \ {x}) \in Nat
          BY <2>3, <1>0
        <5>2. (T \ {x}) \ {y} \in SUBSET (T \ {x})
          OBVIOUS
        <5>3. Cardinality((T \ {x}) \ {y}) <= Cardinality(T \ {x})
          BY <5>1, <5>2, FS_Subset
        <5>4. n \in Nat
          OBVIOUS
        <5>5. Cardinality((T \ {x}) \ {y}) <= n
          BY ONLY <5>1, <5>3, <5>4, <3>5
        <5> QED BY <5>5
      <4> QED BY <4>1
    <3> QED BY <2>4, <3>2, <3>3, <3>4, <3>6, <3>7, <2>7
  <2> QED BY <2>4, <2>8, <2>9
<1>3. A = Nat
  <2>1. A \in SUBSET Nat
    OBVIOUS
  <2> HIDE DEF A
  <2> QED BY <1>1, <1>2, <2>1, SetInduction
<1> QED
  <2>1. \A T \in SUBSET S : Good(T)
    <3> HIDE DEF Good
    <3> QED BY <1>0, <1>3
  <2> QED BY <2>1

(* A set is summed in two parts. *)
LEMMA SumSplit ==
  ASSUME NEW h, NEW S, IsFiniteSet(S), Counts(h, S), NEW T \in SUBSET S
  PROVE  Sum(h, S) = Sum(h, T) + Sum(h, S \ T)
<1> DEFINE Good(U) == Sum(h, S) = Sum(h, U) + Sum(h, S \ U)
           A == {n \in Nat : \A U \in SUBSET S : Cardinality(U) = n => Good(U)}
<1>0. \A t \in SUBSET S : IsFiniteSet(t) /\ Cardinality(t) \in Nat
  BY FS_Subset, FS_CardinalityType
<1>1. /\ \A U \in SUBSET S : Sum(h, U) \in Nat
      /\ \A U \in SUBSET S : \A x \in U : Sum(h, U) = Charge(h.records[x]) + Sum(h, U \ {x})
  BY SumFacts
<1>2. Good({})
  <2>1. S \ {} = S /\ S \in SUBSET S
    OBVIOUS
  <2> QED BY <2>1, <1>1, SumEmpty
<1>3. 0 \in A
  <2>1. \A t \in SUBSET S : Cardinality(t) = 0 => t = {}
    BY <1>0, FS_EmptySet
  <2> HIDE DEF Good
  <2> QED BY <2>1, <1>2
<1>4. \A n \in A : n + 1 \in A
  <2>1. SUFFICES ASSUME NEW n \in A, NEW U \in SUBSET S, Cardinality(U) = n + 1
                 PROVE  Good(U)
    <3> HIDE DEF Good
    <3> QED OBVIOUS
  <2>2. U # {}
    <3>1. Cardinality(U) # 0
      BY <2>1
    <3> QED BY <3>1, FS_EmptySet
  <2>3. PICK x \in U : TRUE
    BY <2>2
  <2>4. Cardinality(U \ {x}) = n
    <3>1. IsFiniteSet(U)
      BY <1>0
    <3> QED BY <3>1, <2>1, Smaller
  <2>5. Good(U \ {x})
    BY <2>4
  <2>6. Sum(h, U) = Charge(h.records[x]) + Sum(h, U \ {x})
    BY <1>1
  <2>7. Sum(h, S \ (U \ {x})) = Charge(h.records[x]) + Sum(h, (S \ (U \ {x})) \ {x})
    <3>1. x \in S \ (U \ {x}) /\ S \ (U \ {x}) \in SUBSET S
      OBVIOUS
    <3> QED BY <1>1, <3>1
  <2>8. Sum(h, (S \ (U \ {x})) \ {x}) = Sum(h, S \ U)
    <3>1. (S \ (U \ {x})) \ {x} = S \ U
      OBVIOUS
    <3> QED BY <3>1
  <2>9. Charge(h.records[x]) \in Nat
    BY DEF Counts
  <2>10. Sum(h, U \ {x}) \in Nat /\ Sum(h, S \ U) \in Nat
    BY <1>1
  <2>11. Sum(h, S) = Sum(h, U \ {x}) + Sum(h, S \ (U \ {x}))
    BY <2>5
  <2>12. Sum(h, S) = Sum(h, U) + Sum(h, S \ U)
    BY ONLY <2>11, <2>6, <2>7, <2>8, <2>9, <2>10
  <2> QED BY <2>12
<1>5. A = Nat
  <2>1. A \in SUBSET Nat
    OBVIOUS
  <2> HIDE DEF A
  <2> QED BY <1>3, <1>4, <2>1, SetInduction
<1> QED
  <2>1. Good(T)
    <3> HIDE DEF Good
    <3> QED BY <1>0, <1>5
  <2> QED BY <2>1

(* One member is taken out of the sum. *)
LEMMA SumRemoved ==
  ASSUME NEW h, NEW S, IsFiniteSet(S), Counts(h, S), NEW x \in S
  PROVE  Sum(h, S) = Charge(h.records[x]) + Sum(h, S \ {x})
<1>1. S \in SUBSET S
  OBVIOUS
<1> QED BY <1>1, SumFacts

(* One record changes what it charges. *)
LEMMA SumUpdate ==
  ASSUME NEW h, NEW g, NEW S, IsFiniteSet(S), Counts(h, S), NEW x \in S,
         SameCharges(h, g, S \ {x}), Charge(g.records[x]) \in Nat
  PROVE  Sum(g, S) = Sum(h, S) - Charge(h.records[x]) + Charge(g.records[x])
<1>1. Counts(g, S)
  BY DEF Counts, SameCharges
<1>2. Sum(g, S) = Charge(g.records[x]) + Sum(g, S \ {x})
  BY <1>1, SumRemoved
<1>3. Sum(h, S) = Charge(h.records[x]) + Sum(h, S \ {x})
  BY SumRemoved
<1>4. Sum(h, S \ {x}) = Sum(g, S \ {x})
  <2>1. IsFiniteSet(S \ {x})
    BY FS_RemoveElement
  <2> QED BY <2>1, SumSame
<1>5. Sum(h, S \ {x}) \in Nat
  <2>1. S \ {x} \in SUBSET S
    OBVIOUS
  <2> QED BY <2>1, SumFacts
<1>6. Charge(h.records[x]) \in Nat
  BY DEF Counts
<1> QED BY <1>2, <1>3, <1>4, <1>5, <1>6

(* One record is added. *)
LEMMA SumInsert ==
  ASSUME NEW h, NEW g, NEW S, IsFiniteSet(S), Counts(h, S), NEW x, x \notin S,
         SameCharges(h, g, S), Charge(g.records[x]) \in Nat
  PROVE  Sum(g, S \cup {x}) = Sum(h, S) + Charge(g.records[x])
<1>1. Counts(g, S \cup {x})
  BY DEF Counts, SameCharges
<1>2. IsFiniteSet(S \cup {x})
  BY FS_AddElement
<1>3. Sum(g, S \cup {x}) = Charge(g.records[x]) + Sum(g, (S \cup {x}) \ {x})
  <2>1. x \in S \cup {x}
    OBVIOUS
  <2> QED BY <1>1, <1>2, <2>1, SumRemoved
<1>4. Sum(g, (S \cup {x}) \ {x}) = Sum(g, S)
  <2>1. (S \cup {x}) \ {x} = S
    OBVIOUS
  <2> QED BY <2>1
<1>5. Sum(h, S) = Sum(g, S)
  BY SumSame
<1>6. Sum(h, S) \in Nat
  <2>1. S \in SUBSET S
    OBVIOUS
  <2> QED BY <2>1, SumFacts
<1> QED BY <1>3, <1>4, <1>5, <1>6

(***************************************************************************)
(* Subtrees                                                                *)
(***************************************************************************)
Kids(h, was) == {c.slot : c \in UNION {h.records[s].children : s \in was}}

(* A set of slots has the children of its records in it. *)
Closed(h, S) == \A s \in S : \A c \in h.records[s].children : c.slot \in S

(* Where the subtree of some slots is taken. *)
Rooted(h, slots) ==
  /\ IsFiniteSet(DOMAIN h.records)
  /\ slots \subseteq DOMAIN h.records
  /\ Closed(h, DOMAIN h.records)

(* The function by which Subtree is defined, and that it exists. *)
Grows(h, f, slots, N) ==
  f = [n \in 0..N |-> IF n = 0 THEN slots ELSE f[n - 1] \cup Kids(h, f[n - 1])]

LEMMA GrowthExists ==
  ASSUME NEW h, NEW slots, NEW N \in Nat
  PROVE  \E f : Grows(h, f, slots, N)
<1> DEFINE A == {m \in Nat : \E f : Grows(h, f, slots, m)}
<1>1. 0 \in A
  <2> DEFINE f == [n \in 0..0 |-> slots]
  <2>1. Grows(h, f, slots, 0)
    BY DEF Grows
  <2> HIDE DEF f
  <2> QED BY <2>1
<1>2. \A m \in A : m + 1 \in A
  <2>1. SUFFICES ASSUME NEW m \in A PROVE \E g : Grows(h, g, slots, m + 1)
    OBVIOUS
  <2>2. PICK f : Grows(h, f, slots, m)
    OBVIOUS
  <2> DEFINE g == [n \in 0..(m + 1) |-> IF n = m + 1 THEN f[m] \cup Kids(h, f[m]) ELSE f[n]]
  <2>3. m \in Nat
    OBVIOUS
  <2>4. \A n \in 0..m : f[n] = IF n = 0 THEN slots ELSE f[n - 1] \cup Kids(h, f[n - 1])
    BY <2>2 DEF Grows
  <2>5. \A n \in 0..(m + 1) : g[n] = IF n = 0 THEN slots ELSE g[n - 1] \cup Kids(h, g[n - 1])
    <3>1. SUFFICES ASSUME NEW n \in 0..(m + 1)
                   PROVE  g[n] = IF n = 0 THEN slots ELSE g[n - 1] \cup Kids(h, g[n - 1])
      OBVIOUS
    <3>2. CASE n = 0
      <4>1. g[0] = f[0] /\ f[0] = slots
        <5>1. 0 \in 0..(m + 1) /\ 0 # m + 1 /\ 0 \in 0..m
          BY <2>3
        <5>2. g[0] = f[0]
          BY <5>1
        <5>3. f[0] = slots
          BY <5>1, <2>4
        <5> QED BY <5>2, <5>3
      <4> QED BY <4>1, <3>2
    <3>3. CASE n \in 1..m
      <4>1. g[n] = f[n] /\ g[n - 1] = f[n - 1] /\ n \in 0..m /\ n # 0
        BY <3>3, <2>3
      <4> QED BY <4>1, <2>4
    <3>4. CASE n = m + 1
      <4>1. g[n] = f[m] \cup Kids(h, f[m]) /\ g[n - 1] = f[m] /\ n # 0
        BY <3>4, <2>3
      <4> QED BY <4>1
    <3> QED BY <3>2, <3>3, <3>4, <2>3
  <2>6. g = [n \in 0..(m + 1) |-> g[n]]
    OBVIOUS
  <2> HIDE DEF g
  <2>7. Grows(h, g, slots, m + 1)
    BY <2>5, <2>6 DEF Grows
  <2> QED BY <2>7
<1>3. A = Nat
  <2>1. A \in SUBSET Nat
    OBVIOUS
  <2> HIDE DEF A
  <2> QED BY <1>1, <1>2, <2>1, SetInduction
<1> QED BY <1>3

(* Subtree is its last value. *)
LEMMA SubtreeIs ==
  ASSUME NEW h, NEW slots, Cardinality(DOMAIN h.records) \in Nat
  PROVE  \E f : Grows(h, f, slots, Cardinality(DOMAIN h.records))
                /\ Subtree(h, slots) = f[Cardinality(DOMAIN h.records)]
<1> DEFINE N == Cardinality(DOMAIN h.records)
           f == CHOOSE f : Grows(h, f, slots, N)
<1>1. Grows(h, f, slots, N)
  <2> HIDE DEF N
  <2>1. N \in Nat
    BY DEF N
  <2> QED BY <2>1, GrowthExists
<1>2. Subtree(h, slots) = f[N]
  BY DEF Subtree, Grows, Kids
<1> QED BY <1>1, <1>2

(* Subtree is in every closed set that holds the slots. *)
LEMMA SubtreeLeast ==
  ASSUME NEW h, NEW slots, Cardinality(DOMAIN h.records) \in Nat,
         NEW S, slots \subseteq S, Closed(h, S)
  PROVE  Subtree(h, slots) \subseteq S
<1> DEFINE N == Cardinality(DOMAIN h.records)
<1>1. PICK f : Grows(h, f, slots, N) /\ Subtree(h, slots) = f[N]
  BY SubtreeIs
<1> DEFINE A == {n \in Nat : n \in 0..N => f[n] \subseteq S}
<1>2. \A n \in 0..N : f[n] = IF n = 0 THEN slots ELSE f[n - 1] \cup Kids(h, f[n - 1])
  <2> HIDE DEF N
  <2> QED BY <1>1 DEF Grows
<1>3. 0 \in A
  BY <1>2
<1>4. \A n \in A : n + 1 \in A
  <2>1. SUFFICES ASSUME NEW n \in A, n + 1 \in 0..N PROVE f[n + 1] \subseteq S
    OBVIOUS
  <2>2. n \in Nat /\ n \in 0..N
    BY <2>1
  <2>3. f[n + 1] = f[n] \cup Kids(h, f[n])
    <3>1. (n + 1) - 1 = n /\ n + 1 # 0
      BY <2>2
    <3> QED BY <2>1, <3>1, <1>2
  <2>4. f[n] \subseteq S
    BY <2>2
  <2>5. Kids(h, f[n]) \subseteq S
    BY <2>4 DEF Kids, Closed
  <2> QED BY <2>3, <2>4, <2>5
<1>5. A = Nat
  <2>1. A \in SUBSET Nat
    OBVIOUS
  <2> HIDE DEF A
  <2> QED BY <1>3, <1>4, <2>1, SetInduction
<1>6. N \in 0..N
  OBVIOUS
<1> QED BY <1>1, <1>5, <1>6

(* Subtree is closed itself: the steps it is given are enough. *)
LEMMA SubtreeClosed ==
  ASSUME NEW h, NEW slots, Rooted(h, slots)
  PROVE  /\ slots \subseteq Subtree(h, slots)
         /\ Closed(h, Subtree(h, slots))
         /\ Subtree(h, slots) \subseteq DOMAIN h.records
<1> DEFINE D == DOMAIN h.records
           N == Cardinality(D)
<1>0. N \in Nat /\ IsFiniteSet(D)
  BY FS_CardinalityType DEF Rooted
<1>1. PICK f : Grows(h, f, slots, N) /\ Subtree(h, slots) = f[N]
  BY <1>0, SubtreeIs
<1>2. \A n \in 0..N : f[n] = IF n = 0 THEN slots ELSE f[n - 1] \cup Kids(h, f[n - 1])
  <2> HIDE DEF N
  <2> QED BY <1>1 DEF Grows
<1> DEFINE A == {n \in Nat : n \in 0..N =>
                   /\ slots \subseteq f[n] /\ f[n] \subseteq D
                   /\ Closed(h, f[n]) \/ Cardinality(f[n]) >= n}
<1>3. 0 \in A
  <2>1. f[0] = slots
    <3>1. 0 \in 0..N
      BY <1>0
    <3> QED BY <3>1, <1>2
  <2>2. slots \subseteq D
    BY DEF Rooted
  <2>3. Cardinality(slots) \in Nat
    BY <2>2, <1>0, FS_Subset, FS_CardinalityType
  <2> HIDE DEF D, N
  <2> QED BY <2>1, <2>2, <2>3
<1>4. \A n \in A : n + 1 \in A
  <2>1. SUFFICES ASSUME NEW n \in A, n + 1 \in 0..N
                 PROVE  /\ slots \subseteq f[n + 1] /\ f[n + 1] \subseteq D
                        /\ Closed(h, f[n + 1]) \/ Cardinality(f[n + 1]) >= n + 1
    <3> HIDE DEF D, N
    <3> QED OBVIOUS
  <2>2. n \in Nat /\ n \in 0..N
    BY <2>1, <1>0
  <2>3. f[n + 1] = f[n] \cup Kids(h, f[n])
    <3>1. (n + 1) - 1 = n /\ n + 1 # 0
      BY <2>2
    <3> QED BY <2>1, <3>1, <1>2
  <2>4. slots \subseteq f[n] /\ f[n] \subseteq D /\ (Closed(h, f[n]) \/ Cardinality(f[n]) >= n)
    <3> HIDE DEF D, N
    <3> QED BY <2>2
  <2>5. Kids(h, f[n]) \subseteq D
    BY <2>4 DEF Kids, Closed, Rooted
  <2>6. f[n + 1] \subseteq D
    <3> HIDE DEF D
    <3> QED BY <2>3, <2>4, <2>5
  <2>7. CASE Closed(h, f[n])
    <3>1. f[n + 1] = f[n]
      BY <2>7, <2>3 DEF Closed, Kids
    <3> HIDE DEF D
    <3> QED BY <3>1, <2>4, <2>7, <2>6
  <2>8. CASE ~Closed(h, f[n])
    <3>1. f[n + 1] # f[n]
      BY <2>8, <2>3 DEF Closed, Kids
    <3>2. IsFiniteSet(f[n + 1]) /\ Cardinality(f[n + 1]) \in Nat
      BY <2>6, <1>0, FS_Subset, FS_CardinalityType
    <3>3. f[n] \in SUBSET f[n + 1]
      BY <2>3
    <3>4. Cardinality(f[n]) <= Cardinality(f[n + 1]) /\ Cardinality(f[n]) # Cardinality(f[n + 1])
      BY <3>1, <3>2, <3>3, FS_Subset
    <3>5. Cardinality(f[n]) \in Nat /\ Cardinality(f[n]) >= n
      <4>1. IsFiniteSet(f[n])
        BY <3>2, <3>3, FS_Subset
      <4> QED BY <4>1, FS_CardinalityType, <2>4, <2>8
    <3>6. Cardinality(f[n + 1]) >= n + 1
      BY ONLY <3>2, <3>4, <3>5, <2>2
    <3> HIDE DEF D
    <3> QED BY <3>6, <2>6, <2>4, <2>3
  <2> QED BY <2>7, <2>8
<1>5. A = Nat
  <2>1. A \in SUBSET Nat
    OBVIOUS
  <2> HIDE DEF A
  <2> QED BY <1>3, <1>4, <2>1, SetInduction
<1>6. slots \subseteq f[N] /\ f[N] \subseteq D /\ (Closed(h, f[N]) \/ Cardinality(f[N]) >= N)
  <2>1. N \in A /\ N \in 0..N
    <3> HIDE DEF A, N
    <3> QED BY <1>5, <1>0
  <2> HIDE DEF D, N
  <2> QED BY <2>1
<1>7. Closed(h, f[N])
  <2>1. CASE Cardinality(f[N]) >= N
    <3>1. Cardinality(f[N]) <= N /\ (N = Cardinality(f[N]) => D = f[N])
      BY <1>0, <1>6, FS_Subset
    <3>2. Cardinality(f[N]) \in Nat
      BY <1>0, <1>6, FS_Subset, FS_CardinalityType
    <3>3. N = Cardinality(f[N])
      <4> HIDE DEF N
      <4> QED BY <1>0, <3>1, <3>2, <2>1
    <3>4. D = f[N]
      BY <3>1, <3>3
    <3> QED BY <3>4 DEF Rooted
  <2> QED BY <1>6, <2>1
<1> QED BY <1>1, <1>6, <1>7

(***************************************************************************)
(* Records and heaps                                                       *)
(***************************************************************************)
(* What the assumptions say of a game. *)
LEMMA GameTypes ==
  ASSUME NEW g \in Games
  PROVE  /\ g.properties \in Nat /\ g.objects \in Nat /\ g.identities \in Nat
         /\ g.longest \in Nat /\ g.most_calls \in Nat /\ g.depth \in Nat \ {0}
         /\ g.statics \in Seq({"none", "vector", "table"})
BY Constants

(* A charge is natural. *)
LEMMA ChargeType ==
  ASSUME NEW r, NEW n, NEW g, RecordOK(r, n, g)
  PROVE  Charge(r) \in Nat
<1>1. Cardinality(DOMAIN r.properties) \in Nat /\ Cardinality(DOMAIN r.elements) \in Nat
  BY FS_CardinalityType DEF RecordOK, ElementsOK
<1>2. r.capacity \in Nat /\ r.prototypes \in Nat
  BY DEF RecordOK
<1> QED BY <1>1, <1>2 DEF Charge

(* Handles stay handles. *)
LEMMA OldGrows ==
  ASSUME NEW n \in Int, NEW m \in Int, n <= m
  PROVE  Old(n) \subseteq Old(m) /\ Ref(n) \subseteq Ref(m)
BY DEF Old, Ref

(* Elements and records stay well formed as identities are given out. *)
LEMMA ElementsLater ==
  ASSUME NEW e, NEW k, NEW g, NEW n \in Int, NEW m \in Int, n <= m, ElementsOK(e, k, n, g)
  PROVE  ElementsOK(e, k, m, g)
BY OldGrows DEF ElementsOK

LEMMA RecordLater ==
  ASSUME NEW r, NEW g, NEW n \in Int, NEW m \in Int, n <= m, RecordOK(r, n, g)
  PROVE  RecordOK(r, m, g)
<1>1. Old(n) \subseteq Old(m) /\ Ref(n) \subseteq Ref(m) /\ 1..(n - 1) \subseteq 1..(m - 1)
  BY OldGrows
<1>2. ElementsOK(r.elements, r.kind, m, g)
  BY ElementsLater DEF RecordOK
<1>3. \A p \in DOMAIN r.properties : r.properties[p] \in Ref(m)
  BY <1>1 DEF RecordOK
<1>4. \A p \in DOMAIN r.owned : r.owned[p] \in Old(m)
  BY <1>1 DEF RecordOK
<1>5. r \in [born : 1..(m - 1), lifetime : {"World", "Turn"}, kind : {"plain", "vector", "table"},
            parent : Ref(m), children : SUBSET Old(m), properties : {r.properties},
            owned : {r.owned}, elements : {r.elements}, capacity : Nat, prototypes : 0..1]
  <2>1. r \in [born : 1..(n - 1), lifetime : {"World", "Turn"}, kind : {"plain", "vector", "table"},
            parent : Ref(n), children : SUBSET Old(n), properties : {r.properties},
            owned : {r.owned}, elements : {r.elements}, capacity : Nat, prototypes : 0..1]
    BY DEF RecordOK
  <2>2. SUBSET Old(n) \subseteq SUBSET Old(m)
    BY <1>1
  <2> HIDE DEF Old, Ref
  <2> QED BY <1>1, <2>1, <2>2
<1> QED BY <1>2, <1>3, <1>4, <1>5 DEF RecordOK

(* A heap is finite, and its counter is a sum. *)
LEMMA HeapFinite ==
  ASSUME NEW h, HeapOK(h, game)
  PROVE  /\ IsFiniteSet(DOMAIN h.records) /\ Cardinality(DOMAIN h.records) \in Nat
         /\ Counts(h, DOMAIN h.records) /\ Total(h) = Sum(h, DOMAIN h.records)
         /\ Closed(h, DOMAIN h.records)
<1>1. IsFiniteSet(DOMAIN h.records)
  <2>1. h.next_identity \in Int
    BY DEF HeapOK
  <2>2. IsFiniteSet(1..(h.next_identity - 1))
    BY <2>1, FS_Interval
  <2>3. DOMAIN h.records \in SUBSET (1..(h.next_identity - 1))
    BY DEF HeapOK
  <2> QED BY <2>2, <2>3, FS_Subset
<1>2. Counts(h, DOMAIN h.records)
  BY ChargeType DEF HeapOK, Counts
<1>3. Total(h) = Sum(h, DOMAIN h.records)
  BY DEF Total, Sum
<1>4. Closed(h, DOMAIN h.records)
  BY DEF HeapOK, TreeOK, Closed, Live
<1> QED BY <1>1, <1>2, <1>3, <1>4, FS_CardinalityType

(***************************************************************************)
(* One record is rewritten                                                 *)
(***************************************************************************)
Rewrites(h, k, s, q) ==
  /\ Shaped(k) /\ k.records = [h.records EXCEPT ![s] = q]
  /\ k.roots = h.roots /\ k.free = h.free /\ k.next_identity = h.next_identity
  /\ k.status \in {"live", "terminal", "aborted"}

(* Rewriting a record without moving it leaves a heap. *)
LEMMA RewritesOK ==
  ASSUME NEW h, HeapOK(h, game), NEW k, NEW s \in DOMAIN h.records, NEW q, Rewrites(h, k, s, q),
         RecordOK(q, h.next_identity, game),
         q.born = h.records[s].born, q.parent = h.records[s].parent, q.children = h.records[s].children,
         DOMAIN q.owned \subseteq DOMAIN h.records[s].owned,
         \A p \in DOMAIN q.owned : q.owned[p] = h.records[s].owned[p],
         k.charged = h.charged - Charge(h.records[s]) + Charge(q), k.charged <= game.properties
  PROVE  HeapOK(k, game)
<1>1. DOMAIN k.records = DOMAIN h.records
  BY DEF Rewrites
<1>2. \A t \in DOMAIN h.records :
        /\ k.records[t] = IF t = s THEN q ELSE h.records[t]
        /\ k.records[t].born = h.records[t].born
        /\ k.records[t].parent = h.records[t].parent
        /\ k.records[t].children = h.records[t].children
  BY DEF Rewrites
<1>3. \A t \in DOMAIN k.records : RecordOK(k.records[t], k.next_identity, game)
  BY <1>1, <1>2 DEF HeapOK, Rewrites
<1>4. \A o : Live(k, o) <=> Live(h, o)
  BY <1>1, <1>2 DEF Live
<1>5. \A o : Live(h, o) => Of(k, o).parent = Of(h, o).parent /\ Of(k, o).children = Of(h, o).children
  BY <1>2 DEF Live, Of
<1>6. \A t \in DOMAIN h.records : HandleAt(k, t) = HandleAt(h, t)
  BY <1>2 DEF HandleAt
<1>7. TreeOK(k)
  <2>1. TreeOK(h) /\ k.roots = h.roots
    BY DEF HeapOK, Rewrites
  <2>2. \A o \in k.roots : Live(k, o) /\ Of(k, o).parent = Nil
    BY <2>1, <1>4, <1>5 DEF TreeOK
  <2>3. \A t \in DOMAIN k.records : k.records[t].parent = Nil => HandleAt(k, t) \in k.roots
    BY <2>1, <1>1, <1>2, <1>6 DEF TreeOK
  <2>4. ASSUME NEW t \in DOMAIN k.records, k.records[t].parent # Nil
        PROVE  /\ Live(k, k.records[t].parent) /\ HandleAt(k, t) \in Of(k, k.records[t].parent).children
               /\ k.records[t].parent.born < k.records[t].born
    <3>1. t \in DOMAIN h.records /\ k.records[t].parent = h.records[t].parent
          /\ k.records[t].born = h.records[t].born /\ HandleAt(k, t) = HandleAt(h, t)
      BY <1>1, <1>2, <1>6
    <3>2. /\ Live(h, h.records[t].parent) /\ HandleAt(h, t) \in Of(h, h.records[t].parent).children
          /\ h.records[t].parent.born < h.records[t].born
      BY <2>1, <2>4, <3>1 DEF TreeOK
    <3> QED BY <3>1, <3>2, <1>4, <1>5
  <2>5. ASSUME NEW t \in DOMAIN k.records, NEW c \in k.records[t].children
        PROVE  Live(k, c) /\ Of(k, c).parent = HandleAt(k, t)
    <3>1. t \in DOMAIN h.records /\ c \in h.records[t].children /\ HandleAt(k, t) = HandleAt(h, t)
      BY <1>1, <1>2, <1>6
    <3>2. Live(h, c) /\ Of(h, c).parent = HandleAt(h, t)
      BY <2>1, <3>1 DEF TreeOK
    <3> QED BY <3>1, <3>2, <1>4, <1>5
  <2> QED BY <2>2, <2>3, <2>4, <2>5 DEF TreeOK
<1>8. k.charged = Total(k)
  <2>1. SameCharges(h, k, (DOMAIN h.records) \ {s})
    BY <1>2 DEF SameCharges
  <2>2. k.records[s] = q
    BY <1>2
  <2>3. Charge(k.records[s]) \in Nat
    BY <2>2, ChargeType
  <2>4. IsFiniteSet(DOMAIN h.records) /\ Counts(h, DOMAIN h.records)
        /\ Total(h) = Sum(h, DOMAIN h.records)
    BY HeapFinite
  <2>5. Sum(k, DOMAIN h.records) = Sum(h, DOMAIN h.records) - Charge(h.records[s]) + Charge(k.records[s])
    BY <2>1, <2>3, <2>4, SumUpdate
  <2>6. Total(k) = Sum(k, DOMAIN h.records)
    BY <1>1 DEF Total, Sum
  <2>7. h.charged = Total(h)
    BY DEF HeapOK
  <2> QED BY <2>2, <2>4, <2>5, <2>6, <2>7
<1>9. OwnsOK(k)
  <2>1. SUFFICES ASSUME NEW t \in DOMAIN h.records, NEW p \in DOMAIN k.records[t].owned,
                        NEW c, c = k.records[t].owned[p], Live(k, c)
                 PROVE  k.records[c.slot].parent = HandleAt(k, t)
    BY <1>1 DEF OwnsOK
  <2>2. p \in DOMAIN h.records[t].owned /\ h.records[t].owned[p] = c
    BY <2>1, <1>2
  <2>3. h.records[c.slot].parent = HandleAt(h, t) /\ c.slot \in DOMAIN h.records
    BY <2>1, <2>2, <1>4 DEF HeapOK, OwnsOK, Live
  <2> QED BY <2>3, <1>2, <1>6
<1> QED BY <1>1, <1>3, <1>7, <1>8, <1>9 DEF HeapOK, Rewrites

(***************************************************************************)
(* Records are taken out                                                   *)
(***************************************************************************)
(* A record of a heap from which the slots S are taken: it loses the       *)
(* children that go, and perhaps fields that owned.                        *)
Bereft(r, q, S) ==
  /\ q = [r EXCEPT !.children = q.children, !.owned = q.owned]
  /\ q.children = {c \in r.children : c.slot \notin S}
  /\ IsFun(q.owned) /\ DOMAIN q.owned \subseteq DOMAIN r.owned
  /\ \A p \in DOMAIN q.owned : q.owned[p] = r.owned[p]

(* Slots are taken out of a heap. *)
Cuts(h, k, S) ==
  /\ Shaped(k) /\ DOMAIN k.records = (DOMAIN h.records) \ S
  /\ \A s \in DOMAIN k.records : Bereft(h.records[s], k.records[s], S)
  /\ k.roots = {o \in h.roots : o.slot \notin S}
  /\ k.free = h.free \cup S /\ k.next_identity = h.next_identity
  /\ k.charged = h.charged - Sum(h, S)
  /\ k.status \in {"live", "terminal", "aborted"}

(* Such a record stays a record, with the same charge. *)
LEMMA BereftOK ==
  ASSUME NEW r, NEW q, NEW S, NEW n, NEW g, RecordOK(r, n, g), Bereft(r, q, S)
  PROVE  /\ RecordOK(q, n, g) /\ Charge(q) = Charge(r)
         /\ q.born = r.born /\ q.parent = r.parent /\ q.kind = r.kind /\ q.lifetime = r.lifetime
         /\ q.prototypes = r.prototypes /\ q.elements = r.elements /\ q.properties = r.properties
         /\ q.capacity = r.capacity
<1>1. r \in [born : 1..(n - 1), lifetime : {"World", "Turn"}, kind : {"plain", "vector", "table"},
            parent : Ref(n), children : SUBSET Old(n), properties : {r.properties},
            owned : {r.owned}, elements : {r.elements}, capacity : Nat, prototypes : 0..1]
  BY DEF RecordOK
<1>2. q = [r EXCEPT !.children = q.children, !.owned = q.owned]
  BY DEF Bereft
<1>3. /\ q.born = r.born /\ q.parent = r.parent /\ q.kind = r.kind /\ q.lifetime = r.lifetime
      /\ q.prototypes = r.prototypes /\ q.elements = r.elements /\ q.properties = r.properties
      /\ q.capacity = r.capacity
  BY <1>1, <1>2
<1>4. q.children \in SUBSET Old(n)
  BY <1>1 DEF Bereft
<1>5. q \in [born : 1..(n - 1), lifetime : {"World", "Turn"}, kind : {"plain", "vector", "table"},
            parent : Ref(n), children : SUBSET Old(n), properties : {q.properties},
            owned : {q.owned}, elements : {q.elements}, capacity : Nat, prototypes : 0..1]
  BY <1>1, <1>2, <1>3, <1>4
<1>6. Charge(q) = Charge(r)
  BY <1>3 DEF Charge
<1>7. RecordOK(q, n, g)
  <2>1. IsFun(q.owned) /\ DOMAIN q.owned \subseteq DOMAIN q.properties
        /\ \A p \in DOMAIN q.owned : q.owned[p] \in Old(n)
    BY <1>3 DEF Bereft, RecordOK
  <2> QED BY <1>3, <1>5, <2>1 DEF RecordOK
<1> QED BY <1>3, <1>6, <1>7

(* Taking a closed set of slots out leaves a heap. *)
LEMMA CutsOK ==
  ASSUME NEW h, HeapOK(h, game), NEW k, NEW S \in SUBSET (DOMAIN h.records), Closed(h, S), Cuts(h, k, S)
  PROVE  HeapOK(k, game)
<1> DEFINE D == DOMAIN h.records
           E == DOMAIN k.records
<1>1. E = D \ S /\ E \subseteq D
  BY DEF Cuts
<1>2. \A s \in E : /\ RecordOK(k.records[s], h.next_identity, game)
                   /\ Charge(k.records[s]) = Charge(h.records[s])
                   /\ k.records[s].born = h.records[s].born /\ k.records[s].parent = h.records[s].parent
  <2>1. SUFFICES ASSUME NEW s \in E
                 PROVE /\ RecordOK(k.records[s], h.next_identity, game)
                       /\ Charge(k.records[s]) = Charge(h.records[s])
                       /\ k.records[s].born = h.records[s].born /\ k.records[s].parent = h.records[s].parent
    OBVIOUS
  <2>2. RecordOK(h.records[s], h.next_identity, game) /\ Bereft(h.records[s], k.records[s], S)
    BY <1>1 DEF HeapOK, Cuts
  <2> QED BY <2>2, BereftOK
<1>3. \A s \in E : k.records[s].children = {c \in h.records[s].children : c.slot \notin S}
  BY DEF Cuts, Bereft
<1>4. \A o : Live(k, o) <=> Live(h, o) /\ o.slot \notin S
  BY <1>1, <1>2 DEF Live
<1>5. \A s \in E : HandleAt(k, s) = HandleAt(h, s)
  BY <1>2 DEF HandleAt
<1>6. TreeOK(k)
  <2>1. TreeOK(h) /\ k.roots = {o \in h.roots : o.slot \notin S}
    BY DEF HeapOK, Cuts
  <2>2. ASSUME NEW o \in k.roots PROVE Live(k, o) /\ Of(k, o).parent = Nil
    <3>1. Live(h, o) /\ Of(h, o).parent = Nil /\ o.slot \notin S
      BY <2>1 DEF TreeOK
    <3>2. Live(k, o) /\ o.slot \in E
      BY <3>1, <1>4 DEF Live
    <3> QED BY <3>1, <3>2, <1>2 DEF Of
  <2>3. ASSUME NEW t \in E, k.records[t].parent = Nil PROVE HandleAt(k, t) \in k.roots
    <3>1. HandleAt(h, t) \in h.roots
      BY <2>1, <2>3, <1>1, <1>2 DEF TreeOK
    <3>2. HandleAt(h, t).slot \notin S
      BY <1>1 DEF HandleAt
    <3> QED BY <3>1, <3>2, <2>1, <1>5
  <2>4. ASSUME NEW t \in E, k.records[t].parent # Nil
        PROVE  /\ Live(k, k.records[t].parent) /\ HandleAt(k, t) \in Of(k, k.records[t].parent).children
               /\ k.records[t].parent.born < k.records[t].born
    <3> DEFINE p == h.records[t].parent
    <3>1. /\ Live(h, p) /\ HandleAt(h, t) \in Of(h, p).children /\ p.born < h.records[t].born
          /\ k.records[t].parent = p
      BY <2>1, <2>4, <1>1, <1>2 DEF TreeOK
    <3>2. HandleAt(h, t).slot = t
      BY DEF HandleAt
    <3>3. p.slot \notin S
      BY <3>1, <3>2, <1>1 DEF Closed, Of
    <3>4. Live(k, p) /\ p.slot \in E
      BY <3>1, <3>3, <1>4 DEF Live
    <3>5. HandleAt(h, t) \in k.records[p.slot].children
      BY <3>1, <3>2, <3>4, <1>1, <1>3 DEF Of
    <3> QED BY <3>1, <3>4, <3>5, <1>2, <1>5 DEF Of
  <2>5. ASSUME NEW t \in E, NEW c \in k.records[t].children
        PROVE  Live(k, c) /\ Of(k, c).parent = HandleAt(k, t)
    <3>1. c \in h.records[t].children /\ c.slot \notin S
      BY <1>3
    <3>2. Live(h, c) /\ Of(h, c).parent = HandleAt(h, t)
      BY <2>1, <3>1, <1>1 DEF TreeOK
    <3>3. Live(k, c) /\ c.slot \in E
      BY <3>1, <3>2, <1>4 DEF Live
    <3> QED BY <3>2, <3>3, <1>2, <1>5 DEF Of
  <2> HIDE DEF D, E
  <2> QED BY <2>1, <2>2, <2>3, <2>4, <2>5 DEF TreeOK, E
<1>7. k.charged = Total(k) /\ k.charged <= game.properties
  <2>1. IsFiniteSet(D) /\ Counts(h, D) /\ Total(h) = Sum(h, D) /\ h.charged = Total(h) /\ h.charged <= game.properties
    BY HeapFinite DEF HeapOK
  <2>2. Sum(h, D) = Sum(h, S) + Sum(h, D \ S)
    BY <2>1, SumSplit
  <2>3. Sum(h, S) \in Nat /\ Sum(h, D \ S) \in Nat
    <3>1. S \in SUBSET D /\ D \ S \in SUBSET D
      OBVIOUS
    <3> QED BY <2>1, <3>1, SumFacts
  <2>4. Sum(k, E) = Sum(h, D \ S)
    <3>1. SameCharges(k, h, E)
      BY <1>2 DEF SameCharges
    <3>2. IsFiniteSet(E)
      BY <1>1, <2>1, FS_Subset
    <3>3. Sum(k, E) = Sum(h, E)
      BY <3>1, <3>2, SumSame
    <3> QED BY <3>3, <1>1
  <2>5. Total(k) = Sum(k, E)
    BY DEF Total, Sum
  <2>6. k.charged = h.charged - Sum(h, S)
    BY DEF Cuts
  <2>7. game.properties \in Int
    BY GameTypes DEF HeapOK
  <2> HIDE DEF D, E
  <2> QED BY <2>1, <2>2, <2>3, <2>4, <2>5, <2>6, <2>7
<1>8. E \cup k.free \subseteq 1..(k.next_identity - 1) /\ E \cap k.free = {}
  BY <1>1 DEF Cuts, HeapOK
<1>9. OwnsOK(k)
  <2>1. SUFFICES ASSUME NEW t \in E, NEW p \in DOMAIN k.records[t].owned,
                        NEW c, c = k.records[t].owned[p], Live(k, c)
                 PROVE  k.records[c.slot].parent = HandleAt(k, t)
    BY DEF OwnsOK
  <2>2. p \in DOMAIN h.records[t].owned /\ h.records[t].owned[p] = c
    BY <2>1 DEF Cuts, Bereft
  <2>3. h.records[c.slot].parent = HandleAt(h, t) /\ c.slot \in E
    BY <2>1, <2>2, <1>1, <1>4 DEF HeapOK, OwnsOK, Live
  <2> QED BY <2>3, <1>2, <1>5
<1>10. Cardinality(E) <= game.objects
  <2>1. IsFiniteSet(D) /\ Cardinality(D) \in Nat /\ Cardinality(D) <= game.objects
    BY HeapFinite DEF HeapOK
  <2>2. Cardinality(E) <= Cardinality(D) /\ Cardinality(E) \in Nat
    BY <2>1, <1>1, FS_Subset, FS_CardinalityType
  <2>3. game.objects \in Int
    BY GameTypes DEF HeapOK
  <2> HIDE DEF D, E
  <2> QED BY <2>1, <2>2, <2>3
<1> QED BY <1>1, <1>2, <1>6, <1>7, <1>8, <1>9, <1>10 DEF HeapOK, Cuts

(***************************************************************************)
(* What survives of a record, and of a heap                                *)
(***************************************************************************)
Kin(r, q) ==
  /\ q.born = r.born /\ q.kind = r.kind /\ q.prototypes = r.prototypes
  /\ DOMAIN q.owned \subseteq DOMAIN r.owned /\ \A p \in DOMAIN q.owned : q.owned[p] = r.owned[p]

(* A record keeps its kind and loses no room. *)
Heir(r, q) ==
  /\ Kin(r, q) /\ r.capacity <= q.capacity
  /\ r.kind = "table" => Cardinality(DOMAIN r.elements) <= Cardinality(DOMAIN q.elements)

(* Every record of k is new or was in h already: no identity comes back. *)
Descends(h, k) ==
  /\ h.next_identity <= k.next_identity
  /\ \A s \in DOMAIN k.records :
       \/ k.records[s].born >= h.next_identity
       \/ s \in DOMAIN h.records /\ Kin(h.records[s], k.records[s])

(* The same, and no container loses room. *)
Follows(h, k) ==
  /\ h.next_identity <= k.next_identity
  /\ \A s \in DOMAIN k.records :
       \/ k.records[s].born >= h.next_identity
       \/ s \in DOMAIN h.records /\ Heir(h.records[s], k.records[s])

(* A root is still one, with the children it had. *)
Loyal(h, k, a) ==
  /\ a \in k.roots
  /\ \A s \in DOMAIN h.records : h.records[s].parent = a =>
       s \in DOMAIN k.records /\ k.records[s].born = h.records[s].born /\ k.records[s].parent = a

(* The sizes of a record are integers. *)
LEMMA RecordSizes ==
  ASSUME NEW r, NEW n, NEW g, RecordOK(r, n, g)
  PROVE  r.capacity \in Int /\ Cardinality(DOMAIN r.elements) \in Int
BY FS_CardinalityType DEF RecordOK, ElementsOK

(* Both relations hold across several operations. *)
LEMMA FollowsDescends ==
  ASSUME NEW h, NEW k, Follows(h, k) PROVE Descends(h, k)
BY DEF Follows, Descends, Heir

LEMMA DescendsJoin ==
  ASSUME NEW h, NEW k, NEW m, HeapOK(h, game), HeapOK(k, game), HeapOK(m, game),
         Descends(h, k), Descends(k, m)
  PROVE  Descends(h, m)
<1>1. h.next_identity \in Int /\ k.next_identity \in Int /\ m.next_identity \in Int
      /\ h.next_identity <= k.next_identity /\ k.next_identity <= m.next_identity
  BY DEF HeapOK, Descends
<1>2. ASSUME NEW s \in DOMAIN m.records
      PROVE  \/ m.records[s].born >= h.next_identity
             \/ s \in DOMAIN h.records /\ Kin(h.records[s], m.records[s])
  <2>1. CASE m.records[s].born >= k.next_identity
    <3>1. m.records[s].born \in Int
      BY <1>2 DEF HeapOK, RecordOK
    <3> QED BY <1>1, <2>1, <3>1
  <2>2. CASE s \in DOMAIN k.records /\ Kin(k.records[s], m.records[s])
    BY <2>2 DEF Descends, Kin
  <2> QED BY <2>1, <2>2 DEF Descends
<1> QED BY <1>1, <1>2 DEF Descends

LEMMA FollowsJoin ==
  ASSUME NEW h, NEW k, NEW m, HeapOK(h, game), HeapOK(k, game), HeapOK(m, game),
         Follows(h, k), Follows(k, m)
  PROVE  Follows(h, m)
<1>1. h.next_identity \in Int /\ k.next_identity \in Int /\ m.next_identity \in Int
      /\ h.next_identity <= k.next_identity /\ k.next_identity <= m.next_identity
  BY DEF HeapOK, Follows
<1>2. ASSUME NEW s \in DOMAIN m.records
      PROVE  \/ m.records[s].born >= h.next_identity
             \/ s \in DOMAIN h.records /\ Heir(h.records[s], m.records[s])
  <2>1. CASE m.records[s].born >= k.next_identity
    <3>1. m.records[s].born \in Int
      BY <1>2 DEF HeapOK, RecordOK
    <3> QED BY <1>1, <2>1, <3>1
  <2>2. CASE /\ s \in DOMAIN k.records /\ Heir(k.records[s], m.records[s])
             /\ k.records[s].born >= h.next_identity
    BY <2>2 DEF Heir, Kin
  <2>3. CASE /\ s \in DOMAIN k.records /\ Heir(k.records[s], m.records[s])
             /\ s \in DOMAIN h.records /\ Heir(h.records[s], k.records[s])
    <3>1. /\ h.records[s].capacity \in Int /\ k.records[s].capacity \in Int /\ m.records[s].capacity \in Int
          /\ Cardinality(DOMAIN h.records[s].elements) \in Int
          /\ Cardinality(DOMAIN k.records[s].elements) \in Int
          /\ Cardinality(DOMAIN m.records[s].elements) \in Int
      <4>1. /\ RecordOK(h.records[s], h.next_identity, game) /\ RecordOK(k.records[s], k.next_identity, game)
            /\ RecordOK(m.records[s], m.next_identity, game)
        BY <1>2, <2>3 DEF HeapOK
      <4> QED BY <4>1, RecordSizes
    <3> QED BY <2>3, <3>1 DEF Heir, Kin
  <2> QED BY <2>1, <2>2, <2>3 DEF Follows
<1> QED BY <1>1, <1>2 DEF Follows

(* So does keeping a root. *)
LEMMA LoyalJoin ==
  ASSUME NEW h, NEW k, NEW m, NEW a, Loyal(h, k, a), Loyal(k, m, a)
  PROVE  Loyal(h, m, a)
BY DEF Loyal

(* Taking slots out brings nothing back, and leaves the other roots alone. *)
LEMMA CutsFollows ==
  ASSUME NEW h, HeapOK(h, game), NEW k, NEW S, Cuts(h, k, S)
  PROVE  /\ Follows(h, k)
         /\ \A a \in h.roots : a.slot \notin S
              /\ (\A s \in DOMAIN h.records : h.records[s].parent = a => s \notin S) => Loyal(h, k, a)
<1>1. \A s \in DOMAIN k.records : s \in DOMAIN h.records /\ Heir(h.records[s], k.records[s])
      /\ k.records[s].parent = h.records[s].parent
  <2>1. SUFFICES ASSUME NEW s \in DOMAIN k.records
        PROVE s \in DOMAIN h.records /\ Heir(h.records[s], k.records[s])
              /\ k.records[s].parent = h.records[s].parent
    OBVIOUS
  <2>2. s \in DOMAIN h.records /\ Bereft(h.records[s], k.records[s], S)
    BY DEF Cuts
  <2>3. RecordOK(h.records[s], h.next_identity, game)
    BY <2>2 DEF HeapOK
  <2>4. h.records[s].capacity \in Int /\ Cardinality(DOMAIN h.records[s].elements) \in Int
    BY <2>3, FS_CardinalityType DEF RecordOK, ElementsOK
  <2>5. /\ k.records[s].born = h.records[s].born /\ k.records[s].parent = h.records[s].parent
        /\ k.records[s].kind = h.records[s].kind
        /\ k.records[s].prototypes = h.records[s].prototypes /\ k.records[s].elements = h.records[s].elements
        /\ k.records[s].capacity = h.records[s].capacity
    BY <2>2, <2>3, BereftOK
  <2>6. /\ DOMAIN k.records[s].owned \subseteq DOMAIN h.records[s].owned
        /\ \A p \in DOMAIN k.records[s].owned : k.records[s].owned[p] = h.records[s].owned[p]
    BY <2>2 DEF Bereft
  <2> QED BY <2>2, <2>4, <2>5, <2>6 DEF Heir, Kin
<1>2. h.next_identity <= k.next_identity
  BY DEF HeapOK, Cuts
<1>3. ASSUME NEW a \in h.roots, a.slot \notin S,
             \A s \in DOMAIN h.records : h.records[s].parent = a => s \notin S
      PROVE  Loyal(h, k, a)
  BY <1>1, <1>3 DEF Loyal, Cuts, Heir, Kin
<1> QED BY <1>1, <1>2, <1>3 DEF Follows

(***************************************************************************)
(* Creating                                                                *)
(***************************************************************************)
(* Creating a record: its slot was free and its identity is new. *)
LEMMA CreatedOK ==
  ASSUME NEW h, HeapOK(h, game), NEW slot \in Slots(h), CanCreate(h), NEW lifetime \in {"World", "Turn"},
         NEW k, k = Created(h, slot, lifetime)
  PROVE  /\ HeapOK(k, game) /\ Follows(h, k) /\ \A a \in h.roots : Loyal(h, k, a)
         /\ slot \notin DOMAIN h.records /\ DOMAIN k.records = DOMAIN h.records \cup {slot}
         /\ k.records[slot] = Blank(h.next_identity, lifetime)
         /\ \A s \in DOMAIN h.records : k.records[s] = h.records[s]
         /\ k.roots = h.roots \cup {[slot |-> slot, born |-> h.next_identity]}
         /\ k.charged = h.charged /\ k.status = h.status /\ k.next_identity = h.next_identity + 1
<1> DEFINE n == h.next_identity
           o == [slot |-> slot, born |-> n]
           b == Blank(n, lifetime)
<1>1. n \in Nat \ {0} /\ n + 1 \in 1..game.identities
  BY GameTypes DEF CanCreate, HeapOK, MaxIdentity
<1>2. slot \notin DOMAIN h.records /\ slot \in 1..n
  BY <1>1 DEF Slots, HeapOK
<1>3. /\ Shaped(k) /\ DOMAIN k.records = DOMAIN h.records \cup {slot}
      /\ k.records[slot] = b
      /\ \A s \in DOMAIN h.records : k.records[s] = h.records[s]
      /\ k.roots = h.roots \cup {o} /\ k.free = h.free \ {slot}
      /\ k.charged = h.charged /\ k.status = h.status /\ k.next_identity = n + 1
  <2>1. Shaped(h)
    BY DEF HeapOK
  <2> HIDE DEF b
  <2>2. k.records = With(h.records, slot, b)
    BY <2>1 DEF Created, Shaped, b
  <2>3. /\ k \in [records : {k.records}, roots : {k.roots}, free : {k.free}, next_identity : {k.next_identity},
         charged : {k.charged}, status : {k.status}]
        /\ k.roots = h.roots \cup {o} /\ k.free = h.free \ {slot}
        /\ k.charged = h.charged /\ k.status = h.status /\ k.next_identity = n + 1
    BY <2>1 DEF Created, Shaped
  <2>5. k.records = [s \in DOMAIN h.records \cup {slot} |-> IF s = slot THEN b ELSE h.records[s]]
    BY <2>2 DEF With
  <2>4. /\ IsFun(k.records) /\ DOMAIN k.records = DOMAIN h.records \cup {slot}
        /\ k.records[slot] = b
        /\ \A s \in DOMAIN h.records : k.records[s] = h.records[s]
    BY <2>5, <1>2 DEF IsFun
  <2> QED BY <2>3, <2>4 DEF Shaped
<1>4. RecordOK(b, n + 1, game)
  <2>1. IsFun(Nothing) /\ DOMAIN Nothing = {}
    BY DEF IsFun, Nothing
  <2>2. IsFiniteSet(DOMAIN Nothing) /\ Cardinality(DOMAIN Nothing) = 0
    BY <2>1, FS_EmptySet
  <2>3. ElementsOK(Nothing, "plain", n + 1, game)
    BY <2>1, <2>2 DEF ElementsOK
  <2>4. n \in 1..((n + 1) - 1)
    BY <1>1
  <2> QED BY <2>1, <2>2, <2>3, <2>4 DEF RecordOK, Blank, Ref
<1>5. Charge(b) = 0
  <2>1. DOMAIN Nothing = {}
    BY DEF Nothing
  <2>2. Cardinality(DOMAIN Nothing) = 0
    BY <2>1, FS_EmptySet
  <2> QED BY <2>2 DEF Charge, Blank
<1>6. /\ b.born = n /\ b.parent = Nil /\ b.children = {}
  BY DEF Blank
<1> HIDE DEF b
<1>7. \A s \in DOMAIN k.records : RecordOK(k.records[s], n + 1, game)
  <2>1. \A s \in DOMAIN h.records : RecordOK(h.records[s], n + 1, game)
    <3>1. \A s \in DOMAIN h.records : RecordOK(h.records[s], n, game)
      BY DEF HeapOK
    <3>2. n \in Int /\ n + 1 \in Int /\ n <= n + 1
      BY <1>1
    <3> HIDE DEF n
    <3> QED BY <3>1, <3>2, RecordLater
  <2> QED BY <1>3, <1>4, <2>1
<1>8. \A x : Live(h, x) => Live(k, x) /\ Of(k, x) = Of(h, x)
  BY <1>2, <1>3 DEF Live, Of
<1>9. TreeOK(k)
  <2>1. TreeOK(h)
    BY DEF HeapOK
  <2>2. Nil # o
    <3>1. o \in [slot : Nat, born : Nat]
      BY <1>1, <1>2
    <3> QED BY <3>1, NilIsNoHandle
  <2>3. HandleAt(k, slot) = o
    BY <1>3, <1>6 DEF HandleAt
  <2>4. \A s \in DOMAIN h.records : HandleAt(k, s) = HandleAt(h, s)
    BY <1>3 DEF HandleAt
  <2>5. ASSUME NEW x \in k.roots PROVE Live(k, x) /\ Of(k, x).parent = Nil
    <3>1. CASE x = o
      BY <3>1, <1>3, <1>6, <2>2 DEF Live, Of
    <3>2. CASE x \in h.roots
      BY <3>2, <2>1, <1>8 DEF TreeOK
    <3> QED BY <3>1, <3>2, <1>3
  <2>6. ASSUME NEW s \in DOMAIN k.records, k.records[s].parent = Nil PROVE HandleAt(k, s) \in k.roots
    BY <2>6, <1>3, <2>1, <2>3, <2>4 DEF TreeOK
  <2>7. ASSUME NEW s \in DOMAIN k.records, k.records[s].parent # Nil
        PROVE  /\ Live(k, k.records[s].parent) /\ HandleAt(k, s) \in Of(k, k.records[s].parent).children
               /\ k.records[s].parent.born < k.records[s].born
    <3>1. s \in DOMAIN h.records /\ k.records[s] = h.records[s]
      BY <2>7, <1>3, <1>6
    <3> QED BY <3>1, <2>1, <2>7, <1>8, <2>4 DEF TreeOK
  <2>8. ASSUME NEW s \in DOMAIN k.records, NEW c \in k.records[s].children
        PROVE  Live(k, c) /\ Of(k, c).parent = HandleAt(k, s)
    <3>1. s \in DOMAIN h.records /\ k.records[s] = h.records[s]
      BY <2>8, <1>3, <1>6
    <3> QED BY <3>1, <2>1, <2>8, <1>8, <2>4 DEF TreeOK
  <2> QED BY <2>5, <2>6, <2>7, <2>8 DEF TreeOK
<1>10. k.charged = Total(k) /\ k.charged <= game.properties
  <2>1. IsFiniteSet(DOMAIN h.records) /\ Counts(h, DOMAIN h.records) /\ Total(h) = Sum(h, DOMAIN h.records)
    BY HeapFinite
  <2>2. SameCharges(h, k, DOMAIN h.records)
    BY <1>3 DEF SameCharges
  <2>3. Charge(k.records[slot]) = 0
    BY <1>3, <1>5
  <2>4. Sum(k, DOMAIN h.records \cup {slot}) = Sum(h, DOMAIN h.records) + Charge(k.records[slot])
    BY <1>2, <2>1, <2>2, <2>3, SumInsert
  <2>5. Total(k) = Sum(k, DOMAIN k.records)
    BY DEF Total, Sum
  <2>6. Sum(h, DOMAIN h.records) \in Nat
    <3>1. DOMAIN h.records \in SUBSET DOMAIN h.records
      OBVIOUS
    <3> QED BY <3>1, <2>1, SumFacts
  <2>7. Total(k) = Total(h)
    BY <2>1, <2>3, <2>4, <2>5, <2>6, <1>3
  <2> QED BY <2>7, <1>3 DEF HeapOK
<1>11. HeapOK(k, game)
  <2>1. k.roots \subseteq Old(k.next_identity)
    <3>1. h.roots \subseteq Old(n)
      BY DEF HeapOK
    <3>2. Old(n) \subseteq Old(n + 1)
      BY <1>1 DEF Old
    <3>3. o \in Old(n + 1)
      BY <1>1, <1>2 DEF Old
    <3> QED BY <1>3, <3>1, <3>2, <3>3
  <2>2. DOMAIN k.records \cup k.free \subseteq 1..(k.next_identity - 1) /\ DOMAIN k.records \cap k.free = {}
    BY <1>1, <1>2, <1>3 DEF HeapOK
  <2>3. k.status \in {"live", "terminal", "aborted"} /\ game \in Games
    BY <1>3 DEF HeapOK
  <2>4. OwnsOK(k)
    <3>1. SUFFICES ASSUME NEW s \in DOMAIN k.records, NEW p \in DOMAIN k.records[s].owned,
                          NEW c, c = k.records[s].owned[p], Live(k, c)
                   PROVE  k.records[c.slot].parent = HandleAt(k, s)
      BY DEF OwnsOK
    <3>2. DOMAIN b.owned = {}
      BY DEF b, Blank, Nothing
    <3>3. s \in DOMAIN h.records /\ k.records[s] = h.records[s]
      BY <3>1, <3>2, <1>3
    <3>4. c \in Old(n)
      BY <3>1, <3>3 DEF HeapOK, RecordOK
    <3>5. c.born \in Int /\ c.born # n
      BY <3>4, <1>1 DEF Old
    <3>6. c.slot # slot
      BY <3>1, <3>5, <1>3, <1>6 DEF Live
    <3>7. c.slot \in DOMAIN h.records /\ Live(h, c) /\ k.records[c.slot] = h.records[c.slot]
      BY <3>1, <3>6, <1>3 DEF Live
    <3>8. h.records[c.slot].parent = HandleAt(h, s)
      BY <3>1, <3>3, <3>7 DEF HeapOK, OwnsOK
    <3>9. HandleAt(k, s) = HandleAt(h, s)
      BY <3>3 DEF HandleAt
    <3> QED BY <3>7, <3>8, <3>9
  <2>5. Cardinality(DOMAIN k.records) <= game.objects
    <3>1. IsFiniteSet(DOMAIN h.records) /\ Cardinality(DOMAIN h.records) \in Nat
      BY HeapFinite
    <3>2. Cardinality(DOMAIN h.records \cup {slot}) = Cardinality(DOMAIN h.records) + 1
      BY <3>1, <1>2, FS_AddElement
    <3>3. Cardinality(DOMAIN h.records) < game.objects /\ game.objects \in Int
      BY GameTypes DEF CanCreate, ObjectLimit, HeapOK
    <3>4. Cardinality(DOMAIN k.records) = Cardinality(DOMAIN h.records) + 1
      BY <3>2, <1>3
    <3> QED BY <3>1, <3>4, <3>3
  <2> QED BY <1>1, <1>3, <1>7, <1>9, <1>10, <2>1, <2>2, <2>3, <2>4, <2>5 DEF HeapOK
<1>12. Follows(h, k)
  <2>1. \A s \in DOMAIN h.records : h.records[s].capacity \in Int
                                    /\ Cardinality(DOMAIN h.records[s].elements) \in Int
    BY FS_CardinalityType DEF HeapOK, RecordOK, ElementsOK
  <2>2. \A s \in DOMAIN h.records : Heir(h.records[s], k.records[s])
    BY <1>3, <2>1 DEF Heir, Kin
  <2> QED BY <1>1, <1>3, <1>6, <2>2 DEF Follows
<1>13. \A a \in h.roots : Loyal(h, k, a)
  BY <1>3 DEF Loyal
<1> QED BY <1>2, <1>3, <1>11, <1>12, <1>13 DEF b

(***************************************************************************)
(* Adopting                                                                *)
(***************************************************************************)
(* The set a record is in. *)
RecordSet(r, n) ==
  [born : 1..(n - 1), lifetime : {"World", "Turn"}, kind : {"plain", "vector", "table"},
   parent : Ref(n), children : SUBSET Old(n), properties : {r.properties},
   owned : {r.owned}, elements : {r.elements}, capacity : Nat, prototypes : 0..1]

(* A record gets another parent. *)
LEMMA ParentChanged ==
  ASSUME NEW r, NEW n, NEW g, RecordOK(r, n, g), NEW p \in Ref(n),
         NEW q, q = [r EXCEPT !.parent = p]
  PROVE  /\ RecordOK(q, n, g) /\ Heir(r, q) /\ Charge(q) = Charge(r)
         /\ q.born = r.born /\ q.children = r.children /\ q.parent = p /\ q.owned = r.owned
<1>1. r \in RecordSet(r, n)
  BY DEF RecordOK, RecordSet
<1>2. /\ q.born = r.born /\ q.parent = p /\ q.kind = r.kind /\ q.lifetime = r.lifetime
      /\ q.prototypes = r.prototypes /\ q.elements = r.elements /\ q.properties = r.properties
      /\ q.capacity = r.capacity /\ q.children = r.children /\ q.owned = r.owned
  BY <1>1 DEF RecordSet
<1>3. q \in RecordSet(q, n)
  BY <1>1, <1>2 DEF RecordSet
<1>4. RecordOK(q, n, g)
  BY <1>2, <1>3 DEF RecordOK, RecordSet
<1>5. Heir(r, q)
  BY <1>2, RecordSizes DEF Heir, Kin
<1> QED BY <1>2, <1>4, <1>5 DEF Charge

(* A record gets other children. *)
LEMMA ChildrenChanged ==
  ASSUME NEW r, NEW n, NEW g, RecordOK(r, n, g), NEW cs \in SUBSET Old(n),
         NEW q, q = [r EXCEPT !.children = cs]
  PROVE  /\ RecordOK(q, n, g) /\ Heir(r, q) /\ Charge(q) = Charge(r)
         /\ q.born = r.born /\ q.parent = r.parent /\ q.children = cs /\ q.owned = r.owned
<1>1. r \in RecordSet(r, n)
  BY DEF RecordOK, RecordSet
<1>2. /\ q.born = r.born /\ q.parent = r.parent /\ q.kind = r.kind /\ q.lifetime = r.lifetime
      /\ q.prototypes = r.prototypes /\ q.elements = r.elements /\ q.properties = r.properties
      /\ q.capacity = r.capacity /\ q.children = cs /\ q.owned = r.owned
  BY <1>1 DEF RecordSet
<1>3. q \in RecordSet(q, n)
  BY <1>1, <1>2 DEF RecordSet
<1>4. RecordOK(q, n, g)
  BY <1>2, <1>3 DEF RecordOK, RecordSet
<1>5. Heir(r, q)
  BY <1>2, RecordSizes DEF Heir, Kin
<1> QED BY <1>2, <1>4, <1>5 DEF Charge

(* A record moves between an owner and the roots. *)
Moves(h, k, p, c, parent, children) ==
  /\ Shaped(k) /\ DOMAIN k.records = DOMAIN h.records
  /\ \A s \in DOMAIN h.records :
       k.records[s] = IF s = c.slot THEN [h.records[s] EXCEPT !.parent = parent]
                      ELSE IF s = p.slot THEN [h.records[s] EXCEPT !.children = children]
                      ELSE h.records[s]
  /\ k.free = h.free /\ k.next_identity = h.next_identity
  /\ k.charged = h.charged /\ k.status = h.status

(* What such a move leaves. *)
Moved(h, k, p, c, parent, children) ==
  /\ \A s \in DOMAIN k.records : RecordOK(k.records[s], k.next_identity, game)
  /\ \A s \in DOMAIN k.records :
       /\ k.records[s].born = h.records[s].born /\ k.records[s].owned = h.records[s].owned
       /\ k.records[s].parent = IF s = c.slot THEN parent ELSE h.records[s].parent
       /\ k.records[s].children = IF s = p.slot THEN children ELSE h.records[s].children
  /\ k.charged = Total(k)
  /\ Follows(h, k)

(* And that it does. *)
LEMMA MovesKeeps ==
  ASSUME NEW h, HeapOK(h, game), NEW k, NEW p, NEW c, Live(h, p), Live(h, c), p.slot # c.slot,
         NEW parent \in Ref(h.next_identity), NEW children \in SUBSET Old(h.next_identity),
         Moves(h, k, p, c, parent, children)
  PROVE  Moved(h, k, p, c, parent, children)
<1>1. ASSUME NEW s \in DOMAIN h.records
      PROVE  /\ RecordOK(k.records[s], h.next_identity, game)
             /\ Heir(h.records[s], k.records[s])
             /\ Charge(k.records[s]) = Charge(h.records[s])
             /\ k.records[s].born = h.records[s].born /\ k.records[s].owned = h.records[s].owned
             /\ k.records[s].parent = IF s = c.slot THEN parent ELSE h.records[s].parent
             /\ k.records[s].children = IF s = p.slot THEN children ELSE h.records[s].children
  <2>1. RecordOK(h.records[s], h.next_identity, game)
    BY DEF HeapOK
  <2>2. CASE s = c.slot
    <3>1. k.records[s] = [h.records[s] EXCEPT !.parent = parent]
      BY <2>2 DEF Moves
    <3> QED BY <2>1, <2>2, <3>1, ParentChanged
  <2>3. CASE s = p.slot
    <3>1. k.records[s] = [h.records[s] EXCEPT !.children = children]
      BY <2>3 DEF Moves
    <3> QED BY <2>1, <2>3, <3>1, ChildrenChanged
  <2>4. CASE s # c.slot /\ s # p.slot
    <3>1. k.records[s] = h.records[s]
      BY <2>4 DEF Moves
    <3>2. Heir(h.records[s], h.records[s])
      BY <2>1, RecordSizes DEF Heir, Kin
    <3> QED BY <2>1, <2>4, <3>1, <3>2
  <2> QED BY <2>2, <2>3, <2>4
<1>2. k.charged = Total(k)
  <2>1. SameCharges(h, k, DOMAIN h.records)
    BY <1>1 DEF SameCharges
  <2>2. IsFiniteSet(DOMAIN h.records) /\ Total(h) = Sum(h, DOMAIN h.records)
    BY HeapFinite
  <2>3. Sum(h, DOMAIN h.records) = Sum(k, DOMAIN h.records)
    BY <2>1, <2>2, SumSame
  <2>4. Total(k) = Sum(k, DOMAIN h.records)
    BY DEF Total, Sum, Moves
  <2> QED BY <2>2, <2>3, <2>4 DEF Moves, HeapOK
<1>3. Follows(h, k)
  BY <1>1 DEF Follows, Moves, HeapOK
<1> QED BY <1>1, <1>2, <1>3 DEF Moves, Moved

(* adopt, of a root by an older record. *)
LEMMA AdoptedOK ==
  ASSUME NEW h, HeapOK(h, game), NEW p, NEW c, Live(h, p), c \in h.roots, p \in Old(h.next_identity),
         p.born < c.born, NEW k, k = Adopted(h, p, c)
  PROVE  /\ HeapOK(k, game) /\ Follows(h, k) /\ \A a \in h.roots \ {c} : Loyal(h, k, a)
         /\ k.charged = h.charged /\ k.status = h.status /\ k.next_identity = h.next_identity
         /\ DOMAIN k.records = DOMAIN h.records
         /\ k.roots = h.roots \ {c}
         /\ k.records[c.slot] = [h.records[c.slot] EXCEPT !.parent = p]
         /\ \A s \in DOMAIN h.records \ {c.slot, p.slot} : k.records[s] = h.records[s]
         /\ k.records[p.slot] = [h.records[p.slot] EXCEPT !.children = @ \cup {c}]
<1> DEFINE children == h.records[p.slot].children \cup {c}
<1>1. Live(h, c) /\ Of(h, c).parent = Nil /\ c \in Old(h.next_identity)
  BY DEF HeapOK, TreeOK
<1>2. p.slot # c.slot
  BY <1>1 DEF Live, Old
<1>3. children \in SUBSET Old(h.next_identity)
  BY <1>1 DEF HeapOK, RecordOK, Live
<1>4. Moves(h, k, p, c, p, children)
  <2>1. Shaped(h)
    BY DEF HeapOK
  <2>2. k.records = [s \in DOMAIN h.records |->
                       IF s = c.slot THEN [h.records[s] EXCEPT !.parent = p]
                       ELSE IF s = p.slot THEN [h.records[s] EXCEPT !.children = @ \cup {c}]
                       ELSE h.records[s]]
    BY <2>1, <1>2 DEF Adopted, Shaped
  <2>3. /\ k \in [records : {k.records}, roots : {k.roots}, free : {k.free}, next_identity : {k.next_identity},
         charged : {k.charged}, status : {k.status}]
        /\ k.free = h.free /\ k.next_identity = h.next_identity
        /\ k.charged = h.charged /\ k.status = h.status
    BY <2>1 DEF Adopted, Shaped
  <2>4. DOMAIN k.records = DOMAIN h.records /\ IsFun(k.records)
    BY <2>2 DEF IsFun
  <2>5. \A s \in DOMAIN h.records :
          k.records[s] = IF s = c.slot THEN [h.records[s] EXCEPT !.parent = p]
                         ELSE IF s = p.slot THEN [h.records[s] EXCEPT !.children = children]
                         ELSE h.records[s]
    BY <2>2, <1>2
  <2> QED BY <2>3, <2>4, <2>5 DEF Moves, Shaped
<1>5. k.roots = h.roots \ {c}
  BY DEF Adopted, HeapOK, Shaped
<1>6. p \in Ref(h.next_identity) /\ p # Nil
  BY DEF Ref, Live
<1>7. /\ \A s \in DOMAIN k.records : RecordOK(k.records[s], k.next_identity, game)
      /\ \A s \in DOMAIN k.records :
           /\ k.records[s].born = h.records[s].born /\ k.records[s].owned = h.records[s].owned
           /\ k.records[s].parent = IF s = c.slot THEN p ELSE h.records[s].parent
           /\ k.records[s].children = IF s = p.slot THEN children ELSE h.records[s].children
      /\ k.charged = Total(k)
      /\ Follows(h, k)
  <2> HIDE DEF children
  <2>1. Moved(h, k, p, c, p, children)
    BY <1>1, <1>2, <1>3, <1>4, <1>6, MovesKeeps
  <2> QED BY <2>1 DEF Moved
<1>8. DOMAIN k.records = DOMAIN h.records
  BY <1>4 DEF Moves
<1>9. \A x : Live(k, x) <=> Live(h, x)
  BY <1>7, <1>8 DEF Live
<1>10. \A s \in DOMAIN h.records : HandleAt(k, s) = HandleAt(h, s)
  BY <1>7, <1>8 DEF HandleAt
<1>11. HandleAt(h, c.slot) = c /\ HandleAt(h, p.slot) = p
  BY <1>1 DEF HandleAt, Live, Old
<1>12. TreeOK(k)
  <2>1. TreeOK(h)
    BY DEF HeapOK
  <2>2. ASSUME NEW o \in k.roots PROVE Live(k, o) /\ Of(k, o).parent = Nil
    <3>1. o \in h.roots /\ o # c /\ Live(h, o) /\ Of(h, o).parent = Nil
      BY <1>5, <2>1 DEF TreeOK
    <3>2. o.slot # c.slot
      <4>1. o \in Old(h.next_identity)
        BY <3>1 DEF HeapOK
      <4> QED BY <4>1, <3>1, <1>1 DEF Live, Old
    <3> QED BY <3>1, <3>2, <1>7, <1>8, <1>9 DEF Of, Live
  <2>3. ASSUME NEW s \in DOMAIN k.records, k.records[s].parent = Nil PROVE HandleAt(k, s) \in k.roots
    <3>1. s # c.slot /\ h.records[s].parent = Nil
      BY <2>3, <1>6, <1>7
    <3>2. HandleAt(h, s) \in h.roots /\ HandleAt(h, s) # c
      BY <3>1, <2>1, <1>8 DEF TreeOK, HandleAt
    <3> QED BY <3>2, <1>5, <1>8, <1>10
  <2>4. ASSUME NEW s \in DOMAIN k.records, k.records[s].parent # Nil
        PROVE  /\ Live(k, k.records[s].parent) /\ HandleAt(k, s) \in Of(k, k.records[s].parent).children
               /\ k.records[s].parent.born < k.records[s].born
    <3>1. CASE s = c.slot
      <4>1. k.records[s].parent = p /\ HandleAt(k, s) = c
        BY <3>1, <1>7, <1>8, <1>10, <1>11
      <4>2. p.slot \in DOMAIN k.records
        BY <1>8 DEF Live
      <4>3. c \in k.records[p.slot].children
        BY <1>7, <4>2
      <4>4. k.records[s].born = c.born
        BY <3>1, <1>7, <1>8, <1>1 DEF Live
      <4> QED BY <4>1, <4>3, <4>4, <1>9 DEF Of
    <3>2. CASE s # c.slot
      <4> DEFINE o == h.records[s].parent
      <4>1. k.records[s].parent = o /\ s \in DOMAIN h.records
        BY <3>2, <1>7, <1>8
      <4>2. Live(h, o) /\ HandleAt(h, s) \in Of(h, o).children /\ o.born < h.records[s].born
        BY <4>1, <2>4, <2>1 DEF TreeOK
      <4>3. o.slot \in DOMAIN k.records /\ h.records[o.slot].children \subseteq k.records[o.slot].children
        BY <4>2, <1>7, <1>8 DEF Live
      <4> QED BY <4>1, <4>2, <4>3, <1>7, <1>9, <1>10 DEF Of
    <3> QED BY <3>1, <3>2
  <2>5. ASSUME NEW s \in DOMAIN k.records, NEW x \in k.records[s].children
        PROVE  Live(k, x) /\ Of(k, x).parent = HandleAt(k, s)
    <3>1. CASE x \in h.records[s].children
      <4>1. Live(h, x) /\ Of(h, x).parent = HandleAt(h, s)
        BY <3>1, <2>1, <1>8 DEF TreeOK
      <4>2. HandleAt(h, s) # Nil
        <5>1. HandleAt(h, s) \in [slot : Nat, born : Nat]
          BY <1>8 DEF HandleAt, HeapOK, RecordOK
        <5> QED BY <5>1, NilIsNoHandle
      <4>3. x.slot # c.slot
        BY <4>1, <4>2, <1>1 DEF Of
      <4> QED BY <4>1, <4>3, <1>7, <1>8, <1>9, <1>10 DEF Of, Live
    <3>2. CASE s = p.slot /\ x = c
      <4>1. Live(k, c) /\ Of(k, c).parent = p
        BY <1>1, <1>7, <1>8, <1>9 DEF Of, Live
      <4> QED BY <4>1, <3>2, <1>8, <1>10, <1>11
    <3> QED BY <3>1, <3>2, <1>7
  <2> QED BY <2>2, <2>3, <2>4, <2>5 DEF TreeOK
<1>13. HeapOK(k, game)
  <2>1. ASSUME NEW s \in DOMAIN k.records, NEW x \in DOMAIN k.records[s].owned,
               NEW v, v = k.records[s].owned[x], Live(k, v)
        PROVE  k.records[v.slot].parent = HandleAt(k, s)
    <3>1. Live(h, v) /\ h.records[v.slot].parent = HandleAt(h, s)
      BY <2>1, <1>7, <1>8, <1>9 DEF HeapOK, OwnsOK
    <3>2. HandleAt(h, s) # Nil
      <4>1. HandleAt(h, s) \in [slot : Nat, born : Nat]
        BY <1>8 DEF HandleAt, HeapOK, RecordOK
      <4> QED BY <4>1, NilIsNoHandle
    <3>3. v.slot # c.slot
      BY <3>1, <3>2, <1>1 DEF Of
    <3> QED BY <3>1, <3>3, <1>7, <1>8, <1>10 DEF Live
  <2>2. OwnsOK(k)
    BY <2>1 DEF OwnsOK
  <2> QED BY <2>2, <1>4, <1>5, <1>7, <1>8, <1>12 DEF HeapOK, Moves
<1>14. \A a \in h.roots \ {c} : Loyal(h, k, a)
  <2>1. SUFFICES ASSUME NEW a \in h.roots \ {c} PROVE Loyal(h, k, a)
    OBVIOUS
  <2>2. a # Nil
    BY DEF HeapOK, TreeOK, Live
  <2>3. \A s \in DOMAIN h.records : h.records[s].parent = a => s # c.slot
    BY <2>2, <1>1 DEF Of
  <2> QED BY <2>3, <1>5, <1>7, <1>8 DEF Loyal
<1> HIDE DEF children
<1>15. /\ k.charged = h.charged /\ k.status = h.status /\ k.next_identity = h.next_identity
       /\ k.records[c.slot] = [h.records[c.slot] EXCEPT !.parent = p]
       /\ \A s \in DOMAIN h.records \ {c.slot, p.slot} : k.records[s] = h.records[s]
       /\ k.records[p.slot] = [h.records[p.slot] EXCEPT !.children = children]
  <2>1. c.slot \in DOMAIN h.records /\ p.slot \in DOMAIN h.records
    BY <1>1 DEF Live
  <2> QED BY <2>1, <1>2, <1>4 DEF Moves
<1>16. k.records[p.slot] = [h.records[p.slot] EXCEPT !.children = @ \cup {c}]
  BY <1>15 DEF children
<1> QED BY <1>5, <1>7, <1>8, <1>13, <1>14, <1>15, <1>16

(***************************************************************************)
(* Handles                                                                 *)
(***************************************************************************)
(* Handles of live records. *)
LEMMA HandleFacts ==
  ASSUME NEW h, HeapOK(h, game)
  PROVE  /\ \A s \in DOMAIN h.records :
              HandleAt(h, s) \in Old(h.next_identity) /\ HandleAt(h, s) # Nil /\ HandleAt(h, s).slot = s
              /\ Live(h, HandleAt(h, s))
         /\ \A o \in Old(h.next_identity) : o # Nil
         /\ \A o \in Old(h.next_identity) : Live(h, o) => HandleAt(h, o.slot) = o
<1>1. \A o \in Old(h.next_identity) : o # Nil
  <2>1. Old(h.next_identity) \subseteq [slot : Nat, born : Nat]
    BY DEF Old, HeapOK
  <2> QED BY <2>1, NilIsNoHandle
<1>2. \A s \in DOMAIN h.records : HandleAt(h, s) \in Old(h.next_identity)
  BY DEF HandleAt, Old, HeapOK, RecordOK
<1>3. \A s \in DOMAIN h.records : HandleAt(h, s).slot = s /\ HandleAt(h, s).born = h.records[s].born
  BY DEF HandleAt
<1>4. \A o \in Old(h.next_identity) : Live(h, o) => HandleAt(h, o.slot) = o
  BY DEF Old, Live, HandleAt
<1> QED BY <1>1, <1>2, <1>3, <1>4 DEF Live

(* A child that no field owns becomes a root again. *)
LEMMA OrphanedOK ==
  ASSUME NEW h, HeapOK(h, game), NEW p, Live(h, p), p \in Old(h.next_identity), NEW c \in Of(h, p).children,
         DOMAIN Of(h, p).owned = {}, NEW k, k = Orphaned(h, p, c)
  PROVE  /\ HeapOK(k, game) /\ Follows(h, k) /\ \A a \in h.roots \ {p} : Loyal(h, k, a)
         /\ k.charged = h.charged /\ k.status = h.status /\ k.next_identity = h.next_identity
         /\ DOMAIN k.records = DOMAIN h.records
         /\ k.roots = h.roots \cup {c}
         /\ Live(k, c) /\ Of(k, c).parent = Nil
<1> DEFINE children == h.records[p.slot].children \ {c}
<1>1. /\ p.slot \in DOMAIN h.records /\ HandleAt(h, p.slot) = p
      /\ Live(h, c) /\ Of(h, c).parent = p /\ c \in Old(h.next_identity)
      /\ HandleAt(h, c.slot) = c
  <2>1. p.slot \in DOMAIN h.records /\ HandleAt(h, p.slot) = p
    BY HandleFacts DEF Live
  <2>2. c \in h.records[p.slot].children
    BY DEF Of
  <2>3. Live(h, c) /\ Of(h, c).parent = p
    BY <2>1, <2>2 DEF HeapOK, TreeOK
  <2>4. c \in Old(h.next_identity)
    BY <2>1, <2>2 DEF HeapOK, RecordOK
  <2> QED BY <2>1, <2>3, <2>4, HandleFacts
<1>2. p.slot # c.slot
  <2>1. p # Nil /\ c.slot \in DOMAIN h.records /\ h.records[c.slot].parent = p
    BY <1>1 DEF Live, Of
  <2>2. p.born < h.records[c.slot].born
    BY <2>1 DEF HeapOK, TreeOK
  <2>3. h.records[c.slot].born = c.born /\ h.records[p.slot].born = p.born
    BY <1>1 DEF Live
  <2>4. p.born \in Int /\ c.born \in Int
    BY <1>1 DEF Old
  <2> QED BY <2>2, <2>3, <2>4
<1>3. children \in SUBSET Old(h.next_identity)
  BY <1>1 DEF HeapOK, RecordOK
<1>4. Moves(h, k, p, c, Nil, children)
  <2>1. Shaped(h)
    BY DEF HeapOK
  <2>2. k.records = [s \in DOMAIN h.records |->
                       IF s = c.slot THEN [h.records[s] EXCEPT !.parent = Nil]
                       ELSE IF s = p.slot THEN [h.records[s] EXCEPT !.children = @ \ {c}]
                       ELSE h.records[s]]
    BY <2>1, <1>2 DEF Orphaned, Shaped
  <2>3. /\ k \in [records : {k.records}, roots : {k.roots}, free : {k.free}, next_identity : {k.next_identity},
         charged : {k.charged}, status : {k.status}]
        /\ k.free = h.free /\ k.next_identity = h.next_identity
        /\ k.charged = h.charged /\ k.status = h.status
    BY <2>1 DEF Orphaned, Shaped
  <2>4. DOMAIN k.records = DOMAIN h.records /\ IsFun(k.records)
    BY <2>2 DEF IsFun
  <2>5. \A s \in DOMAIN h.records :
          k.records[s] = IF s = c.slot THEN [h.records[s] EXCEPT !.parent = Nil]
                         ELSE IF s = p.slot THEN [h.records[s] EXCEPT !.children = children]
                         ELSE h.records[s]
    BY <2>2, <1>2
  <2> QED BY <2>3, <2>4, <2>5 DEF Moves, Shaped
<1>5. k.roots = h.roots \cup {c}
  BY DEF Orphaned, HeapOK, Shaped
<1>6. Nil \in Ref(h.next_identity) /\ p # Nil
  BY DEF Ref, Live
<1>7. Moved(h, k, p, c, Nil, children)
  <2> HIDE DEF children
  <2> QED BY <1>1, <1>2, <1>3, <1>4, <1>6, MovesKeeps
<1>8. DOMAIN k.records = DOMAIN h.records
  BY <1>4 DEF Moves
<1>9. \A x : Live(k, x) <=> Live(h, x)
  BY <1>7, <1>8 DEF Live, Moved
<1>10. \A s \in DOMAIN h.records : HandleAt(k, s) = HandleAt(h, s)
  BY <1>7, <1>8 DEF HandleAt, Moved
<1>11. \A s \in DOMAIN h.records :
         /\ k.records[s].born = h.records[s].born /\ k.records[s].owned = h.records[s].owned
         /\ k.records[s].parent = IF s = c.slot THEN Nil ELSE h.records[s].parent
         /\ k.records[s].children = IF s = p.slot THEN children ELSE h.records[s].children
  BY <1>7, <1>8 DEF Moved
<1>12. TreeOK(k)
  <2>1. TreeOK(h)
    BY DEF HeapOK
  <2>2. ASSUME NEW o \in k.roots PROVE Live(k, o) /\ Of(k, o).parent = Nil
    <3>1. Live(h, o) /\ (o = c \/ Of(h, o).parent = Nil)
      BY <1>1, <1>5, <2>1 DEF TreeOK
    <3> QED BY <3>1, <1>11, <1>9 DEF Of, Live
  <2>3. ASSUME NEW s \in DOMAIN k.records, k.records[s].parent = Nil PROVE HandleAt(k, s) \in k.roots
    <3>1. CASE s = c.slot
      BY <3>1, <1>1, <1>5, <1>8, <1>10 DEF Live
    <3>2. CASE s # c.slot
      <4>1. HandleAt(h, s) \in h.roots
        BY <2>3, <3>2, <2>1, <1>8, <1>11 DEF TreeOK
      <4> QED BY <4>1, <1>5, <1>8, <1>10
    <3> QED BY <3>1, <3>2
  <2>4. ASSUME NEW s \in DOMAIN k.records, k.records[s].parent # Nil
        PROVE  /\ Live(k, k.records[s].parent) /\ HandleAt(k, s) \in Of(k, k.records[s].parent).children
               /\ k.records[s].parent.born < k.records[s].born
    <3> DEFINE o == h.records[s].parent
    <3>1. k.records[s].parent = o /\ s \in DOMAIN h.records /\ s # c.slot
      BY <2>4, <1>8, <1>11
    <3>2. Live(h, o) /\ HandleAt(h, s) \in Of(h, o).children /\ o.born < h.records[s].born
      BY <3>1, <2>4, <2>1 DEF TreeOK
    <3>3. HandleAt(h, s) # c
      BY <3>1 DEF HandleAt
    <3>4. HandleAt(h, s) \in k.records[o.slot].children /\ o.slot \in DOMAIN k.records
      BY <3>2, <3>3, <1>8, <1>11 DEF Live, Of
    <3> QED BY <3>1, <3>2, <3>4, <1>9, <1>10, <1>11 DEF Of
  <2>5. ASSUME NEW s \in DOMAIN k.records, NEW x \in k.records[s].children
        PROVE  Live(k, x) /\ Of(k, x).parent = HandleAt(k, s)
    <3>1. x \in h.records[s].children /\ s \in DOMAIN h.records
      BY <1>8, <1>11
    <3>2. Live(h, x) /\ Of(h, x).parent = HandleAt(h, s) /\ x \in Old(h.next_identity)
      BY <3>1, <2>1 DEF TreeOK, HeapOK, RecordOK
    <3>3. x # c
      <4>1. CASE s = p.slot
        BY <4>1, <3>1, <1>11, <1>8
      <4>2. CASE s # p.slot
        <5>1. HandleAt(h, s) # p
          BY <4>2 DEF HandleAt
        <5> QED BY <5>1, <3>2, <1>1
      <4> QED BY <4>1, <4>2
    <3>4. x.slot # c.slot
      BY <3>2, <3>3, <1>1, HandleFacts
    <3>5. k.records[x.slot].parent = h.records[x.slot].parent
      BY <3>2, <3>4, <1>11 DEF Live
    <3> QED BY <3>1, <3>2, <3>5, <1>9, <1>10 DEF Of
  <2> QED BY <2>2, <2>3, <2>4, <2>5 DEF TreeOK
<1>13. HeapOK(k, game)
  <2>1. ASSUME NEW s \in DOMAIN k.records, NEW x \in DOMAIN k.records[s].owned,
               NEW v, v = k.records[s].owned[x], Live(k, v)
        PROVE  k.records[v.slot].parent = HandleAt(k, s)
    <3>1. Live(h, v) /\ h.records[v.slot].parent = HandleAt(h, s) /\ x \in DOMAIN h.records[s].owned
      BY <2>1, <1>8, <1>9, <1>11 DEF HeapOK, OwnsOK
    <3>2. s # p.slot
      BY <3>1 DEF Of
    <3>3. HandleAt(h, s) # p
      BY <3>2 DEF HandleAt
    <3>4. v.slot # c.slot
      BY <3>1, <3>3, <1>1 DEF Of
    <3> QED BY <3>1, <3>4, <1>8, <1>10, <1>11 DEF Live
  <2>2. OwnsOK(k)
    BY <2>1 DEF OwnsOK
  <2> QED BY <2>2, <1>1, <1>4, <1>5, <1>7, <1>8, <1>12 DEF HeapOK, Moves, Moved
<1>14. \A a \in h.roots \ {p} : Loyal(h, k, a)
  <2>1. SUFFICES ASSUME NEW a \in h.roots \ {p} PROVE Loyal(h, k, a)
    OBVIOUS
  <2>2. \A s \in DOMAIN h.records : h.records[s].parent = a => s # c.slot
    BY <1>1 DEF Of
  <2> QED BY <2>2, <1>5, <1>8, <1>11 DEF Loyal
<1>15. Live(k, c) /\ Of(k, c).parent = Nil
  BY <1>1, <1>9, <1>11 DEF Of, Live
<1> QED BY <1>4, <1>5, <1>7, <1>8, <1>13, <1>14, <1>15 DEF Moves, Moved

(***************************************************************************)
(* Destroying                                                              *)
(***************************************************************************)
(* What is below some slots, and is none of them, has its parent there. *)
LEMMA SubtreeParents ==
  ASSUME NEW h, NEW slots, Rooted(h, slots), Cardinality(DOMAIN h.records) \in Nat,
         \A s \in DOMAIN h.records : \A c \in h.records[s].children : h.records[c.slot].parent.slot = s
                                                                   /\ h.records[c.slot].parent # Nil
  PROVE  \A t \in Subtree(h, slots) :
           t \in slots \/ (h.records[t].parent # Nil /\ h.records[t].parent.slot \in Subtree(h, slots))
<1> DEFINE S == Subtree(h, slots)
           T == {t \in S : t \in slots \/ (h.records[t].parent # Nil /\ h.records[t].parent.slot \in S)}
<1>1. slots \subseteq S /\ Closed(h, S) /\ S \subseteq DOMAIN h.records
  BY SubtreeClosed
<1> HIDE DEF S
<1>2. slots \subseteq T
  BY <1>1
<1>3. Closed(h, T)
  BY <1>1 DEF Closed
<1>4. Subtree(h, slots) \subseteq T
  <2> HIDE DEF T
  <2> QED BY <1>2, <1>3, SubtreeLeast
<1> QED BY <1>4 DEF S

(* What Destroyed changes. *)
Destroys(h, k, S) ==
  /\ Shaped(k) /\ DOMAIN k.records = (DOMAIN h.records) \ S
  /\ \A s \in DOMAIN k.records : k.records[s] = h.records[s]
  /\ k.free = h.free \cup S /\ k.next_identity = h.next_identity /\ k.status = h.status
  /\ k.roots = h.roots /\ k.charged = h.charged - Sum(h, S)

(* And that it does, even of a heap whose tree is broken. *)
LEMMA DestroyedIs ==
  ASSUME NEW h, Shaped(h), NEW slots, NEW k, k = Destroyed(h, slots), NEW S, S = Subtree(h, slots)
  PROVE  Destroys(h, k, S)
<1>1. k.records = [s \in (DOMAIN h.records) \ S |-> h.records[s]]
  BY DEF Destroyed, Shaped, Restrict
<1>2. /\ k \in [records : {k.records}, roots : {k.roots}, free : {k.free}, next_identity : {k.next_identity},
         charged : {k.charged}, status : {k.status}]
      /\ k.free = h.free \cup S /\ k.next_identity = h.next_identity /\ k.status = h.status
      /\ k.roots = h.roots
  BY DEF Destroyed, Shaped
<1>3. k.charged = h.charged - Sum(h, S)
  BY DEF Destroyed, Shaped, Sum
<1>4. IsFun(k.records)
  BY <1>1 DEF IsFun
<1> QED BY <1>1, <1>2, <1>3, <1>4 DEF Shaped, Destroys

(* Roots are destroyed with all they own. *)
RootsGone(h, k, R, S) ==
  /\ HeapOK(k, game) /\ Follows(h, k) /\ Closed(h, S) /\ S \subseteq DOMAIN h.records
  /\ \A a \in h.roots \ R : Loyal(h, k, a)
  /\ \A o \in h.roots : o.slot \in S => o \in R
  /\ Cuts(h, k, S)
  /\ k.next_identity = h.next_identity

(* Some roots are destroyed. *)
LEMMA RootsCut ==
  ASSUME NEW h, HeapOK(h, game), NEW R \in SUBSET h.roots, NEW k, NEW S, S = Subtree(h, {o.slot : o \in R}),
         k.status \in {"live", "terminal", "aborted"}, Shaped(k),
         k.records = Destroyed(h, {o.slot : o \in R}).records,
         k.free = Destroyed(h, {o.slot : o \in R}).free,
         k.next_identity = Destroyed(h, {o.slot : o \in R}).next_identity,
         k.charged = Destroyed(h, {o.slot : o \in R}).charged,
         k.roots = h.roots \ R
  PROVE  RootsGone(h, k, R, S)
<1> DEFINE slots == {o.slot : o \in R}
           d == Destroyed(h, slots)
<1>1. Rooted(h, slots) /\ Cardinality(DOMAIN h.records) \in Nat
  <2>1. slots \subseteq DOMAIN h.records
    BY DEF HeapOK, TreeOK, Live
  <2> HIDE DEF slots
  <2> QED BY <2>1, HeapFinite DEF Rooted
<1>2. /\ Shaped(h) /\ TreeOK(h)
  BY DEF HeapOK
<1>3. \A s \in DOMAIN h.records : \A c \in h.records[s].children :
        h.records[c.slot].parent = HandleAt(h, s) /\ c \in Old(h.next_identity) /\ Live(h, c)
  BY <1>2 DEF TreeOK, Of, HeapOK, RecordOK
<1>4. \A s \in DOMAIN h.records : \A c \in h.records[s].children :
        h.records[c.slot].parent.slot = s /\ h.records[c.slot].parent # Nil
  BY <1>3, HandleFacts
<1>5. slots \subseteq S /\ Closed(h, S) /\ S \subseteq DOMAIN h.records
  <2> HIDE DEF slots
  <2> QED BY <1>1, SubtreeClosed DEF slots
<1>6. \A t \in S : t \in slots \/ (h.records[t].parent # Nil /\ h.records[t].parent.slot \in S)
  <2> HIDE DEF slots
  <2> QED BY <1>1, <1>4, SubtreeParents DEF slots
<1>7. \A o \in h.roots : o.slot \in S => o \in R
  <2>1. SUFFICES ASSUME NEW o \in h.roots, o.slot \in S PROVE o \in R
    OBVIOUS
  <2>2. Live(h, o) /\ h.records[o.slot].parent = Nil /\ o \in Old(h.next_identity)
    BY <1>2 DEF TreeOK, Of, HeapOK
  <2>3. PICK r \in R : r.slot = o.slot
    BY <1>6, <2>1, <2>2
  <2>4. Live(h, r) /\ r \in Old(h.next_identity)
    BY <1>2 DEF TreeOK, HeapOK
  <2>5. r = o
    BY <2>2, <2>3, <2>4, HandleFacts
  <2> QED BY <2>5
<1>8. /\ DOMAIN d.records = (DOMAIN h.records) \ S
      /\ \A s \in DOMAIN d.records : d.records[s] = h.records[s]
      /\ d.free = h.free \cup S /\ d.next_identity = h.next_identity
      /\ d.charged = h.charged - Sum(h, S)
  <2> HIDE DEF slots, d
  <2>1. d = Destroyed(h, slots) /\ S = Subtree(h, slots)
    BY DEF d, slots
  <2>2. Destroys(h, d, S)
    BY <2>1, <1>2, DestroyedIs
  <2> QED BY <2>2 DEF Destroys
<1>9. ASSUME NEW s \in (DOMAIN h.records) \ S PROVE Bereft(h.records[s], h.records[s], S)
  <2>1. RecordOK(h.records[s], h.next_identity, game)
    BY DEF HeapOK
  <2>2. \A c \in h.records[s].children : c.slot \notin S
    <3>1. SUFFICES ASSUME NEW c \in h.records[s].children, c.slot \in S PROVE FALSE
      OBVIOUS
    <3>2. h.records[c.slot].parent = HandleAt(h, s) /\ Live(h, c) /\ c \in Old(h.next_identity)
          /\ HandleAt(h, s) # Nil /\ HandleAt(h, s).slot = s
      BY <1>3, HandleFacts
    <3>3. PICK r \in R : r.slot = c.slot
      BY <1>6, <3>1, <3>2
    <3>4. h.records[r.slot].parent = Nil
      BY <1>2 DEF TreeOK, Of
    <3> QED BY <3>2, <3>3, <3>4
  <2>3. IsFun(h.records[s].owned)
    BY <2>1 DEF RecordOK
  <2>4. h.records[s] = [h.records[s] EXCEPT !.children = h.records[s].children, !.owned = h.records[s].owned]
    BY <2>1 DEF RecordOK
  <2> QED BY <2>2, <2>3, <2>4 DEF Bereft
<1>10. k.roots = {o \in h.roots : o.slot \notin S}
  BY <1>5, <1>7
<1>11. Cuts(h, k, S)
  <2> HIDE DEF d, slots
  <2>1. k.records = d.records /\ k.free = d.free /\ k.next_identity = d.next_identity /\ k.charged = d.charged
    BY DEF d, slots
  <2> QED BY <1>8, <1>9, <1>10, <2>1 DEF Cuts
<1>12. HeapOK(k, game)
  BY <1>5, <1>11, CutsOK
<1>13. ASSUME NEW a \in h.roots \ R PROVE Loyal(h, k, a)
  <2>1. a.slot \notin S /\ Live(h, a) /\ a \in Old(h.next_identity)
    BY <1>7, <1>2, <1>13 DEF HeapOK, TreeOK
  <2>2. ASSUME NEW s \in DOMAIN h.records, h.records[s].parent = a PROVE s \notin S
    <3>1. a # Nil
      BY <2>1 DEF Live
    <3>2. SUFFICES ASSUME s \in slots PROVE FALSE
      BY <1>6, <2>1, <2>2
    <3>3. PICK r \in R : r.slot = s
      BY <3>2
    <3>4. h.records[r.slot].parent = Nil
      BY <1>2 DEF TreeOK, Of
    <3> QED BY <3>1, <3>3, <3>4, <2>2
  <2> QED BY <2>1, <2>2, <1>11, CutsFollows
<1>14. Follows(h, k)
  BY <1>11, CutsFollows
<1> QED BY <1>5, <1>7, <1>11, <1>12, <1>13, <1>14 DEF Cuts, RootsGone

(* One root is destroyed. *)
LEMMA DestroyedRootOK ==
  ASSUME NEW h, HeapOK(h, game), NEW o \in h.roots, NEW k, k = DestroyedRoot(h, o)
  PROVE  /\ HeapOK(k, game) /\ Follows(h, k)
         /\ \A a \in h.roots \ {o} : Loyal(h, k, a)
         /\ k.next_identity = h.next_identity /\ k.status = h.status /\ k.roots = h.roots \ {o}
         /\ Cuts(h, k, Subtree(h, {o.slot})) /\ Closed(h, Subtree(h, {o.slot}))
         /\ Subtree(h, {o.slot}) \subseteq DOMAIN h.records
<1> DEFINE slots == {o.slot}
           d == Destroyed(h, slots)
           S == Subtree(h, slots)
<1>1. {x.slot : x \in {o}} = slots
  OBVIOUS
<1>2. Destroys(h, d, S)
  <2> HIDE DEF slots
  <2>1. Shaped(h)
    BY DEF HeapOK
  <2> QED BY <2>1, DestroyedIs
<1>3. /\ k.records = d.records /\ k.free = d.free /\ k.next_identity = d.next_identity
      /\ k.charged = d.charged /\ k.status = d.status /\ k.roots = d.roots \ {o} /\ Shaped(k)
  <2> HIDE DEF d
  <2>1. k = [d EXCEPT !.roots = @ \ {o}]
    BY DEF d, DestroyedRoot
  <2> QED BY <2>1, <1>2 DEF Destroys, Shaped
<1>4. k.status \in {"live", "terminal", "aborted"} /\ k.roots = h.roots \ {o} /\ k.status = h.status
      /\ k.next_identity = h.next_identity
  BY <1>2, <1>3 DEF Destroys, HeapOK
<1>5. /\ HeapOK(k, game) /\ Follows(h, k) /\ Closed(h, S) /\ S \subseteq DOMAIN h.records
      /\ \A a \in h.roots \ {o} : Loyal(h, k, a)
      /\ Cuts(h, k, S)
  <2> DEFINE R == {o}
  <2>1. R \in SUBSET h.roots /\ {x.slot : x \in R} = slots
    BY <1>1
  <2>2. S = Subtree(h, {x.slot : x \in R})
    BY <2>1
  <2>3. /\ k.records = Destroyed(h, {x.slot : x \in R}).records
        /\ k.free = Destroyed(h, {x.slot : x \in R}).free
        /\ k.next_identity = Destroyed(h, {x.slot : x \in R}).next_identity
        /\ k.charged = Destroyed(h, {x.slot : x \in R}).charged
    BY <2>1, <1>3
  <2>4. k.roots = h.roots \ R
    BY <1>4
  <2>5. RootsGone(h, k, R, S)
    <3> HIDE DEF R, S, slots, d
    <3> QED BY <2>1, <2>2, <2>3, <2>4, <1>3, <1>4, RootsCut
  <2> QED BY <2>5 DEF RootsGone
<1> QED BY <1>4, <1>5

(* After a failure nothing is left to talk about but types. *)
LEMMA FailedOK ==
  ASSUME NEW h, HeapOK(h, game), NEW k, k = Failed(h)
  PROVE  HeapOK(k, game) /\ Follows(h, k) /\ k.status = "terminal" /\ k.next_identity = h.next_identity
<1> DEFINE slots == {o.slot : o \in h.roots}
           d == Destroyed(h, slots)
           S == Subtree(h, slots)
<1>2. Destroys(h, d, S)
  <2> HIDE DEF slots
  <2>1. Shaped(h)
    BY DEF HeapOK
  <2> QED BY <2>1, DestroyedIs
<1>3. /\ k.records = d.records /\ k.free = d.free /\ k.next_identity = d.next_identity
      /\ k.charged = d.charged /\ k.status = "terminal" /\ k.roots = {} /\ Shaped(k)
  <2> HIDE DEF d
  <2>1. k = [d EXCEPT !.roots = {}, !.status = "terminal"]
    BY DEF d, Failed
  <2> QED BY <2>1, <1>2 DEF Destroys, Shaped
<1>4. HeapOK(k, game) /\ Follows(h, k)
  <2> DEFINE R == h.roots
  <2>1. R \in SUBSET h.roots /\ S = Subtree(h, {o.slot : o \in R}) /\ k.roots = h.roots \ R
    BY <1>3
  <2>3. /\ k.records = Destroyed(h, {x.slot : x \in R}).records
        /\ k.free = Destroyed(h, {x.slot : x \in R}).free
        /\ k.next_identity = Destroyed(h, {x.slot : x \in R}).next_identity
        /\ k.charged = Destroyed(h, {x.slot : x \in R}).charged
    BY <1>3
  <2>4. k.status \in {"live", "terminal", "aborted"} /\ Shaped(k)
    BY <1>3
  <2> HIDE DEF R, S, slots, d
  <2>5. RootsGone(h, k, R, S)
    BY <2>1, <2>3, <2>4, RootsCut
  <2> QED BY <2>5 DEF RootsGone
<1>5. k.next_identity = h.next_identity
  BY <1>2, <1>3 DEF Destroys
<1> QED BY <1>3, <1>4, <1>5

(* A child is detached, with the field that may own it, and destroyed. *)
Detaches(h, m, o, c) ==
  /\ Shaped(m) /\ DOMAIN m.records = DOMAIN h.records
  /\ \A s \in DOMAIN h.records : s # o.slot => m.records[s] = h.records[s]
  /\ m.records[o.slot] = [h.records[o.slot] EXCEPT !.children = @ \ {c},
                                                   !.owned = m.records[o.slot].owned]
  /\ IsFun(m.records[o.slot].owned) /\ DOMAIN m.records[o.slot].owned \subseteq DOMAIN h.records[o.slot].owned
  /\ \A p \in DOMAIN m.records[o.slot].owned : m.records[o.slot].owned[p] = h.records[o.slot].owned[p]
  /\ m.roots = h.roots /\ m.free = h.free /\ m.next_identity = h.next_identity
  /\ m.charged = h.charged /\ m.status = h.status

(* A child is gone with what it owned. *)
ChildGone(h, k, o, m, c) ==
  /\ HeapOK(k, game) /\ Follows(h, k)
  /\ \A a \in h.roots \ {o} : Loyal(h, k, a)
  /\ k.next_identity = h.next_identity /\ k.status = h.status
  /\ o.slot \notin Subtree(m, {c.slot})
  /\ Subtree(m, {c.slot}) \subseteq DOMAIN h.records
  /\ Cuts(h, k, Subtree(m, {c.slot}))

(* And the rest is a heap. *)
LEMMA ChildCut ==
  ASSUME NEW h, HeapOK(h, game), NEW o \in Old(h.next_identity), Live(h, o), NEW c \in Of(h, o).children,
         NEW m, Detaches(h, m, o, c), NEW k, k = Destroyed(m, {c.slot})
  PROVE  ChildGone(h, k, o, m, c)
<1> DEFINE S == Subtree(m, {c.slot})
<1>1. Shaped(h) /\ TreeOK(h) /\ o.slot \in DOMAIN h.records /\ HandleAt(h, o.slot) = o /\ o # Nil
  BY HandleFacts DEF HeapOK, Live
<1>2. \A s \in DOMAIN h.records : \A x \in h.records[s].children :
        /\ h.records[x.slot].parent = HandleAt(h, s) /\ x \in Old(h.next_identity) /\ Live(h, x)
        /\ x.slot \in DOMAIN h.records
  BY <1>1 DEF TreeOK, Of, HeapOK, RecordOK, Live
<1>3. \A s \in DOMAIN h.records : \A x \in h.records[s].children :
        h.records[x.slot].parent.slot = s /\ h.records[x.slot].parent # Nil
  BY <1>2, HandleFacts
<1>4. \A s \in DOMAIN h.records :
        /\ m.records[s].parent = h.records[s].parent /\ m.records[s].born = h.records[s].born
        /\ m.records[s].children = IF s = o.slot THEN h.records[s].children \ {c} ELSE h.records[s].children
        /\ Charge(m.records[s]) = Charge(h.records[s])
  <2>1. SUFFICES ASSUME NEW s \in DOMAIN h.records
        PROVE  /\ m.records[s].parent = h.records[s].parent /\ m.records[s].born = h.records[s].born
               /\ m.records[s].children = IF s = o.slot THEN h.records[s].children \ {c} ELSE h.records[s].children
               /\ Charge(m.records[s]) = Charge(h.records[s])
    OBVIOUS
  <2>2. CASE s = o.slot
    <3>1. h.records[s] \in RecordSet(h.records[s], h.next_identity)
      BY DEF HeapOK, RecordOK, RecordSet
    <3>2. m.records[s] = [h.records[s] EXCEPT !.children = @ \ {c}, !.owned = m.records[s].owned]
      BY <2>2 DEF Detaches
    <3>3. /\ m.records[s].parent = h.records[s].parent /\ m.records[s].born = h.records[s].born
          /\ m.records[s].children = h.records[s].children \ {c}
          /\ m.records[s].properties = h.records[s].properties /\ m.records[s].elements = h.records[s].elements
          /\ m.records[s].capacity = h.records[s].capacity /\ m.records[s].kind = h.records[s].kind
          /\ m.records[s].prototypes = h.records[s].prototypes
      BY <3>1, <3>2 DEF RecordSet
    <3> QED BY <2>2, <3>3 DEF Charge
  <2>3. CASE s # o.slot
    BY <2>3 DEF Detaches
  <2> QED BY <2>2, <2>3
<1>5. c \in h.records[o.slot].children /\ c.slot \in DOMAIN h.records /\ h.records[c.slot].parent = o
      /\ Live(h, c) /\ c \in Old(h.next_identity)
  BY <1>1, <1>2 DEF Of
<1>6. Rooted(m, {c.slot})
  <2>1. DOMAIN m.records = DOMAIN h.records
    BY DEF Detaches
  <2>2. Closed(m, DOMAIN m.records)
    BY <2>1, <1>2, <1>4 DEF Closed
  <2> QED BY <2>1, <2>2, <1>5, HeapFinite DEF Rooted
<1>7. Cardinality(DOMAIN m.records) \in Nat
  BY HeapFinite DEF Detaches
<1>8. c.slot \in S /\ Closed(m, S) /\ S \subseteq DOMAIN h.records
  <2>1. {c.slot} \subseteq S /\ Closed(m, S) /\ S \subseteq DOMAIN m.records
    BY <1>6, SubtreeClosed
  <2> QED BY <2>1 DEF Detaches
<1>9. \A t \in S : t = c.slot \/ (h.records[t].parent # Nil /\ h.records[t].parent.slot \in S)
  <2>1. \A s \in DOMAIN m.records : \A x \in m.records[s].children :
          m.records[x.slot].parent.slot = s /\ m.records[x.slot].parent # Nil
    <3>1. SUFFICES ASSUME NEW s \in DOMAIN m.records, NEW x \in m.records[s].children
                   PROVE  m.records[x.slot].parent.slot = s /\ m.records[x.slot].parent # Nil
      OBVIOUS
    <3>2. s \in DOMAIN h.records /\ x \in h.records[s].children
      BY <1>4 DEF Detaches
    <3>3. x.slot \in DOMAIN h.records
      BY <3>2, <1>2
    <3>4. m.records[x.slot].parent = h.records[x.slot].parent
      BY <3>3, <1>4
    <3>5. h.records[x.slot].parent.slot = s /\ h.records[x.slot].parent # Nil
      BY <3>2, <1>3
    <3> QED BY <3>4, <3>5
  <2>2. \A t \in S : t \in {c.slot} \/ (m.records[t].parent # Nil /\ m.records[t].parent.slot \in S)
    <3> DEFINE slots == {c.slot}
    <3>1. Rooted(m, slots)
      BY <1>6
    <3>2. \A t \in Subtree(m, slots) :
            t \in slots \/ (m.records[t].parent # Nil /\ m.records[t].parent.slot \in Subtree(m, slots))
      <4> HIDE DEF slots
      <4> QED BY <3>1, <1>7, <2>1, SubtreeParents
    <3> QED BY <3>2
  <2> QED BY <2>2, <1>4, <1>8
<1>10. o.slot \notin S
  <2> DEFINE T == {t \in DOMAIN h.records : h.records[t].born > o.born}
  <2>1. \A s \in DOMAIN h.records : h.records[s].born \in Int
    BY DEF HeapOK, RecordOK
  <2>2. o.born \in Int /\ h.records[o.slot].born = o.born
    BY DEF Old, Live
  <2>3. \A s \in DOMAIN h.records : \A x \in h.records[s].children :
          h.records[s].born < h.records[x.slot].born
    <3>1. SUFFICES ASSUME NEW s \in DOMAIN h.records, NEW x \in h.records[s].children
                   PROVE  h.records[s].born < h.records[x.slot].born
      OBVIOUS
    <3>2. x.slot \in DOMAIN h.records /\ h.records[x.slot].parent = HandleAt(h, s) /\ HandleAt(h, s) # Nil
      BY <1>2, HandleFacts
    <3>3. HandleAt(h, s).born < h.records[x.slot].born
      BY <3>2, <1>1 DEF TreeOK
    <3> QED BY <3>3 DEF HandleAt
  <2>4. c.slot \in T
    BY <2>2, <2>3, <1>1, <1>5
  <2>5. Closed(m, T)
    <3>1. SUFFICES ASSUME NEW s \in T, NEW x \in m.records[s].children PROVE x.slot \in T
      BY DEF Closed
    <3>2. s \in DOMAIN h.records /\ x \in h.records[s].children /\ x.slot \in DOMAIN h.records
      BY <1>2, <1>4
    <3>3. h.records[s].born < h.records[x.slot].born /\ h.records[s].born > o.born
      BY <3>2, <2>3
    <3>4. h.records[x.slot].born > o.born
      BY <3>2, <3>3, <2>1, <2>2
    <3> QED BY <3>2, <3>4
  <2>6. S \subseteq T
    <3> DEFINE slots == {c.slot}
    <3>1. slots \subseteq T
      BY <2>4
    <3>2. Subtree(m, slots) \subseteq T
      <4> HIDE DEF slots, T
      <4> QED BY <3>1, <2>5, <1>7, SubtreeLeast
    <3> QED BY <3>2
  <2>7. o.slot \notin T
    BY <2>2
  <2> QED BY <2>6, <2>7
<1>11. Closed(h, S)
  BY <1>4, <1>8, <1>10 DEF Closed
<1>12. Destroys(m, k, S)
  <2> DEFINE slots == {c.slot}
  <2>1. Shaped(m) /\ k = Destroyed(m, slots) /\ S = Subtree(m, slots)
    BY DEF Detaches
  <2> HIDE DEF slots, S
  <2> QED BY <2>1, DestroyedIs
<1> HIDE DEF S
<1>13. ASSUME NEW s \in (DOMAIN h.records) \ S PROVE Bereft(h.records[s], k.records[s], S)
  <2>1. RecordOK(h.records[s], h.next_identity, game)
    BY DEF HeapOK
  <2>2. k.records[s] = m.records[s]
    BY <1>12, <1>13 DEF Destroys, Detaches
  <2>3. \A x \in h.records[s].children : x.slot \in S => s = o.slot /\ x = c
    <3>1. SUFFICES ASSUME NEW x \in h.records[s].children, x.slot \in S PROVE s = o.slot /\ x = c
      OBVIOUS
    <3>2. h.records[x.slot].parent.slot = s /\ Live(h, x) /\ x \in Old(h.next_identity)
      BY <1>2, <1>3
    <3>3. x.slot = c.slot
      BY <3>1, <3>2, <1>9, <1>13
    <3>4. x = c
      BY <3>2, <3>3, <1>5, HandleFacts
    <3>5. o.slot = s
      BY <3>2, <3>3, <1>5
    <3> QED BY <3>4, <3>5
  <2>4. CASE s = o.slot
    <3>1. m.records[s].children = {x \in h.records[s].children : x.slot \notin S}
      BY <2>3, <2>4, <1>4, <1>8
    <3>2. m.records[s] = [h.records[s] EXCEPT !.children = m.records[s].children, !.owned = m.records[s].owned]
      BY <2>1, <2>4, <1>4 DEF Detaches, RecordOK
    <3>3. /\ IsFun(m.records[s].owned) /\ DOMAIN m.records[s].owned \subseteq DOMAIN h.records[s].owned
          /\ \A p \in DOMAIN m.records[s].owned : m.records[s].owned[p] = h.records[s].owned[p]
      BY <2>4 DEF Detaches
    <3>4. Bereft(h.records[s], m.records[s], S)
      BY <3>1, <3>2, <3>3 DEF Bereft
    <3> QED BY <3>4, <2>2
  <2>5. CASE s # o.slot
    <3>1. m.records[s] = h.records[s]
      BY <2>5 DEF Detaches
    <3>2. h.records[s].children = {x \in h.records[s].children : x.slot \notin S}
      BY <2>3, <2>5
    <3>3. IsFun(h.records[s].owned)
      BY <2>1 DEF RecordOK
    <3>4. h.records[s] = [h.records[s] EXCEPT !.children = h.records[s].children, !.owned = h.records[s].owned]
      BY <2>1 DEF RecordOK
    <3> QED BY <3>1, <3>2, <3>3, <3>4, <2>2 DEF Bereft
  <2> QED BY <2>4, <2>5
<1>14. h.roots = {x \in h.roots : x.slot \notin S}
  <2>1. SUFFICES ASSUME NEW x \in h.roots, x.slot \in S PROVE FALSE
    OBVIOUS
  <2>2. h.records[x.slot].parent = Nil
    BY <1>1 DEF TreeOK, Of
  <2> QED BY <2>1, <2>2, <1>1, <1>5, <1>9
<1>15. Cuts(h, k, S)
  <2>1. Sum(m, S) = Sum(h, S)
    <3>1. SameCharges(m, h, S)
      BY <1>4, <1>8 DEF SameCharges
    <3>2. IsFiniteSet(S)
      BY <1>8, HeapFinite, FS_Subset
    <3> QED BY <3>1, <3>2, SumSame
  <2>2. DOMAIN k.records = (DOMAIN h.records) \ S
    BY <1>12 DEF Destroys, Detaches
  <2>3. k.roots = h.roots /\ k.free = h.free \cup S /\ k.next_identity = h.next_identity
        /\ k.charged = h.charged - Sum(m, S) /\ k.status = h.status /\ Shaped(k)
    BY <1>12 DEF Destroys, Detaches
  <2>4. k.status \in {"live", "terminal", "aborted"}
    BY <2>3 DEF HeapOK
  <2> QED BY <2>1, <2>2, <2>3, <2>4, <1>13, <1>14 DEF Cuts
<1>16. HeapOK(k, game)
  BY <1>8, <1>11, <1>15, CutsOK
<1>17. ASSUME NEW a \in h.roots \ {o} PROVE Loyal(h, k, a)
  <2>1. Live(h, a) /\ a \in Old(h.next_identity) /\ a.slot \notin S /\ a # Nil
    BY <1>1, <1>14, HandleFacts DEF HeapOK, TreeOK
  <2>2. ASSUME NEW s \in DOMAIN h.records, h.records[s].parent = a PROVE s \notin S
    BY <1>9, <1>5, <2>1, <2>2
  <2> QED BY <2>1, <2>2, <1>15, CutsFollows
<1>18. Follows(h, k)
  BY <1>15, CutsFollows
<1> QED BY <1>8, <1>10, <1>12, <1>15, <1>16, <1>17, <1>18 DEF Destroys, Detaches, S, ChildGone

(***************************************************************************)
(* What an operation leaves of a heap                                      *)
(***************************************************************************)
Childless(h) == {a \in h.roots : DOMAIN Of(h, a).owned = {}}

(* A store that is live still has the roots that own no field, with what   *)
(* they own.                                                               *)
Bears(h, k) ==
  k.status = "live" => h.status = "live" /\ \A a \in Childless(h) : Loyal(h, k, a)

(* What every operation does to a heap: it stays one, nothing comes back,  *)
(* and the roots that own no field stay.                                   *)
Keeps(h, k) == HeapOK(k, game) /\ Follows(h, k) /\ Bears(h, k)

(* This holds across several operations. *)
LEMMA BearsJoin ==
  ASSUME NEW h, NEW k, NEW m, HeapOK(h, game), HeapOK(k, game), HeapOK(m, game),
         Descends(h, k), Bears(h, k), Bears(k, m)
  PROVE  Bears(h, m)
<1>1. SUFFICES ASSUME m.status = "live" PROVE h.status = "live" /\ \A a \in Childless(h) : Loyal(h, m, a)
  BY DEF Bears
<1>2. k.status = "live" /\ \A a \in Childless(k) : Loyal(k, m, a)
  BY <1>1 DEF Bears
<1>3. h.status = "live" /\ \A a \in Childless(h) : Loyal(h, k, a)
  BY <1>2 DEF Bears
<1>4. ASSUME NEW a \in Childless(h) PROVE a \in Childless(k)
  <2>1. a \in k.roots /\ a \in h.roots
    BY <1>3, <1>4 DEF Loyal, Childless
  <2>2. a \in Old(h.next_identity) /\ Live(k, a)
    BY <2>1 DEF HeapOK, TreeOK
  <2>3. a.slot \in DOMAIN k.records /\ k.records[a.slot].born = a.born
    BY <2>2 DEF Live
  <2>4. a.born \in Int /\ h.next_identity \in Int /\ a.born < h.next_identity
    BY <2>2 DEF Old, HeapOK
  <2>5. Kin(h.records[a.slot], k.records[a.slot])
    BY <2>3, <2>4 DEF Descends
  <2>6. DOMAIN h.records[a.slot].owned = {}
    BY <1>4 DEF Childless, Of
  <2> QED BY <2>1, <2>5, <2>6 DEF Kin, Childless, Of
<1>5. ASSUME NEW a \in Childless(h) PROVE Loyal(h, m, a)
  BY <1>2, <1>3, <1>4, <1>5, LoyalJoin
<1> QED BY <1>3, <1>5

LEMMA KeepsJoin ==
  ASSUME NEW h, NEW k, NEW m, HeapOK(h, game), Keeps(h, k), Keeps(k, m)
  PROVE  Keeps(h, m)
<1>1. HeapOK(k, game) /\ HeapOK(m, game) /\ Follows(h, k) /\ Follows(k, m) /\ Bears(h, k) /\ Bears(k, m)
  BY DEF Keeps
<1>2. Follows(h, m)
  BY <1>1, FollowsJoin
<1>3. Bears(h, m)
  BY <1>1, FollowsDescends, BearsJoin
<1> QED BY <1>1, <1>2, <1>3 DEF Keeps

(* And of none. *)
LEMMA KeepsSelf ==
  ASSUME NEW h, HeapOK(h, game) PROVE Keeps(h, h)
<1>1. \A s \in DOMAIN h.records : Heir(h.records[s], h.records[s])
  BY RecordSizes DEF Heir, Kin, HeapOK
<1> QED BY <1>1 DEF Keeps, Follows, Bears, Loyal, HeapOK, Childless

(* A record is rewritten where it is. *)
LEMMA RewritesKeeps ==
  ASSUME NEW h, HeapOK(h, game), NEW k, NEW s \in DOMAIN h.records, NEW q, Rewrites(h, k, s, q), HeapOK(k, game),
         q.born = h.records[s].born, q.parent = h.records[s].parent, Kin(h.records[s], q),
         k.status = "live" => h.status = "live"
  PROVE  /\ Descends(h, k) /\ Bears(h, k)
         /\ Heir(h.records[s], q) => Keeps(h, k)
         /\ \A o : Live(k, o) <=> Live(h, o)
<1>1. DOMAIN k.records = DOMAIN h.records /\ k.next_identity = h.next_identity /\ k.roots = h.roots
  BY DEF Rewrites
<1>2. \A t \in DOMAIN h.records :
        /\ k.records[t] = IF t = s THEN q ELSE h.records[t]
        /\ k.records[t].born = h.records[t].born
        /\ k.records[t].parent = h.records[t].parent
        /\ Kin(h.records[t], k.records[t])
  BY DEF Rewrites, Kin
<1>3. Descends(h, k)
  BY <1>1, <1>2 DEF Descends, HeapOK
<1>4. \A a \in h.roots : Loyal(h, k, a)
  BY <1>1, <1>2 DEF Loyal
<1>5. Bears(h, k)
  BY <1>4 DEF Bears, Childless
<1>6. ASSUME Heir(h.records[s], q) PROVE Keeps(h, k)
  <2>1. \A t \in DOMAIN h.records : Heir(h.records[t], h.records[t])
    BY RecordSizes DEF Heir, Kin, HeapOK
  <2>2. \A t \in DOMAIN h.records : Heir(h.records[t], k.records[t])
    BY <1>2, <1>6, <2>1
  <2> QED BY <1>1, <1>5, <2>2 DEF Keeps, Follows, HeapOK
<1>7. \A o : Live(k, o) <=> Live(h, o)
  BY <1>1, <1>2 DEF Live
<1> QED BY <1>3, <1>5, <1>6, <1>7

(***************************************************************************)
(* Lifetimes                                                               *)
(***************************************************************************)
SameButLife(r, q) ==
  /\ q = [r EXCEPT !.lifetime = q.lifetime]
  /\ q.born = r.born /\ q.parent = r.parent /\ q.children = r.children /\ q.kind = r.kind
  /\ q.prototypes = r.prototypes /\ q.properties = r.properties /\ q.elements = r.elements
  /\ q.capacity = r.capacity /\ q.owned = r.owned

(* Heaps that differ in the lifetimes of records. *)
Alike(h, k) ==
  /\ HeapOK(k, game) /\ DOMAIN k.records = DOMAIN h.records
  /\ \A s \in DOMAIN h.records : SameButLife(h.records[s], k.records[s])
  /\ k.roots = h.roots /\ k.free = h.free /\ k.next_identity = h.next_identity
  /\ k.charged = h.charged /\ k.status = h.status

(* Lifetimes may change several times. *)
LEMMA AlikeJoin ==
  ASSUME NEW h, NEW k, NEW m, Alike(h, k), Alike(k, m) PROVE Alike(h, m)
<1>1. ASSUME NEW s \in DOMAIN h.records PROVE SameButLife(h.records[s], m.records[s])
  <2>1. SameButLife(h.records[s], k.records[s]) /\ SameButLife(k.records[s], m.records[s])
    BY <1>1 DEF Alike
  <2> QED BY <2>1 DEF SameButLife
<1> QED BY <1>1 DEF Alike

LEMMA AlikeSelf ==
  ASSUME NEW h, HeapOK(h, game) PROVE Alike(h, h)
<1>1. ASSUME NEW s \in DOMAIN h.records PROVE SameButLife(h.records[s], h.records[s])
  <2>1. RecordOK(h.records[s], h.next_identity, game)
    BY <1>1 DEF HeapOK
  <2> QED BY <2>1 DEF SameButLife, RecordOK
<1> QED BY <1>1 DEF Alike

(* Changing lifetimes keeps a heap. *)
LEMMA AlikeKeeps ==
  ASSUME NEW h, HeapOK(h, game), NEW k, Alike(h, k)
  PROVE  Keeps(h, k) /\ \A o : Live(k, o) <=> Live(h, o)
<1>1. \A s \in DOMAIN h.records : Heir(h.records[s], k.records[s])
        /\ k.records[s].born = h.records[s].born /\ k.records[s].parent = h.records[s].parent
  <2>1. SUFFICES ASSUME NEW s \in DOMAIN h.records
        PROVE  Heir(h.records[s], k.records[s])
               /\ k.records[s].born = h.records[s].born /\ k.records[s].parent = h.records[s].parent
    OBVIOUS
  <2>2. RecordOK(h.records[s], h.next_identity, game) /\ SameButLife(h.records[s], k.records[s])
    BY DEF HeapOK, Alike
  <2>3. h.records[s].capacity \in Int /\ Cardinality(DOMAIN h.records[s].elements) \in Int
    BY <2>2, RecordSizes
  <2> QED BY <2>2, <2>3 DEF Heir, Kin, SameButLife
<1>2. DOMAIN k.records = DOMAIN h.records /\ k.next_identity = h.next_identity /\ k.roots = h.roots
      /\ k.status = h.status /\ HeapOK(k, game)
  BY DEF Alike
<1>3. Follows(h, k)
  BY <1>1, <1>2 DEF Follows, HeapOK
<1>4. Bears(h, k)
  BY <1>1, <1>2 DEF Bears, Loyal, Childless
<1> QED BY <1>1, <1>2, <1>3, <1>4 DEF Keeps, Live

(* One lifetime changes. *)
LEMMA LifeChanged ==
  ASSUME NEW r, NEW n, NEW g, RecordOK(r, n, g), NEW l \in {"World", "Turn"}, NEW q, q = [r EXCEPT !.lifetime = l]
  PROVE  RecordOK(q, n, g) /\ SameButLife(r, q) /\ Charge(q) = Charge(r)
<1>1. r \in RecordSet(r, n)
  BY DEF RecordOK, RecordSet
<1>2. /\ q.born = r.born /\ q.parent = r.parent /\ q.kind = r.kind /\ q.lifetime = l
      /\ q.prototypes = r.prototypes /\ q.elements = r.elements /\ q.properties = r.properties
      /\ q.capacity = r.capacity /\ q.children = r.children /\ q.owned = r.owned
  BY <1>1 DEF RecordSet
<1>3. q \in RecordSet(q, n)
  BY <1>1, <1>2 DEF RecordSet
<1> QED BY <1>2, <1>3 DEF RecordOK, RecordSet, SameButLife, Charge

(* Promoting changes lifetimes only. *)
LEMMA InWorldAlike ==
  ASSUME NEW h, HeapOK(h, game), NEW X, NEW k, k = InWorld(h, X)
  PROVE  Alike(h, k)
<1> DEFINE slots == {o.slot : o \in X}
<1>1. /\ Shaped(k)
      /\ k.records = [s \in DOMAIN h.records |->
           IF s \in slots THEN [h.records[s] EXCEPT !.lifetime = "World"] ELSE h.records[s]]
      /\ k.roots = h.roots /\ k.free = h.free /\ k.next_identity = h.next_identity
      /\ k.charged = h.charged /\ k.status = h.status
  <2> HIDE DEF slots
  <2>1. Shaped(h)
    BY DEF HeapOK
  <2> QED BY <2>1 DEF InWorld, Shaped, slots, IsFun
<1>2. DOMAIN k.records = DOMAIN h.records
  BY <1>1
<1>3. ASSUME NEW s \in DOMAIN h.records
      PROVE  /\ RecordOK(k.records[s], h.next_identity, game) /\ SameButLife(h.records[s], k.records[s])
             /\ Charge(k.records[s]) = Charge(h.records[s])
  <2> HIDE DEF slots
  <2>1. RecordOK(h.records[s], h.next_identity, game)
    BY DEF HeapOK
  <2>2. CASE s \in slots
    <3>1. k.records[s] = [h.records[s] EXCEPT !.lifetime = "World"]
      BY <1>1, <2>2
    <3> QED BY <2>1, <3>1, LifeChanged
  <2>3. CASE s \notin slots
    <3>1. k.records[s] = h.records[s]
      BY <1>1, <2>3
    <3>2. SameButLife(h.records[s], h.records[s])
      BY <2>1 DEF SameButLife, RecordOK
    <3> QED BY <2>1, <3>1, <3>2
  <2> QED BY <2>2, <2>3
<1> HIDE DEF slots
<1>4. \A s \in DOMAIN h.records : k.records[s].born = h.records[s].born /\ k.records[s].parent = h.records[s].parent
                                  /\ k.records[s].children = h.records[s].children
  BY <1>3 DEF SameButLife
<1>5. \A o : Live(k, o) <=> Live(h, o)
  BY <1>2, <1>4 DEF Live
<1>6. \A s \in DOMAIN h.records : HandleAt(k, s) = HandleAt(h, s)
  BY <1>4 DEF HandleAt
<1>7. \A o : Live(h, o) => Of(k, o).parent = Of(h, o).parent /\ Of(k, o).children = Of(h, o).children
  BY <1>4 DEF Live, Of
<1>8. TreeOK(k)
  <2>1. TreeOK(h)
    BY DEF HeapOK
  <2>2. \A o \in k.roots : Live(k, o) /\ Of(k, o).parent = Nil
    BY <2>1, <1>1, <1>5, <1>7 DEF TreeOK
  <2>3. \A t \in DOMAIN k.records : k.records[t].parent = Nil => HandleAt(k, t) \in k.roots
    BY <2>1, <1>1, <1>2, <1>4, <1>6 DEF TreeOK
  <2>4. ASSUME NEW t \in DOMAIN k.records, k.records[t].parent # Nil
        PROVE  /\ Live(k, k.records[t].parent) /\ HandleAt(k, t) \in Of(k, k.records[t].parent).children
               /\ k.records[t].parent.born < k.records[t].born
    <3>1. t \in DOMAIN h.records /\ k.records[t].parent = h.records[t].parent
          /\ k.records[t].born = h.records[t].born /\ HandleAt(k, t) = HandleAt(h, t)
      BY <1>2, <1>4, <1>6
    <3>2. /\ Live(h, h.records[t].parent) /\ HandleAt(h, t) \in Of(h, h.records[t].parent).children
          /\ h.records[t].parent.born < h.records[t].born
      BY <2>1, <2>4, <3>1 DEF TreeOK
    <3> QED BY <3>1, <3>2, <1>5, <1>7
  <2>5. ASSUME NEW t \in DOMAIN k.records, NEW c \in k.records[t].children
        PROVE  Live(k, c) /\ Of(k, c).parent = HandleAt(k, t)
    <3>1. t \in DOMAIN h.records /\ c \in h.records[t].children /\ HandleAt(k, t) = HandleAt(h, t)
      BY <1>2, <1>4, <1>6
    <3>2. Live(h, c) /\ Of(h, c).parent = HandleAt(h, t)
      BY <2>1, <3>1 DEF TreeOK
    <3> QED BY <3>1, <3>2, <1>5, <1>7
  <2> QED BY <2>2, <2>3, <2>4, <2>5 DEF TreeOK
<1>9. k.charged = Total(k)
  <2>1. SameCharges(h, k, DOMAIN h.records)
    BY <1>3 DEF SameCharges
  <2>2. IsFiniteSet(DOMAIN h.records) /\ Total(h) = Sum(h, DOMAIN h.records)
    BY HeapFinite
  <2>3. Sum(h, DOMAIN h.records) = Sum(k, DOMAIN h.records)
    BY <2>1, <2>2, SumSame
  <2>4. Total(k) = Sum(k, DOMAIN h.records)
    BY <1>2 DEF Total, Sum
  <2> QED BY <2>2, <2>3, <2>4, <1>1 DEF HeapOK
<1>10. OwnsOK(k)
  <2>1. SUFFICES ASSUME NEW s \in DOMAIN k.records, NEW x \in DOMAIN k.records[s].owned,
                        NEW v, v = k.records[s].owned[x], Live(k, v)
                 PROVE  k.records[v.slot].parent = HandleAt(k, s)
    BY DEF OwnsOK
  <2>2. Live(h, v) /\ s \in DOMAIN h.records /\ k.records[s].owned = h.records[s].owned
    BY <2>1, <1>2, <1>3, <1>5 DEF SameButLife
  <2>3. h.records[v.slot].parent = HandleAt(h, s)
    BY <2>1, <2>2 DEF HeapOK, OwnsOK
  <2> QED BY <2>2, <2>3, <1>4, <1>6 DEF Live
<1>11. HeapOK(k, game)
  BY <1>1, <1>2, <1>3, <1>8, <1>9, <1>10 DEF HeapOK
<1> QED BY <1>1, <1>2, <1>3, <1>11 DEF Alike

(* So does storing. *)
LEMMA StoredAlike ==
  ASSUME NEW h, HeapOK(h, game), NEW o, NEW v
  PROVE  Alike(h, Stored(h, o, v))
<1>1. CASE World(h, o)
  <2>1. Stored(h, o, v) = InWorld(h, Reached(h, v, {"vector"}))
    BY <1>1 DEF Stored, Promoted
  <2> QED BY <2>1, InWorldAlike
<1>2. CASE ~World(h, o)
  <2>1. Stored(h, o, v) = h
    BY <1>2 DEF Stored
  <2> QED BY <2>1, AlikeSelf
<1> QED BY <1>1, <1>2

(***************************************************************************)
(* Fields                                                                  *)
(***************************************************************************)
(* No record charges more than the counter. *)
LEMMA ChargeCovered ==
  ASSUME NEW h, HeapOK(h, game), NEW s \in DOMAIN h.records
  PROVE  Charge(h.records[s]) \in Nat /\ Charge(h.records[s]) <= h.charged /\ h.charged \in Nat
<1>1. IsFiniteSet(DOMAIN h.records) /\ Counts(h, DOMAIN h.records) /\ h.charged = Sum(h, DOMAIN h.records)
  BY HeapFinite DEF HeapOK
<1>2. Sum(h, DOMAIN h.records) = Charge(h.records[s]) + Sum(h, (DOMAIN h.records) \ {s})
  BY <1>1, SumRemoved
<1>3. \A T \in SUBSET DOMAIN h.records : Sum(h, T) \in Nat
  BY <1>1, SumFacts
<1>4. Sum(h, (DOMAIN h.records) \ {s}) \in Nat /\ Charge(h.records[s]) \in Nat
  BY <1>1, <1>3 DEF Counts
<1> QED BY <1>1, <1>2, <1>4

(* A property is written. *)
LEMMA PropertyWritten ==
  ASSUME NEW r, NEW n, NEW g, RecordOK(r, n, g), NEW p \in g.props \cup {Field}, NEW v \in Ref(n),
         NEW q, q = [r EXCEPT !.properties = With(r.properties, p, v)]
  PROVE  /\ RecordOK(q, n, g) /\ Heir(r, q)
         /\ q.born = r.born /\ q.children = r.children /\ q.parent = r.parent
         /\ Charge(q) = Charge(r) + (IF p \in DOMAIN r.properties THEN 0 ELSE 1)
<1>1. r \in RecordSet(r, n)
  BY DEF RecordOK, RecordSet
<1>2. /\ q.born = r.born /\ q.parent = r.parent /\ q.kind = r.kind /\ q.lifetime = r.lifetime
      /\ q.prototypes = r.prototypes /\ q.elements = r.elements /\ q.properties = With(r.properties, p, v)
      /\ q.capacity = r.capacity /\ q.children = r.children /\ q.owned = r.owned
  BY <1>1 DEF RecordSet
<1>3. q \in RecordSet(q, n)
  <2>1. q \in [born : {q.born}, lifetime : {q.lifetime}, kind : {q.kind}, parent : {q.parent}, children : {q.children},
               properties : {q.properties}, owned : {q.owned}, elements : {q.elements},
               capacity : {q.capacity}, prototypes : {q.prototypes}]
    BY <1>1 DEF RecordSet
  <2> QED BY <1>1, <1>2, <2>1 DEF RecordSet
<1> DEFINE D == DOMAIN r.properties
           w == With(r.properties, p, v)
<1>4. /\ DOMAIN w = D \cup {p} /\ IsFun(w)
      /\ \A x \in DOMAIN w : w[x] = IF x = p THEN v ELSE r.properties[x]
  BY DEF With, IsFun
<1>5. IsFiniteSet(D)
  BY DEF RecordOK
<1>6. Cardinality(D) \in Nat /\ IsFiniteSet(D \cup {p})
      /\ Cardinality(D \cup {p}) = Cardinality(D) + (IF p \in D THEN 0 ELSE 1)
  <2> HIDE DEF D
  <2>1. Cardinality(D) \in Nat
    BY <1>5, FS_CardinalityType
  <2> QED BY <1>5, <2>1, FS_AddElement
<1>7. /\ D \subseteq g.props \cup {Field} /\ \A x \in D : r.properties[x] \in Ref(n)
      /\ DOMAIN r.owned \subseteq D
  BY DEF RecordOK
<1>8. RecordOK(q, n, g)
  <2>1. /\ IsFun(q.properties) /\ IsFiniteSet(DOMAIN q.properties)
        /\ DOMAIN q.properties \subseteq g.props \cup {Field}
        /\ \A x \in DOMAIN q.properties : q.properties[x] \in Ref(n)
        /\ DOMAIN q.owned \subseteq DOMAIN q.properties
    <3> HIDE DEF w, D
    <3>1. q.properties = w
      BY <1>2 DEF w
    <3> QED BY <3>1, <1>2, <1>4, <1>6, <1>7
  <2>2. q \in [born : 1..(n - 1), lifetime : {"World", "Turn"}, kind : {"plain", "vector", "table"},
            parent : Ref(n), children : SUBSET Old(n), properties : {q.properties},
            owned : {q.owned}, elements : {q.elements}, capacity : Nat, prototypes : 0..1]
    BY <1>3 DEF RecordSet
  <2> QED BY <2>1, <2>2, <1>2 DEF RecordOK
<1>9. Heir(r, q)
  BY <1>2, RecordSizes DEF Heir, Kin
<1>10. Charge(q) = Charge(r) + (IF p \in D THEN 0 ELSE 1)
  <2>1. r.prototypes \in Nat /\ r.capacity \in Nat /\ Cardinality(DOMAIN r.elements) \in Int
    BY <1>1, RecordSizes DEF RecordSet
  <2>2. DOMAIN q.properties = D \cup {p}
    BY <1>2, <1>4
  <2> HIDE DEF D, w
  <2>3. Charge(q) = Cardinality(D \cup {p}) + r.prototypes + r.capacity
                    + (IF r.kind = "table" THEN 1 + 2 * Cardinality(DOMAIN r.elements) ELSE 0)
    BY <1>2, <2>2 DEF Charge
  <2>4. Charge(r) = Cardinality(D) + r.prototypes + r.capacity
                    + (IF r.kind = "table" THEN 1 + 2 * Cardinality(DOMAIN r.elements) ELSE 0)
    BY DEF Charge, D
  <2> QED BY <2>1, <2>3, <2>4, <1>6
<1> QED BY <1>2, <1>8, <1>9, <1>10

(* A record with a property less. *)
WithoutField(r, q, n, g) ==
  /\ RecordOK(q, n, g) /\ Heir(r, q)
  /\ q.born = r.born /\ q.children = r.children /\ q.parent = r.parent
  /\ Charge(q) = Charge(r) - 1 /\ Charge(r) >= 1

(* A property that owns nothing is cleared. *)
LEMMA PropertyCleared ==
  ASSUME NEW r, NEW n, NEW g, RecordOK(r, n, g), NEW p, p \in DOMAIN r.properties, p \notin DOMAIN r.owned,
         NEW q, q = [r EXCEPT !.properties = Restrict(r.properties, (DOMAIN r.properties) \ {p})]
  PROVE  WithoutField(r, q, n, g)
<1>1. r \in RecordSet(r, n)
  BY DEF RecordOK, RecordSet
<1> DEFINE D == DOMAIN r.properties
           w == Restrict(r.properties, D \ {p})
<1>2. /\ q.born = r.born /\ q.parent = r.parent /\ q.kind = r.kind /\ q.lifetime = r.lifetime
      /\ q.prototypes = r.prototypes /\ q.elements = r.elements /\ q.properties = w
      /\ q.capacity = r.capacity /\ q.children = r.children /\ q.owned = r.owned
  BY <1>1 DEF RecordSet
<1>3. q \in RecordSet(q, n)
  <2>1. q \in [born : {q.born}, lifetime : {q.lifetime}, kind : {q.kind}, parent : {q.parent}, children : {q.children},
               properties : {q.properties}, owned : {q.owned}, elements : {q.elements},
               capacity : {q.capacity}, prototypes : {q.prototypes}]
    BY <1>1 DEF RecordSet
  <2> QED BY <1>1, <1>2, <2>1 DEF RecordSet
<1>4. /\ DOMAIN w = D \ {p} /\ IsFun(w)
      /\ \A x \in DOMAIN w : w[x] = r.properties[x]
  BY DEF Restrict, IsFun
<1>5. IsFiniteSet(D)
  BY DEF RecordOK
<1>6. IsFiniteSet(D \ {p}) /\ Cardinality(D \ {p}) = Cardinality(D) - 1 /\ Cardinality(D) \in Nat
      /\ Cardinality(D \ {p}) \in Nat
  <2> HIDE DEF D
  <2>1. p \in D
    BY DEF D
  <2> QED BY <1>5, <2>1, Smaller
<1>7. /\ D \subseteq g.props \cup {Field} /\ \A x \in D : r.properties[x] \in Ref(n)
      /\ DOMAIN r.owned \subseteq D \ {p}
  BY DEF RecordOK
<1>8. RecordOK(q, n, g)
  <2>1. /\ IsFun(q.properties) /\ IsFiniteSet(DOMAIN q.properties)
        /\ DOMAIN q.properties \subseteq g.props \cup {Field}
        /\ \A x \in DOMAIN q.properties : q.properties[x] \in Ref(n)
        /\ DOMAIN q.owned \subseteq DOMAIN q.properties
    <3> HIDE DEF w, D
    <3>1. q.properties = w
      BY <1>2 DEF w
    <3> QED BY <3>1, <1>2, <1>4, <1>6, <1>7
  <2>2. q \in [born : 1..(n - 1), lifetime : {"World", "Turn"}, kind : {"plain", "vector", "table"},
            parent : Ref(n), children : SUBSET Old(n), properties : {q.properties},
            owned : {q.owned}, elements : {q.elements}, capacity : Nat, prototypes : 0..1]
    BY <1>3 DEF RecordSet
  <2> QED BY <2>1, <2>2, <1>2 DEF RecordOK
<1>9. Heir(r, q)
  BY <1>2, RecordSizes DEF Heir, Kin
<1>10. Charge(q) = Charge(r) - 1 /\ Charge(r) >= 1
  <2>1. r.prototypes \in Nat /\ r.capacity \in Nat /\ Cardinality(DOMAIN r.elements) \in Nat
    BY <1>1, FS_CardinalityType DEF RecordSet, RecordOK, ElementsOK
  <2>2. DOMAIN q.properties = D \ {p}
    BY <1>2, <1>4
  <2> HIDE DEF D, w
  <2>3. Charge(q) = Cardinality(D \ {p}) + r.prototypes + r.capacity
                    + (IF r.kind = "table" THEN 1 + 2 * Cardinality(DOMAIN r.elements) ELSE 0)
    BY <1>2, <2>2 DEF Charge
  <2>4. Charge(r) = Cardinality(D) + r.prototypes + r.capacity
                    + (IF r.kind = "table" THEN 1 + 2 * Cardinality(DOMAIN r.elements) ELSE 0)
    BY DEF Charge, D
  <2> QED BY <2>1, <2>3, <2>4, <1>6
<1> QED BY <1>2, <1>8, <1>9, <1>10 DEF WithoutField

(* The program stops. *)
LEMMA AbortedKeeps ==
  ASSUME NEW h, HeapOK(h, game), NEW s \in DOMAIN h.records, NEW k, k = [h EXCEPT !.status = "aborted"]
  PROVE  Keeps(h, k) /\ k.next_identity = h.next_identity
<1>1. Shaped(h)
  BY DEF HeapOK
<1>2. Rewrites(h, k, s, h.records[s]) /\ k.charged = h.charged /\ k.status = "aborted"
      /\ k.next_identity = h.next_identity
  <2>1. [h.records EXCEPT ![s] = h.records[s]] = h.records
    BY <1>1 DEF Shaped, IsFun
  <2>2. /\ k \in [records : {h.records}, roots : {h.roots}, free : {h.free}, next_identity : {h.next_identity},
         charged : {h.charged}, status : {"aborted"}]
    BY <1>1 DEF Shaped
  <2> QED BY <1>1, <2>1, <2>2 DEF Rewrites, Shaped
<1>3. RecordOK(h.records[s], h.next_identity, game)
  BY DEF HeapOK
<1>4. HeapOK(k, game)
  <2>1. Charge(h.records[s]) \in Nat /\ h.charged \in Nat /\ h.charged <= game.properties
    BY ChargeCovered DEF HeapOK
  <2>2. k.charged = h.charged - Charge(h.records[s]) + Charge(h.records[s]) /\ k.charged <= game.properties
    BY <2>1, <1>2
  <2> QED BY <2>2, <1>2, <1>3, RewritesOK
<1>5. Heir(h.records[s], h.records[s]) /\ Kin(h.records[s], h.records[s])
  BY <1>3, RecordSizes DEF Heir, Kin
<1> QED BY <1>2, <1>4, <1>5, RewritesKeeps

(* A field gives up the record it owns. *)
LEMMA DisownedKeeps ==
  ASSUME NEW h, HeapOK(h, game), NEW o \in Old(h.next_identity), Live(h, o),
         NEW p \in DOMAIN Of(h, o).owned, Of(h, o).owned[p] \in Of(h, o).children,
         NEW k, k = Disowned(h, o, p)
  PROVE  /\ Keeps(h, k) /\ k.next_identity = h.next_identity /\ k.status = h.status
         /\ Live(k, o) /\ k.records[o.slot].properties = h.records[o.slot].properties
<1> DEFINE c == Of(h, o).owned[p]
           left == Restrict(h.records[o.slot].owned, (DOMAIN h.records[o.slot].owned) \ {p})
           m == [h EXCEPT !.records[o.slot].owned = left, !.records[o.slot].children = @ \ {c}]
<1>1. Shaped(h) /\ o.slot \in DOMAIN h.records /\ RecordOK(h.records[o.slot], h.next_identity, game)
  BY DEF HeapOK, Live
<1>2. k = Destroyed(m, {c.slot})
  BY <1>1 DEF Disowned, Of, Shaped
<1>3. Detaches(h, m, o, c)
  <2> DEFINE r == h.records[o.slot]
             q == [r EXCEPT !.owned = left, !.children = @ \ {c}]
  <2>1. /\ m.records = [h.records EXCEPT ![o.slot] = q]
        /\ m \in [records : {m.records}, roots : {h.roots}, free : {h.free}, next_identity : {h.next_identity},
             charged : {h.charged}, status : {h.status}]
    <3> HIDE DEF left, c
    <3> QED BY <1>1 DEF Shaped
  <2>2. r \in RecordSet(r, h.next_identity)
    BY <1>1 DEF RecordOK, RecordSet
  <2>3. /\ IsFun(left) /\ DOMAIN left \subseteq DOMAIN r.owned /\ \A x \in DOMAIN left : left[x] = r.owned[x]
    BY DEF Restrict, IsFun
  <2>4. q.owned = left /\ q = [r EXCEPT !.children = @ \ {c}, !.owned = q.owned]
    <3> HIDE DEF left, c
    <3> QED BY <2>2 DEF RecordSet
  <2> HIDE DEF left, c, m
  <2>5. DOMAIN m.records = DOMAIN h.records /\ m.records[o.slot] = q /\ IsFun(m.records)
        /\ \A s \in DOMAIN h.records : s # o.slot => m.records[s] = h.records[s]
    <3> HIDE DEF q
    <3> QED BY <1>1, <2>1 DEF Shaped, IsFun
  <2>6. /\ m.roots = h.roots /\ m.free = h.free /\ m.next_identity = h.next_identity
        /\ m.charged = h.charged /\ m.status = h.status /\ Shaped(m)
    BY <2>1, <2>5 DEF Shaped
  <2> HIDE DEF q
  <2> QED BY <2>3, <2>4, <2>5, <2>6 DEF Detaches
<1>4. c \in Of(h, o).children
  OBVIOUS
<1> HIDE DEF m, c
<1>5. /\ HeapOK(k, game) /\ Follows(h, k)
      /\ \A a \in h.roots \ {o} : Loyal(h, k, a)
      /\ k.next_identity = h.next_identity /\ k.status = h.status
      /\ o.slot \notin Subtree(m, {c.slot})
      /\ Cuts(h, k, Subtree(m, {c.slot}))
  <2>1. ChildGone(h, k, o, m, c)
    BY ONLY HeapOK(h, game), o \in Old(h.next_identity), Live(h, o), <1>2, <1>3, <1>4, ChildCut
  <2> QED BY <2>1 DEF ChildGone
<1>6. o \notin Childless(h)
  BY DEF Childless
<1>7. Keeps(h, k)
  BY <1>5, <1>6 DEF Keeps, Bears, Childless
<1>8. Live(k, o) /\ k.records[o.slot].properties = h.records[o.slot].properties
  <2>1. o.slot \in DOMAIN k.records /\ Bereft(h.records[o.slot], k.records[o.slot], Subtree(m, {c.slot}))
    BY <1>1, <1>5 DEF Cuts
  <2>2. k.records[o.slot].born = h.records[o.slot].born /\ k.records[o.slot].properties = h.records[o.slot].properties
    BY <2>1, <1>1, BereftOK
  <2> QED BY <2>1, <2>2 DEF Live
<1> QED BY <1>5, <1>7, <1>8

(* set, whatever path it takes. *)
LEMMA AssignedKeeps ==
  ASSUME NEW h, HeapOK(h, game), NEW o \in Old(h.next_identity), Live(h, o),
         NEW p \in game.props \cup {Field}, NEW v \in Ref(h.next_identity), NEW k, k = Assigned(h, o, p, v)
  PROVE  Keeps(h, k) /\ k.next_identity = h.next_identity
<1> DEFINE r == Of(h, o)
           stored == Stored(h, o, v)
           new == p \notin DOMAIN r.properties
           owns == p \in DOMAIN r.owned
<1>1. Alike(h, stored) /\ HeapOK(stored, game) /\ Keeps(h, stored) /\ Live(stored, o)
      /\ stored.next_identity = h.next_identity
  <2>1. Alike(h, stored)
    BY StoredAlike
  <2> HIDE DEF stored
  <2> QED BY <2>1, AlikeKeeps DEF Alike
<1>2. SameButLife(r, stored.records[o.slot]) /\ o.slot \in DOMAIN stored.records
  <2> HIDE DEF stored
  <2> QED BY <1>1 DEF Alike, Of, Live
<1>3. DOMAIN r.owned \subseteq DOMAIN r.properties /\ IsFun(r.owned)
  BY DEF HeapOK, RecordOK, Live, Of
<1>4. SUFFICES ASSUME TRUE PROVE Keeps(stored, k) /\ k.next_identity = stored.next_identity
  <2> HIDE DEF stored
  <2> QED BY <1>1, KeepsJoin
<1>5. CASE new /\ stored.charged >= PropertyLimit
  <2>1. k = Failed(stored)
    BY <1>5 DEF Assigned
  <2> HIDE DEF stored
  <2>2. HeapOK(k, game) /\ Follows(stored, k) /\ k.status = "terminal" /\ k.next_identity = stored.next_identity
    BY <2>1, <1>1, FailedOK
  <2> QED BY <2>2 DEF Keeps, Bears
<1>6. CASE ~(new /\ stored.charged >= PropertyLimit) /\ owns /\ v = r.owned[p]
  <2>1. k = stored
    BY <1>6 DEF Assigned
  <2> HIDE DEF stored
  <2> QED BY <2>1, <1>1, KeepsSelf
<1>7. CASE ~(new /\ stored.charged >= PropertyLimit) /\ owns /\ v # r.owned[p] /\ r.owned[p] \notin r.children
  <2>1. k = [stored EXCEPT !.status = "aborted"]
    BY <1>7 DEF Assigned
  <2> HIDE DEF stored
  <2> QED BY <2>1, <1>1, <1>2, AbortedKeeps
<1>8. CASE ~(new /\ stored.charged >= PropertyLimit) /\ (owns => v # r.owned[p] /\ r.owned[p] \in r.children)
  <2> DEFINE m == IF owns THEN Disowned(stored, o, p) ELSE stored
             t == m.records[o.slot]
             q == [t EXCEPT !.properties = With(t.properties, p, v)]
  <2>1. k = [m EXCEPT !.records[o.slot].properties = With(@, p, v), !.charged = @ + (IF new THEN 1 ELSE 0)]
    BY <1>8 DEF Assigned
  <2>2. /\ Keeps(stored, m) /\ m.next_identity = stored.next_identity /\ m.status = stored.status
        /\ Live(m, o) /\ t.properties = r.properties
    <3>1. CASE owns
      <4>1. m = Disowned(stored, o, p)
        BY <3>1
      <4>2. p \in DOMAIN Of(stored, o).owned /\ Of(stored, o).owned[p] \in Of(stored, o).children
        BY <1>2, <1>8, <3>1 DEF SameButLife, Of
      <4>3. o \in Old(stored.next_identity)
        BY <1>1
      <4>4. t.properties = stored.records[o.slot].properties /\ Keeps(stored, m) /\ m.next_identity = stored.next_identity
            /\ m.status = stored.status /\ Live(m, o)
        <5> HIDE DEF stored, m, owns
        <5> QED BY <4>1, <4>2, <4>3, <1>1, DisownedKeeps
      <4> QED BY <4>4, <1>2 DEF SameButLife
    <3>2. CASE ~owns
      <4>1. m = stored
        BY <3>2
      <4>2. t.properties = r.properties
        BY <4>1, <1>2 DEF SameButLife
      <4> HIDE DEF stored, m
      <4> QED BY <4>1, <4>2, <1>1, KeepsSelf
    <3> QED BY <3>1, <3>2
  <2>3. new => stored.charged < PropertyLimit /\ m.charged = stored.charged
    <3>1. stored.charged \in Int /\ PropertyLimit \in Int
      <4>1. game \in Games
        BY DEF HeapOK
      <4> HIDE DEF stored
      <4> QED BY <4>1, <1>1, <1>2, GameTypes, ChargeCovered DEF PropertyLimit
    <3>2. new => ~owns
      BY <1>3
    <3> QED BY <3>1, <3>2, <1>8
  <2> HIDE DEF m
  <2>4. HeapOK(m, game) /\ o.slot \in DOMAIN m.records /\ Shaped(m)
    BY <2>2 DEF Keeps, HeapOK, Live
  <2>5. RecordOK(t, m.next_identity, game)
    BY <2>4 DEF HeapOK
  <2>6. v \in Ref(m.next_identity)
    BY <2>2, <1>1
  <2>7. /\ RecordOK(q, m.next_identity, game) /\ Heir(t, q)
        /\ q.born = t.born /\ q.children = t.children /\ q.parent = t.parent
        /\ Charge(q) = Charge(t) + (IF p \in DOMAIN t.properties THEN 0 ELSE 1)
    <3> HIDE DEF t
    <3> QED BY <2>5, <2>6, PropertyWritten
  <2>8. Rewrites(m, k, o.slot, q) /\ k.charged = m.charged + (IF new THEN 1 ELSE 0) /\ k.status = m.status
    <3>0. m.status \in {"live", "terminal", "aborted"}
      BY <2>4 DEF HeapOK
    <3>1. k.records = [m.records EXCEPT ![o.slot] = q] /\ IsFun(k.records)
      <4> HIDE DEF r
      <4> QED BY <2>1, <2>4 DEF Shaped, IsFun
    <3>2. k \in [records : {k.records}, roots : {m.roots}, free : {m.free}, next_identity : {m.next_identity},
             charged : {m.charged + (IF new THEN 1 ELSE 0)}, status : {m.status}]
      BY <2>1, <2>4 DEF Shaped
    <3> HIDE DEF q
    <3> QED BY <3>0, <3>1, <3>2 DEF Rewrites, Shaped
  <2>9. k.charged = m.charged - Charge(t) + Charge(q) /\ k.charged <= game.properties
    <3>1. Charge(t) \in Nat /\ m.charged \in Nat /\ m.charged <= game.properties /\ game.properties \in Nat
      BY <2>4, ChargeCovered, GameTypes DEF HeapOK
    <3>2. Charge(q) = Charge(t) + (IF new THEN 1 ELSE 0)
      BY <2>7, <2>2
    <3>3. new => m.charged < game.properties
      BY <2>3 DEF PropertyLimit
    <3> HIDE DEF q, t, new
    <3> QED BY <3>1, <3>2, <3>3, <2>8
  <2>10. HeapOK(k, game)
    <3> HIDE DEF q
    <3> QED BY <2>4, <2>7, <2>8, <2>9, RewritesOK DEF Heir, Kin
  <2>11. Keeps(m, k)
    <3> HIDE DEF q
    <3>1. Kin(t, q)
      BY <2>7 DEF Heir
    <3> QED BY <3>1, <2>4, <2>7, <2>8, <2>10, RewritesKeeps
  <2>12. k.next_identity = m.next_identity
    BY <2>8 DEF Rewrites
  <2> QED
    <3> HIDE DEF stored
    <3> QED BY <2>2, <2>11, <2>12, <1>1, KeepsJoin
<1> QED BY <1>5, <1>6, <1>7, <1>8

(* clear_property. *)
LEMMA ClearedKeeps ==
  ASSUME NEW h, HeapOK(h, game), NEW o \in Old(h.next_identity), Live(h, o), NEW p,
         p \notin DOMAIN Of(h, o).owned, NEW k, k = Cleared(h, o, p)
  PROVE  Keeps(h, k) /\ k.next_identity = h.next_identity
<1> DEFINE r == h.records[o.slot]
           q == [r EXCEPT !.properties = Restrict(r.properties, (DOMAIN r.properties) \ {p})]
<1>1. o.slot \in DOMAIN h.records /\ Shaped(h) /\ RecordOK(r, h.next_identity, game) /\ r = Of(h, o)
  BY DEF HeapOK, Live, Of
<1>2. CASE p \notin DOMAIN r.properties
  BY <1>1, <1>2, KeepsSelf DEF Cleared
<1>3. CASE p \in DOMAIN r.properties
  <2>1. k = [h EXCEPT !.records[o.slot].properties = Restrict(@, DOMAIN @ \ {p}),
                      !.charged = IF @ = 0 THEN 0 ELSE @ - 1]
    BY <1>1, <1>3 DEF Cleared
  <2>2. /\ RecordOK(q, h.next_identity, game) /\ Heir(r, q)
        /\ q.born = r.born /\ q.children = r.children /\ q.parent = r.parent
        /\ Charge(q) = Charge(r) - 1 /\ Charge(r) >= 1
    <3>1. p \notin DOMAIN r.owned
      BY <1>1
    <3>2. RecordOK(r, h.next_identity, game)
      BY <1>1
    <3>3. q = [r EXCEPT !.properties = Restrict(r.properties, (DOMAIN r.properties) \ {p})]
      OBVIOUS
    <3> HIDE DEF r, q
    <3>4. WithoutField(r, q, h.next_identity, game)
      BY ONLY <1>3, <3>1, <3>2, <3>3, PropertyCleared
    <3> QED BY <3>4 DEF WithoutField
  <2>3. Charge(r) \in Nat /\ h.charged \in Nat /\ Charge(r) <= h.charged /\ h.charged <= game.properties
        /\ game.properties \in Nat
    BY <1>1, ChargeCovered, GameTypes DEF HeapOK
  <2>4. Rewrites(h, k, o.slot, q) /\ k.charged = h.charged - 1 /\ k.status = h.status
    <3>0. h.status \in {"live", "terminal", "aborted"}
      BY DEF HeapOK
    <3>1. k.records = [h.records EXCEPT ![o.slot] = q] /\ IsFun(k.records)
      BY <2>1, <1>1 DEF Shaped, IsFun
    <3>2. h.charged # 0
      <4> HIDE DEF r, q
      <4> QED BY <2>2, <2>3
    <3>3. k \in [records : {k.records}, roots : {h.roots}, free : {h.free}, next_identity : {h.next_identity},
             charged : {h.charged - 1}, status : {h.status}]
      BY <2>1, <1>1, <3>2 DEF Shaped
    <3> HIDE DEF q
    <3> QED BY <3>0, <3>1, <3>3 DEF Rewrites, Shaped
  <2> HIDE DEF q
  <2>5. k.charged = h.charged - Charge(r) + Charge(q) /\ k.charged <= game.properties
    <3> HIDE DEF r
    <3> QED BY <2>2, <2>3, <2>4
  <2>6. HeapOK(k, game)
    BY <1>1, <2>2, <2>4, <2>5, RewritesOK DEF Heir, Kin
  <2>7. Kin(r, q)
    BY <2>2 DEF Heir
  <2>8. Keeps(h, k)
    BY <1>1, <2>2, <2>4, <2>6, <2>7, RewritesKeeps
  <2> QED BY <2>8, <2>4 DEF Rewrites
<1> QED BY <1>2, <1>3

(***************************************************************************)
(* Folds                                                                   *)
(***************************************************************************)
(* The step of the three folds of the model. *)
Folds(kind, list, x, g) ==
  IF kind = "properties"
  THEN IF ~Live(g, list[x].object) THEN g
       ELSE IF list[x].previous = Absent THEN Cleared(g, list[x].object, list[x].property)
       ELSE Assigned(g, list[x].object, list[x].property, list[x].previous)
  ELSE IF kind = "containers"
  THEN IF ~Live(g, list[x].object) THEN g
       ELSE LET was == Of(g, list[x].object)
                now == [was EXCEPT !.elements = list[x].elements, !.capacity = list[x].capacity]
            IN  [g EXCEPT !.records[list[x].object.slot] = now,
                          !.charged = @ - Charge(was) + Charge(now)]
  ELSE Promoted(g, x)

(* Which member a fold takes, and what it makes of the rest. *)
Picked(kind, t) == IF kind = "promoted" THEN CHOOSE x \in t : TRUE ELSE Min(t)

FoldBody(kind, list, h, f, t) ==
  IF t = {} THEN h ELSE Folds(kind, list, Picked(kind, t), f[t \ {Picked(kind, t)}])

(* The function of subsets a fold is defined by. *)
Folding(kind, list, h, f, D) == f = [t \in SUBSET D |-> FoldBody(kind, list, h, f, t)]

(* A fold can choose. *)
Pickable(kind, D) == IsFiniteSet(D) /\ \A t \in SUBSET D : t # {} => Picked(kind, t) \in t

(* Min is the least member. *)
LEMMA LeastMember ==
  ASSUME NEW t \in SUBSET Nat, t # {}
  PROVE  Min(t) \in t /\ \A y \in t : Min(t) <= y
<1>1. IsWellFoundedOn(OpToRel(<, Nat), Nat)
  BY NatLessThanWellFounded
<1>2. PICK x \in t : \A y \in t : ~(<<y, x>> \in OpToRel(<, Nat))
  BY <1>1, WFMin
<1>3. \A y \in t : ~(y < x)
  BY <1>2 DEF OpToRel
<1>4. \A y \in t : x <= y
  BY <1>3
<1> QED BY <1>4 DEF Min

(* The folds of the model can choose. *)
LEMMA ListPickable ==
  ASSUME NEW kind, kind \in {"properties", "containers"}, NEW D \in SUBSET Nat, IsFiniteSet(D)
  PROVE  Pickable(kind, D)
<1>1. \A t \in SUBSET D : t # {} => Min(t) \in t
  BY LeastMember
<1> QED BY <1>1 DEF Pickable, Picked

LEMMA SetPickable ==
  ASSUME NEW D, IsFiniteSet(D) PROVE Pickable("promoted", D)
BY Chosen DEF Pickable, Picked

(* Induction over the subsets in the order of a fold. *)
LEMMA FoldSets ==
  ASSUME NEW kind, NEW D, Pickable(kind, D), NEW G, {} \in G,
         \A t \in SUBSET D : t # {} /\ t \ {Picked(kind, t)} \in G => t \in G
  PROVE  \A t \in SUBSET D : t \in G
<1> DEFINE A == {n \in Nat : \A t \in SUBSET D : Cardinality(t) = n => t \in G}
<1>0. \A t \in SUBSET D : IsFiniteSet(t) /\ Cardinality(t) \in Nat
  BY FS_Subset, FS_CardinalityType DEF Pickable
<1>1. 0 \in A
  BY <1>0, FS_EmptySet
<1>2. \A n \in A : n + 1 \in A
  <2>1. SUFFICES ASSUME NEW n \in A, NEW t \in SUBSET D, Cardinality(t) = n + 1 PROVE t \in G
    OBVIOUS
  <2>2. t # {}
    <3>1. Cardinality(t) # 0
      BY <2>1
    <3> QED BY <3>1, FS_EmptySet
  <2>3. Picked(kind, t) \in t
    BY <2>2 DEF Pickable
  <2>4. Cardinality(t \ {Picked(kind, t)}) = n
    <3>1. IsFiniteSet(t) /\ n \in Nat
      BY <1>0
    <3>2. Cardinality(t \ {Picked(kind, t)}) = Cardinality(t) - 1
      BY <2>3, <3>1, Smaller
    <3> QED BY <2>1, <3>1, <3>2
  <2>5. t \ {Picked(kind, t)} \in G
    BY <2>4
  <2> QED BY <2>2, <2>5
<1>3. A = Nat
  <2>1. A \in SUBSET Nat
    OBVIOUS
  <2> HIDE DEF A
  <2> QED BY <1>1, <1>2, <2>1, SetInduction
<1> QED BY <1>0, <1>3

(* The function exists. *)
LEMMA FoldExists ==
  ASSUME NEW kind, NEW list, NEW h, NEW D, Pickable(kind, D)
  PROVE  \E f : Folding(kind, list, h, f, D)
<1> DEFINE Upto(f, n) == f = [t \in SUBSET D |-> f[t]]
              /\ \A t \in SUBSET D : Cardinality(t) <= n => f[t] = FoldBody(kind, list, h, f, t)
           A == {n \in Nat : \E f : Upto(f, n)}
<1>0. \A t \in SUBSET D : IsFiniteSet(t) /\ Cardinality(t) \in Nat /\ Cardinality(t) <= Cardinality(D)
  BY FS_Subset, FS_CardinalityType DEF Pickable
<1>1. 0 \in A
  <2> DEFINE f == [t \in SUBSET D |-> h]
  <2>1. \A t \in SUBSET D : Cardinality(t) <= 0 => t = {}
    BY <1>0, FS_EmptySet
  <2>2. Upto(f, 0)
    BY <2>1 DEF FoldBody
  <2> QED BY <2>2
<1>2. \A n \in A : n + 1 \in A
  <2>1. SUFFICES ASSUME NEW n \in A PROVE \E g : Upto(g, n + 1)
    <3> HIDE DEF Upto
    <3> QED OBVIOUS
  <2>2. PICK f : Upto(f, n)
    BY <2>1
  <2> DEFINE g == [t \in SUBSET D |-> IF Cardinality(t) <= n THEN f[t] ELSE FoldBody(kind, list, h, f, t)]
  <2>3. ASSUME NEW t \in SUBSET D, Cardinality(t) <= n + 1
        PROVE  g[t] = FoldBody(kind, list, h, g, t)
    <3>0. g[t] = FoldBody(kind, list, h, f, t)
      BY <2>2
    <3>1. CASE t = {}
      BY <3>0, <3>1 DEF FoldBody
    <3>2. CASE t # {}
      <4> DEFINE x == Picked(kind, t)
      <4>1. x \in t
        BY <3>2 DEF Pickable
      <4>2. Cardinality(t \ {x}) = Cardinality(t) - 1 /\ Cardinality(t) \in Nat
        <5> HIDE DEF x
        <5> QED BY <4>1, <1>0, Smaller
      <4>3. t \ {x} \in SUBSET D /\ Cardinality(t \ {x}) <= n
        BY <4>2, <2>3
      <4>4. g[t \ {x}] = f[t \ {x}]
        BY <4>3
      <4>5. FoldBody(kind, list, h, g, t) = FoldBody(kind, list, h, f, t)
        BY <4>4 DEF FoldBody
      <4> QED BY <4>5, <3>0
    <3> QED BY <3>1, <3>2
  <2>4. Upto(g, n + 1)
    <3> HIDE DEF g
    <3>1. g = [t \in SUBSET D |-> g[t]]
      BY DEF g
    <3> QED BY <2>3, <3>1
  <2> QED BY <2>4
<1>3. A = Nat
  <2>1. A \in SUBSET Nat
    OBVIOUS
  <2> HIDE DEF A
  <2> QED BY <1>1, <1>2, <2>1, SetInduction
<1>4. Cardinality(D) \in A
  BY <1>3, <1>0
<1>5. PICK f : Upto(f, Cardinality(D))
  BY <1>4
<1>6. Folding(kind, list, h, f, D)
  <2>1. \A t \in SUBSET D : f[t] = FoldBody(kind, list, h, f, t)
    BY <1>5, <1>0
  <2>2. f = [t \in SUBSET D |-> f[t]]
    BY <1>5
  <2> QED BY <2>1, <2>2 DEF Folding
<1> QED BY <1>6

(* And is a step from a smaller set to a larger one. *)
LEMMA FoldStep ==
  ASSUME NEW kind, NEW list, NEW h, NEW D, NEW f, Folding(kind, list, h, f, D), Pickable(kind, D)
  PROVE  /\ f[{}] = h
         /\ \A t \in SUBSET D : t # {} =>
              Picked(kind, t) \in t /\ f[t] = Folds(kind, list, Picked(kind, t), f[t \ {Picked(kind, t)}])
BY DEF Folding, FoldBody, Pickable

(* The three folds of the model are such functions. *)
LEMMA PropertiesFold ==
  ASSUME NEW h, NEW list, IsFiniteSet(DOMAIN list), DOMAIN list \in SUBSET Nat
  PROVE  \E f : Folding("properties", list, h, f, DOMAIN list) /\ PropertiesReverted(h, list) = f[DOMAIN list]
<1> DEFINE f == CHOOSE f : Folding("properties", list, h, f, DOMAIN list)
<1>1. Folding("properties", list, h, f, DOMAIN list)
  <2>1. Pickable("properties", DOMAIN list)
    BY ListPickable
  <2> HIDE DEF Folding
  <2> QED BY <2>1, FoldExists
<1>2. PropertiesReverted(h, list) = f[DOMAIN list]
  BY DEF PropertiesReverted, FoldRight, MapThenFoldSet, Folding, FoldBody, Folds, Picked
<1> QED BY <1>1, <1>2

LEMMA ContainersFold ==
  ASSUME NEW h, NEW list, IsFiniteSet(DOMAIN list), DOMAIN list \in SUBSET Nat
  PROVE  \E f : Folding("containers", list, h, f, DOMAIN list) /\ ContainersReverted(h, list) = f[DOMAIN list]
<1> DEFINE f == CHOOSE f : Folding("containers", list, h, f, DOMAIN list)
<1>1. Folding("containers", list, h, f, DOMAIN list)
  <2>1. Pickable("containers", DOMAIN list)
    BY ListPickable
  <2> HIDE DEF Folding
  <2> QED BY <2>1, FoldExists
<1>2. ContainersReverted(h, list) = f[DOMAIN list]
  BY DEF ContainersReverted, FoldRight, MapThenFoldSet, Folding, FoldBody, Folds, Picked
<1> QED BY <1>1, <1>2

LEMMA PromotedFold ==
  ASSUME NEW h, NEW S, IsFiniteSet(S)
  PROVE  \E list, f : Folding("promoted", list, h, f, S)
                      /\ PromotedAll(h, S) = f[S]
<1> DEFINE f == CHOOSE f : Folding("promoted", <<>>, h, f, S)
<1>1. Folding("promoted", <<>>, h, f, S)
  <2>1. Pickable("promoted", S)
    BY SetPickable
  <2> HIDE DEF Folding
  <2> QED BY <2>1, FoldExists
<1>2. PromotedAll(h, S) = f[S]
  BY DEF PromotedAll, FoldSet, MapThenFoldSet, Folding, FoldBody, Folds, Picked
<1> QED BY <1>1, <1>2

(***************************************************************************)
(* Journals                                                                *)
(***************************************************************************)
(* An old handle that is live was live before. *)
LEMMA LiveBefore ==
  ASSUME NEW h, NEW k, HeapOK(h, game), Descends(h, k), NEW o \in Old(h.next_identity), Live(k, o)
  PROVE  /\ Live(h, o) /\ o.slot \in DOMAIN k.records /\ o.slot \in DOMAIN h.records
         /\ Kin(h.records[o.slot], k.records[o.slot])
<1>1. o.slot \in DOMAIN k.records /\ k.records[o.slot].born = o.born /\ o # Nil
  BY DEF Live
<1>2. o.born \in Int /\ h.next_identity \in Int /\ o.born < h.next_identity
  BY DEF Old, HeapOK
<1>3. o.slot \in DOMAIN h.records /\ Kin(h.records[o.slot], k.records[o.slot])
  BY <1>1, <1>2 DEF Descends
<1> QED BY <1>1, <1>3 DEF Kin, Live

(* A journalled write stays good. *)
LEMMA PropertyLater ==
  ASSUME NEW h, NEW k, HeapOK(h, game), HeapOK(k, game), Descends(h, k), NEW d, PropertyOK(d, h, game)
  PROVE  PropertyOK(d, k, game)
<1>1. Old(h.next_identity) \subseteq Old(k.next_identity) /\ Ref(h.next_identity) \subseteq Ref(k.next_identity)
  <2>1. h.next_identity \in Int /\ k.next_identity \in Int /\ h.next_identity <= k.next_identity
    BY DEF HeapOK, Descends
  <2> QED BY <2>1, OldGrows
<1>2. d.object \in Old(h.next_identity)
  BY DEF PropertyOK
<1>3. Live(k, d.object) => Live(h, d.object) /\ DOMAIN Of(k, d.object).owned \subseteq DOMAIN Of(h, d.object).owned
  BY <1>2, LiveBefore DEF Kin, Of
<1> QED BY <1>1, <1>3 DEF PropertyOK

(* revert_properties keeps a heap. *)
LEMMA PropertiesKeep ==
  ASSUME NEW h, HeapOK(h, game), NEW list, IsFiniteSet(DOMAIN list), DOMAIN list \in SUBSET Nat,
         \A i \in DOMAIN list : PropertyOK(list[i], h, game),
         NEW k, k = PropertiesReverted(h, list)
  PROVE  Keeps(h, k) /\ k.next_identity = h.next_identity
<1> DEFINE D == DOMAIN list
           P(g) == Keeps(h, g) /\ g.next_identity = h.next_identity
<1>1. PICK f : Folding("properties", list, h, f, D) /\ PropertiesReverted(h, list) = f[D]
  BY PropertiesFold
<1>2. Pickable("properties", D)
  BY ListPickable
<1> DEFINE G == {t \in SUBSET D : P(f[t])}
<1>3. {} \in G
  BY <1>1, <1>2, FoldStep, KeepsSelf
<1>4. ASSUME NEW t \in SUBSET D, t # {}, t \ {Picked("properties", t)} \in G PROVE t \in G
  <2> DEFINE x == Picked("properties", t)
             g == f[t \ {x}]
             d == list[x]
             m == f[t]
  <2>1. x \in D /\ m = Folds("properties", list, x, g)
    BY <1>1, <1>2, <1>4, FoldStep
  <2>2. P(g)
    BY <1>4
  <2>3. HeapOK(g, game) /\ Descends(h, g)
    BY <2>2, FollowsDescends DEF Keeps
  <2>4. PropertyOK(d, g, game)
    <3> HIDE DEF g
    <3>1. PropertyOK(d, h, game)
      BY <2>1
    <3> HIDE DEF d
    <3> QED BY <3>1, <2>3, PropertyLater
  <2> HIDE DEF g, m, x
  <2>5. Keeps(g, m) /\ m.next_identity = g.next_identity
    <3>1. CASE ~Live(g, d.object)
      <4>1. m = g
        BY <3>1, <2>1 DEF Folds
      <4> QED BY <4>1, <2>3, KeepsSelf
    <3>2. CASE Live(g, d.object) /\ d.previous = Absent
      <4>1. m = Cleared(g, d.object, d.property)
        BY <3>2, <2>1 DEF Folds
      <4>2. d.object \in Old(g.next_identity) /\ d.property \notin DOMAIN Of(g, d.object).owned
        BY <3>2, <2>4 DEF PropertyOK
      <4> HIDE DEF d
      <4> QED BY <4>1, <4>2, <3>2, <2>3, ClearedKeeps
    <3>3. CASE Live(g, d.object) /\ d.previous # Absent
      <4>1. m = Assigned(g, d.object, d.property, d.previous)
        BY <3>3, <2>1 DEF Folds
      <4>2. d.object \in Old(g.next_identity) /\ d.property \in game.props \cup {Field}
            /\ d.previous \in Ref(g.next_identity)
        BY <3>3, <2>4 DEF PropertyOK
      <4> HIDE DEF d
      <4> QED BY <4>1, <4>2, <3>3, <2>3, AssignedKeeps
    <3> QED BY <3>1, <3>2, <3>3
  <2>6. P(m)
    BY <2>2, <2>5, KeepsJoin
  <2> QED BY <2>6 DEF m
<1>5. D \in G
  <2>1. \A t \in SUBSET D : t # {} /\ t \ {Picked("properties", t)} \in G => t \in G
    BY <1>4
  <2> HIDE DEF G, D
  <2>2. \A t \in SUBSET D : t \in G
    BY <1>2, <1>3, <2>1, FoldSets
  <2> QED BY <2>2
<1> QED BY <1>1, <1>5

(***************************************************************************)
(* Snapshots                                                               *)
(***************************************************************************)
(* The records stay, with less in them. *)
Steady(h, k) ==
  /\ HeapOK(k, game) /\ Descends(h, k) /\ Bears(h, k) /\ k.next_identity = h.next_identity
  /\ DOMAIN k.records = DOMAIN h.records
  /\ \A s \in DOMAIN h.records :
       k.records[s].born = h.records[s].born /\ k.records[s].kind = h.records[s].kind

(* This holds across several operations. *)
LEMMA SteadyJoin ==
  ASSUME NEW h, NEW k, NEW m, HeapOK(h, game), Steady(h, k), Steady(k, m) PROVE Steady(h, m)
<1>1. HeapOK(k, game) /\ HeapOK(m, game) /\ Descends(h, k) /\ Descends(k, m) /\ Bears(h, k) /\ Bears(k, m)
  BY DEF Steady
<1>2. Descends(h, m)
  BY <1>1, DescendsJoin
<1>3. Bears(h, m)
  BY <1>1, BearsJoin
<1> QED BY <1>1, <1>2, <1>3 DEF Steady

LEMMA SteadySelf == ASSUME NEW h, HeapOK(h, game) PROVE Steady(h, h)
<1>1. Keeps(h, h)
  BY KeepsSelf
<1>2. Descends(h, h)
  BY <1>1, FollowsDescends DEF Keeps
<1> QED BY <1>1, <1>2 DEF Steady, Keeps

(* A record with the snapshot put back. *)
SnapshotRecord(r, q, d, n, g) ==
  /\ RecordOK(q, n, g) /\ Kin(r, q) /\ q.parent = r.parent /\ q.children = r.children
  /\ q.elements = d.elements /\ q.capacity = d.capacity
  /\ Charge(q) <= Charge(r) /\ Charge(q) \in Nat /\ Charge(r) \in Nat

(* It charges no more. *)
LEMMA SnapshotWritten ==
  ASSUME NEW r, NEW n, NEW g, RecordOK(r, n, g), NEW d, ElementsOK(d.elements, r.kind, n, g), d.capacity \in Nat,
         d.capacity <= r.capacity,
         r.kind = "table" => Cardinality(DOMAIN d.elements) <= Cardinality(DOMAIN r.elements),
         r.kind = "vector" => Cardinality(DOMAIN d.elements) <= d.capacity,
         NEW q, q = [r EXCEPT !.elements = d.elements, !.capacity = d.capacity]
  PROVE  SnapshotRecord(r, q, d, n, g)
<1>1. r \in RecordSet(r, n)
  BY DEF RecordOK, RecordSet
<1>2. /\ q.born = r.born /\ q.parent = r.parent /\ q.kind = r.kind /\ q.lifetime = r.lifetime
      /\ q.prototypes = r.prototypes /\ q.elements = d.elements /\ q.properties = r.properties
      /\ q.capacity = d.capacity /\ q.children = r.children /\ q.owned = r.owned
  BY <1>1 DEF RecordSet
<1>3. q \in RecordSet(q, n)
  <2>1. q \in [born : {q.born}, lifetime : {q.lifetime}, kind : {q.kind}, parent : {q.parent}, children : {q.children},
               properties : {q.properties}, owned : {q.owned}, elements : {q.elements},
               capacity : {q.capacity}, prototypes : {q.prototypes}]
    BY <1>1 DEF RecordSet
  <2> QED BY <1>1, <1>2, <2>1 DEF RecordSet
<1>4. RecordOK(q, n, g)
  BY <1>2, <1>3 DEF RecordOK, RecordSet
<1>5. Kin(r, q)
  BY <1>2 DEF Kin
<1>6. Charge(q) \in Nat /\ Charge(r) \in Nat
  BY <1>4, ChargeType
<1>7. Charge(q) <= Charge(r)
  <2>1. r.prototypes \in Nat /\ r.capacity \in Nat /\ Cardinality(DOMAIN r.properties) \in Nat
        /\ Cardinality(DOMAIN r.elements) \in Nat /\ Cardinality(DOMAIN d.elements) \in Nat
    BY <1>1, FS_CardinalityType DEF RecordSet, RecordOK, ElementsOK
  <2>2. Charge(q) = Cardinality(DOMAIN r.properties) + r.prototypes + d.capacity
                    + (IF r.kind = "table" THEN 1 + 2 * Cardinality(DOMAIN d.elements) ELSE 0)
    BY <1>2 DEF Charge
  <2>3. Charge(r) = Cardinality(DOMAIN r.properties) + r.prototypes + r.capacity
                    + (IF r.kind = "table" THEN 1 + 2 * Cardinality(DOMAIN r.elements) ELSE 0)
    BY DEF Charge
  <2> QED BY <2>1, <2>2, <2>3
<1> QED BY <1>2, <1>4, <1>5, <1>6, <1>7 DEF SnapshotRecord

(* Putting a snapshot back leaves the others good, unless they are         *)
(* heavier.                                                                *)
LEMMA SnapshotPut ==
  ASSUME NEW h, HeapOK(h, game), NEW d, SnapOK(d, h, game), Live(h, d.object), NEW now,
         now = [Of(h, d.object) EXCEPT !.elements = d.elements, !.capacity = d.capacity],
         NEW k, k = [h EXCEPT !.records[d.object.slot] = now,
                              !.charged = @ - Charge(Of(h, d.object)) + Charge(now)]
  PROVE  Steady(h, k) /\ \A q : SnapOK(q, h, game) /\ Lighter(q, d, h) => SnapOK(q, k, game)
<1> DEFINE s == d.object.slot
           r == h.records[s]
<1>1. Shaped(h) /\ s \in DOMAIN h.records /\ RecordOK(r, h.next_identity, game) /\ r = Of(h, d.object)
  BY DEF HeapOK, Live, Of
<1>2. SnapshotRecord(r, now, d, h.next_identity, game)
  <2>1. /\ ElementsOK(d.elements, r.kind, h.next_identity, game) /\ d.capacity \in Nat /\ d.capacity <= r.capacity
        /\ r.kind = "table" => Cardinality(DOMAIN d.elements) <= Cardinality(DOMAIN r.elements)
        /\ r.kind = "vector" => Cardinality(DOMAIN d.elements) <= d.capacity
    BY <1>1 DEF SnapOK
  <2>2. now = [r EXCEPT !.elements = d.elements, !.capacity = d.capacity]
    BY <1>1
  <2> HIDE DEF r
  <2> QED BY <1>1, <2>1, <2>2, SnapshotWritten
<1>3. Rewrites(h, k, s, now) /\ k.charged = h.charged - Charge(r) + Charge(now) /\ k.status = h.status
  <2>0. h.status \in {"live", "terminal", "aborted"}
    BY DEF HeapOK
  <2>1. k.records = [h.records EXCEPT ![s] = now] /\ IsFun(k.records)
    BY <1>1 DEF Shaped, IsFun
  <2>2. k \in [records : {k.records}, roots : {h.roots}, free : {h.free}, next_identity : {h.next_identity},
             charged : {h.charged - Charge(r) + Charge(now)}, status : {h.status}]
    <3> HIDE DEF s, r
    <3> QED BY <1>1 DEF Shaped, s
  <2> HIDE DEF r, s
  <2> QED BY <2>0, <2>1, <2>2 DEF Rewrites, Shaped
<1>4. HeapOK(k, game)
  <2>1. h.charged \in Nat /\ h.charged <= game.properties /\ game.properties \in Nat
    BY <1>1, ChargeCovered, GameTypes DEF HeapOK
  <2>2. k.charged <= game.properties
    <3> HIDE DEF r
    <3> QED BY <2>1, <1>2, <1>3 DEF SnapshotRecord
  <2>3. /\ RecordOK(now, h.next_identity, game) /\ now.born = r.born /\ now.parent = r.parent
        /\ now.children = r.children /\ DOMAIN now.owned \subseteq DOMAIN r.owned
        /\ \A p \in DOMAIN now.owned : now.owned[p] = r.owned[p]
    <3> HIDE DEF r
    <3> QED BY <1>2 DEF SnapshotRecord, Kin
  <2>4. s \in DOMAIN h.records /\ r = h.records[s]
    BY <1>1
  <2> HIDE DEF s, r
  <2>5. /\ now.born = h.records[s].born /\ now.parent = h.records[s].parent
        /\ now.children = h.records[s].children /\ DOMAIN now.owned \subseteq DOMAIN h.records[s].owned
        /\ \A p \in DOMAIN now.owned : now.owned[p] = h.records[s].owned[p]
        /\ k.charged = h.charged - Charge(h.records[s]) + Charge(now)
    BY <2>3, <2>4, <1>3
  <2>6. HeapOK(h, game) /\ Rewrites(h, k, s, now) /\ RecordOK(now, h.next_identity, game)
    BY <2>3, <1>3
  <2> QED BY ONLY <2>2, <2>4, <2>5, <2>6, RewritesOK
<1>5. Descends(h, k) /\ Bears(h, k) /\ \A o : Live(k, o) <=> Live(h, o)
  <2>1. /\ now.born = r.born /\ now.parent = r.parent /\ Kin(r, now)
        /\ k.status = "live" => h.status = "live"
    BY <1>2, <1>3 DEF SnapshotRecord, Kin
  <2>2. s \in DOMAIN h.records /\ r = h.records[s]
    BY <1>1
  <2> HIDE DEF s, r
  <2>3. Descends(h, k) /\ Bears(h, k)
    BY <2>1, <2>2, <1>3, <1>4, RewritesKeeps
  <2>4. \A o : Live(k, o) <=> Live(h, o)
    BY <2>1, <2>2, <1>3 DEF Live, Rewrites
  <2> QED BY <2>3, <2>4
<1>6. /\ DOMAIN k.records = DOMAIN h.records /\ k.next_identity = h.next_identity
      /\ \A t \in DOMAIN h.records : k.records[t] = IF t = s THEN now ELSE h.records[t]
  BY <1>3 DEF Rewrites
<1>7. now.born = r.born /\ now.kind = r.kind /\ now.elements = d.elements /\ now.capacity = d.capacity
  BY <1>2 DEF SnapshotRecord, Kin
<1>8. Steady(h, k)
  BY <1>4, <1>5, <1>6, <1>7 DEF Steady
<1>9. ASSUME NEW q, SnapOK(q, h, game), Lighter(q, d, h) PROVE SnapOK(q, k, game)
  <2>1. CASE ~Live(k, q.object)
    BY <2>1, <1>6, <1>9 DEF SnapOK
  <2>2. CASE Live(h, q.object) /\ q.object.slot # s
    <3>1. Of(k, q.object) = Of(h, q.object)
      BY <2>2, <1>6 DEF Of, Live
    <3> QED BY <3>1, <2>2, <1>6, <1>9 DEF SnapOK
  <2>3. CASE Live(h, q.object) /\ q.object.slot = s
    <3>1. q.object = d.object
      <4>1. q.object \in Old(h.next_identity) /\ d.object \in Old(h.next_identity)
        BY <1>9 DEF SnapOK
      <4> QED BY <4>1, <2>3, HandleFacts
    <3>2. q.capacity <= d.capacity
          /\ (r.kind = "table" => Cardinality(DOMAIN q.elements) <= Cardinality(DOMAIN d.elements))
      BY <3>1, <1>1, <1>9 DEF Lighter
    <3>3. Of(k, q.object) = now /\ Of(h, q.object) = r
      BY <2>3, <1>1, <1>6 DEF Of
    <3> HIDE DEF r, s
    <3> QED BY <3>2, <3>3, <2>3, <1>6, <1>7, <1>9 DEF SnapOK
  <2> QED BY <2>1, <2>2, <2>3, <1>5
<1> QED BY <1>8, <1>9

(* The order of snapshots stays. *)
LEMMA LighterLater ==
  ASSUME NEW h, NEW k, HeapOK(h, game), Descends(h, k), NEW q, NEW d, Lighter(q, d, h), q.object \in Old(h.next_identity)
  PROVE  Lighter(q, d, k)
<1>1. SUFFICES ASSUME q.object = d.object, Live(k, d.object)
      PROVE  /\ q.capacity <= d.capacity
             /\ Of(k, q.object).kind = "table" => Cardinality(DOMAIN q.elements) <= Cardinality(DOMAIN d.elements)
  BY DEF Lighter
<1>2. Live(h, q.object) /\ Of(k, q.object).kind = Of(h, q.object).kind
  BY <1>1, LiveBefore DEF Kin, Of
<1> QED BY <1>1, <1>2 DEF Lighter

(* A snapshot stays good while containers lose no room. *)
LEMMA SnapLater ==
  ASSUME NEW h, NEW k, HeapOK(h, game), HeapOK(k, game), Follows(h, k), NEW d, SnapOK(d, h, game)
  PROVE  SnapOK(d, k, game)
<1>1. h.next_identity \in Int /\ k.next_identity \in Int /\ h.next_identity <= k.next_identity
  BY DEF HeapOK, Follows
<1>2. Old(h.next_identity) \subseteq Old(k.next_identity) /\ Ref(h.next_identity) \subseteq Ref(k.next_identity)
  BY <1>1, OldGrows
<1>3. d.object \in Old(h.next_identity) /\ d.capacity \in Nat /\ IsFun(d.elements) /\ IsFiniteSet(DOMAIN d.elements)
      /\ \A x \in DOMAIN d.elements : d.elements[x] \in Ref(h.next_identity)
  BY DEF SnapOK
<1>4. ASSUME Live(k, d.object)
      PROVE  LET r == Of(k, d.object)
             IN  /\ ElementsOK(d.elements, r.kind, k.next_identity, game)
                 /\ d.capacity <= r.capacity
                 /\ r.kind = "table" => Cardinality(DOMAIN d.elements) <= Cardinality(DOMAIN r.elements)
                 /\ r.kind = "vector" => Cardinality(DOMAIN d.elements) <= d.capacity
  <2> DEFINE s == d.object.slot
             r == h.records[s]
             q == k.records[s]
  <2>1. Live(h, d.object) /\ s \in DOMAIN h.records /\ s \in DOMAIN k.records
    BY <1>3, <1>4, LiveBefore, FollowsDescends
  <2>2. q.born = d.object.born /\ d.object.born < h.next_identity /\ d.object.born \in Int
    BY <1>3, <1>4 DEF Live, Old, HeapOK
  <2>3. Heir(r, q)
    BY <1>1, <2>1, <2>2 DEF Follows
  <2>4. /\ ElementsOK(d.elements, r.kind, h.next_identity, game) /\ d.capacity <= r.capacity
        /\ r.kind = "table" => Cardinality(DOMAIN d.elements) <= Cardinality(DOMAIN r.elements)
        /\ r.kind = "vector" => Cardinality(DOMAIN d.elements) <= d.capacity
    BY <2>1 DEF SnapOK, Of
  <2>5. r.capacity \in Int /\ q.capacity \in Int /\ Cardinality(DOMAIN r.elements) \in Int
        /\ Cardinality(DOMAIN q.elements) \in Int
    <3>1. RecordOK(r, h.next_identity, game) /\ RecordOK(q, k.next_identity, game)
      BY <2>1 DEF HeapOK
    <3> QED BY <3>1, RecordSizes
  <2>6. Cardinality(DOMAIN d.elements) \in Int
    BY <1>3, FS_CardinalityType
  <2>7. ElementsOK(d.elements, q.kind, k.next_identity, game)
    <3>1. q.kind = r.kind
      BY <2>3 DEF Heir, Kin
    <3> HIDE DEF q, r
    <3> QED BY <3>1, <2>4, <1>1, ElementsLater
  <2>8. /\ d.capacity <= q.capacity
        /\ q.kind = "table" => Cardinality(DOMAIN d.elements) <= Cardinality(DOMAIN q.elements)
        /\ q.kind = "vector" => Cardinality(DOMAIN d.elements) <= d.capacity
    <3> HIDE DEF q, r
    <3> QED BY <1>3, <2>3, <2>4, <2>5, <2>6 DEF Heir, Kin
  <2> QED BY <2>7, <2>8 DEF Of
<1> QED BY <1>2, <1>3, <1>4 DEF SnapOK

(* revert_containers, newest first, keeps a heap and the older snapshots. *)
LEMMA ContainersKeep ==
  ASSUME NEW h, HeapOK(h, game), NEW list, IsFiniteSet(DOMAIN list), DOMAIN list \in SUBSET Nat,
         ContainersOK(list, h, game), NEW k, k = ContainersReverted(h, list)
  PROVE  /\ Steady(h, k)
         /\ \A q : SnapOK(q, h, game) /\ (\A i \in DOMAIN list : Lighter(q, list[i], h)) => SnapOK(q, k, game)
<1> DEFINE D == DOMAIN list
           P(g, t) == /\ Steady(h, g)
                      /\ \A q : SnapOK(q, h, game) /\ (\A i \in t : Lighter(q, list[i], h)) => SnapOK(q, g, game)
<1>1. PICK f : Folding("containers", list, h, f, D) /\ ContainersReverted(h, list) = f[D]
  BY ContainersFold
<1>2. Pickable("containers", D)
  BY ListPickable
<1>f. /\ f[{}] = h
      /\ \A t \in SUBSET D : t # {} =>
           Picked("containers", t) \in t
           /\ f[t] = Folds("containers", list, Picked("containers", t), f[t \ {Picked("containers", t)}])
  <2> HIDE DEF P, D
  <2> QED BY <1>1, <1>2, FoldStep
<1> DEFINE G == {t \in SUBSET D : P(f[t], t)}
<1>3. {} \in G
  BY <1>f, SteadySelf
<1>4. ASSUME NEW t \in SUBSET D, t # {}, t \ {Picked("containers", t)} \in G PROVE t \in G
  <2> DEFINE x == Picked("containers", t)
             g == f[t \ {x}]
             d == list[x]
             m == f[t]
  <2>1. x \in t /\ m = Folds("containers", list, x, g)
    BY <1>4, <1>f
  <2>2. P(g, t \ {x})
    BY <1>4
  <2>3. HeapOK(g, game) /\ Descends(h, g) /\ Steady(h, g)
    BY <2>2 DEF Steady
  <2>4. \A i \in t \ {x} : x < i
    <3>1. x = Min(t)
      BY DEF Picked
    <3>2. \A i \in t : x <= i
      BY <3>1, <1>4, LeastMember
    <3> QED BY <3>2, <2>1
  <2>5. SnapOK(d, g, game)
    <3>1. SnapOK(d, h, game)
      BY <2>1 DEF ContainersOK
    <3>2. \A i \in t \ {x} : Lighter(d, list[i], h)
      BY <2>1, <2>4 DEF ContainersOK
    <3> QED BY <2>2, <3>1, <3>2
  <2> HIDE DEF g, m, x
  <2>6. Steady(g, m) /\ \A q : SnapOK(q, g, game) /\ Lighter(q, d, g) => SnapOK(q, m, game)
    <3>1. CASE ~Live(g, d.object)
      <4>1. m = g
        BY <3>1, <2>1 DEF Folds
      <4> QED BY <4>1, <2>3, SteadySelf
    <3>2. CASE Live(g, d.object)
      <4> DEFINE now == [Of(g, d.object) EXCEPT !.elements = d.elements, !.capacity = d.capacity]
      <4>1. m = [g EXCEPT !.records[d.object.slot] = now,
                          !.charged = @ - Charge(Of(g, d.object)) + Charge(now)]
        BY <3>2, <2>1 DEF Folds
      <4> HIDE DEF d
      <4>2. now = [Of(g, d.object) EXCEPT !.elements = d.elements, !.capacity = d.capacity]
        OBVIOUS
      <4> HIDE DEF now
      <4> QED BY <4>1, <4>2, <3>2, <2>3, <2>5, SnapshotPut
    <3> QED BY <3>1, <3>2
  <2>7. Steady(h, m)
    BY <2>3, <2>6, SteadyJoin
  <2>8. ASSUME NEW q, SnapOK(q, h, game), \A i \in t : Lighter(q, list[i], h) PROVE SnapOK(q, m, game)
    <3>1. SnapOK(q, g, game)
      BY <2>2, <2>8
    <3>2. Lighter(q, d, g)
      <4>1. Lighter(q, d, h) /\ q.object \in Old(h.next_identity)
        BY <2>1, <2>8 DEF SnapOK
      <4> HIDE DEF d
      <4> QED BY <4>1, <2>3, LighterLater
    <3> QED BY <3>1, <3>2, <2>6
  <2> QED BY <2>7, <2>8 DEF m
<1>5. D \in G
  <2>1. \A t \in SUBSET D : t # {} /\ t \ {Picked("containers", t)} \in G => t \in G
    BY <1>4
  <2> HIDE DEF G, D
  <2>2. \A t \in SUBSET D : t \in G
    BY <1>2, <1>3, <2>1, FoldSets
  <2> QED BY <2>2
<1> QED BY <1>1, <1>5

(* What release_turn_records promotes. *)
LEMMA PromotedAllAlike ==
  ASSUME NEW h, HeapOK(h, game), NEW S, IsFiniteSet(S)
  PROVE  Alike(h, PromotedAll(h, S))
<1>1. PICK list, f : Folding("promoted", list, h, f, S) /\ PromotedAll(h, S) = f[S]
  BY PromotedFold
<1>2. Pickable("promoted", S)
  BY SetPickable
<1>f. /\ f[{}] = h
      /\ \A t \in SUBSET S : t # {} =>
           Picked("promoted", t) \in t
           /\ f[t] = Folds("promoted", list, Picked("promoted", t), f[t \ {Picked("promoted", t)}])
  BY <1>1, <1>2, FoldStep
<1> DEFINE G == {t \in SUBSET S : Alike(h, f[t])}
<1>3. {} \in G
  BY <1>f, AlikeSelf
<1>4. ASSUME NEW t \in SUBSET S, t # {}, t \ {Picked("promoted", t)} \in G PROVE t \in G
  <2> DEFINE x == Picked("promoted", t)
             g == f[t \ {x}]
             m == f[t]
  <2>1. m = Folds("promoted", list, x, g)
    BY <1>4, <1>f
  <2>2. m = InWorld(g, Reached(g, x, {"vector"}))
    BY <2>1 DEF Folds, Promoted
  <2>3. Alike(h, g)
    BY <1>4
  <2> HIDE DEF g, m, x
  <2>4. Alike(g, m)
    BY <2>2, <2>3, InWorldAlike DEF Alike
  <2>5. Alike(h, m)
    BY <2>3, <2>4, AlikeJoin
  <2> QED BY <2>5 DEF m
<1>5. S \in G
  <2>1. \A t \in SUBSET S : t # {} /\ t \ {Picked("promoted", t)} \in G => t \in G
    BY <1>4
  <2> HIDE DEF G
  <2>2. \A t \in SUBSET S : t \in G
    BY <1>2, <1>3, <2>1, FoldSets
  <2> QED BY <2>2
<1> QED BY <1>1, <1>5

(***************************************************************************)
(* Lists                                                                   *)
(***************************************************************************)
(* What a list is. *)
LEMMA ListFacts ==
  ASSUME NEW s, Listed(s)
  PROVE  /\ Len(s) \in Nat /\ DOMAIN s = 1..Len(s) /\ IsFiniteSet(DOMAIN s) /\ DOMAIN s \in SUBSET Nat
         /\ s # <<>> <=> Len(s) >= 1
<1> DEFINE R == {s[i] : i \in DOMAIN s}
<1>1. s \in Seq(R)
  BY DEF Listed
<1>2. Len(s) \in Nat /\ DOMAIN s = 1..Len(s) /\ (s # <<>> <=> Len(s) >= 1)
  <2> HIDE DEF R
  <2> QED BY <1>1
<1>3. IsFiniteSet(1..Len(s))
  BY <1>2, FS_Interval
<1> QED BY <1>2, <1>3

(* A list with one more value. *)
Appended(s, x, t) ==
  /\ Listed(t) /\ Len(t) = Len(s) + 1 /\ DOMAIN t = 1..(Len(s) + 1)
  /\ \A i \in DOMAIN s : i \in DOMAIN t /\ t[i] = s[i]
  /\ t[Len(s) + 1] = x
  /\ \A i \in DOMAIN t : i \in DOMAIN s \/ i = Len(s) + 1

(* Append. *)
LEMMA ListAppend ==
  ASSUME NEW s, Listed(s), NEW x, NEW t, t = Append(s, x)
  PROVE  Appended(s, x, t)
<1> DEFINE R == {s[i] : i \in DOMAIN s}
           Q == {t[i] : i \in DOMAIN t}
<1>1. s \in Seq(R) /\ Len(s) \in Nat /\ DOMAIN s = 1..Len(s)
  BY ListFacts DEF Listed
<1>2. t \in Seq(R \cup {x})
  <2> HIDE DEF R
  <2>1. s \in Seq(R \cup {x}) /\ x \in R \cup {x}
    BY <1>1
  <2> QED BY <2>1
<1>3. /\ Len(t) = Len(s) + 1 /\ DOMAIN t = 1..(Len(s) + 1)
      /\ \A i \in 1..Len(s) : t[i] = s[i]
      /\ t[Len(s) + 1] = x
  <2> HIDE DEF R
  <2> QED BY <1>1
<1>4. \A i \in 1..Len(t) : t[i] \in Q
  BY <1>1, <1>3
<1>5. t \in Seq(Q)
  <2> HIDE DEF Q, R
  <2> QED BY <1>2, <1>3, <1>4
<1>6. \A i \in DOMAIN t : i \in DOMAIN s \/ i = Len(s) + 1
  BY <1>1, <1>3
<1>7. Listed(t)
  BY <1>5 DEF Listed
<1> QED BY <1>1, <1>3, <1>6, <1>7 DEF Appended

(* A list with one value less at an end. *)
Shortened(s, t, by) ==
  /\ Listed(t) /\ Len(t) = Len(s) - 1 /\ DOMAIN t = 1..(Len(s) - 1)
  /\ \A i \in DOMAIN t : i + by \in DOMAIN s /\ t[i] = s[i + by]

(* Front and Tail. *)
LEMMA ListFront ==
  ASSUME NEW s, Listed(s), s # <<>>, NEW t, t = Front(s)
  PROVE  Shortened(s, t, 0) /\ Len(s) \in DOMAIN s /\ Last(s) = s[Len(s)]
<1> DEFINE R == {s[i] : i \in DOMAIN s}
           Q == {t[i] : i \in DOMAIN t}
<1>1. s \in Seq(R) /\ Len(s) \in Nat /\ DOMAIN s = 1..Len(s) /\ Len(s) >= 1
  BY ListFacts DEF Listed
<1>2. /\ t \in Seq(R) /\ Len(t) = Len(s) - 1 /\ DOMAIN t = 1..(Len(s) - 1)
      /\ \A i \in 1..(Len(s) - 1) : t[i] = s[i]
  <2> HIDE DEF R
  <2>1. t = SubSeq(s, 1, Len(s) - 1)
    BY DEF Front
  <2> QED BY <1>1, <2>1
<1>3. \A i \in 1..Len(t) : t[i] \in Q
  BY <1>1, <1>2
<1>4. t \in Seq(Q)
  <2> HIDE DEF Q, R
  <2> QED BY <1>2, <1>3
<1>5. Listed(t)
  BY <1>4 DEF Listed
<1>6. \A i \in DOMAIN t : i + 0 = i /\ i \in DOMAIN s
  BY <1>1, <1>2
<1> QED BY <1>1, <1>2, <1>5, <1>6 DEF Shortened, Last

LEMMA ListTail ==
  ASSUME NEW s, Listed(s), s # <<>>, NEW t, t = Tail(s)
  PROVE  Shortened(s, t, 1)
<1> DEFINE R == {s[i] : i \in DOMAIN s}
           Q == {t[i] : i \in DOMAIN t}
<1>1. s \in Seq(R) /\ Len(s) \in Nat /\ DOMAIN s = 1..Len(s) /\ Len(s) >= 1
  BY ListFacts DEF Listed
<1>2. /\ t \in Seq(R) /\ Len(t) = Len(s) - 1 /\ DOMAIN t = 1..(Len(s) - 1)
      /\ \A i \in 1..(Len(s) - 1) : t[i] = s[i + 1]
  <2> HIDE DEF R
  <2> QED BY <1>1
<1>3. \A i \in 1..Len(t) : t[i] \in Q
  BY <1>1, <1>2
<1>4. t \in Seq(Q)
  <2> HIDE DEF Q, R
  <2>1. t \in Seq(R)
    BY <1>2
  <2> QED BY ONLY <2>1, <1>3
<1>5. Listed(t)
  BY <1>4 DEF Listed
<1>6. \A i \in DOMAIN t : i + 1 \in DOMAIN s
  BY <1>1, <1>2
<1> QED BY <1>1, <1>2, <1>5, <1>6 DEF Shortened

(* The empty list. *)
LEMMA ListEmpty ==
  ASSUME NEW s, s = <<>>
  PROVE  Listed(s) /\ Len(s) = 0 /\ DOMAIN s = {}
<1>1. s \in Seq({}) /\ Len(s) = 0 /\ DOMAIN s = {}
  OBVIOUS
<1>2. {s[i] : i \in DOMAIN s} = {}
  BY <1>1
<1> QED BY <1>1, <1>2 DEF Listed

(***************************************************************************)
(* The journals and the frames after an operation                          *)
(***************************************************************************)
(* The journals stay good. *)
LEMMA JournalsLater ==
  ASSUME NEW h, NEW k, HeapOK(h, game), HeapOK(k, game), Follows(h, k),
         NEW js, NEW cs, NEW hs, JournalsOK(h, game, js, cs, hs)
  PROVE  JournalsOK(k, game, js, cs, hs)
<1>1. Descends(h, k)
  BY FollowsDescends
<1>2. \A d : PropertyOK(d, h, game) => PropertyOK(d, k, game)
  BY <1>1, PropertyLater
<1>3. \A d : SnapOK(d, h, game) => SnapOK(d, k, game)
  BY SnapLater
<1>4. \A d, e : SnapOK(d, h, game) /\ Lighter(d, e, h) => Lighter(d, e, k)
  <2>1. \A d : SnapOK(d, h, game) => d.object \in Old(h.next_identity)
    BY DEF SnapOK
  <2> QED BY <1>1, <2>1, LighterLater
<1>5. \A c : ContainersOK(c, h, game) => ContainersOK(c, k, game)
  BY <1>3, <1>4 DEF ContainersOK
<1>6. \A c, d : ContainersOK(c, h, game) /\ Before(c, d, h) => Before(c, d, k)
  BY <1>4 DEF ContainersOK, Before
<1> QED BY <1>2, <1>5, <1>6 DEF JournalsOK

(* The activations of the frames. *)
Activations(cs, es) == {cs[i].activation : i \in DOMAIN cs} \cup {e.activation : e \in es}

(* A frame stays good while its activation stays. *)
LEMMA FrameLater ==
  ASSUME NEW h, NEW k, HeapOK(h, game), HeapOK(k, game), Descends(h, k), NEW n, NEW c, NEW ds, FrameOK(c, h, n, ds),
         c.activation \in Old(h.next_identity), c.object \in Old(h.next_identity),
         Loyal(h, k, c.activation), NEW es, ds \subseteq es
  PROVE  FrameOK(c, k, n, es)
<1> DEFINE a == c.activation
           o == c.object
<1>1. a \in k.roots /\ Live(k, a)
  BY DEF Loyal, HeapOK, TreeOK
<1>2. a.slot \in DOMAIN h.records /\ Kin(h.records[a.slot], k.records[a.slot])
  BY <1>1, LiveBefore
<1>3. LET r == Of(k, a)
      IN  r.kind = "plain" /\ r.prototypes = 0 /\ a.born > n /\ DOMAIN r.owned = {}
  BY <1>2 DEF FrameOK, Kin, Of
<1>4. CASE Live(h, o)
  <2>1. h.records[o.slot].parent = a /\ o.slot \in DOMAIN h.records
    BY <1>4 DEF FrameOK, Of, Live
  <2>2. o.slot \in DOMAIN k.records /\ k.records[o.slot].born = h.records[o.slot].born
        /\ k.records[o.slot].parent = a
    BY <2>1 DEF Loyal
  <2>3. Live(k, o) /\ Of(k, o).parent = a
    BY <1>4, <2>2 DEF Live, Of
  <2> QED BY <1>1, <1>3, <2>3 DEF FrameOK
<1>5. CASE ~Live(h, o)
  <2>1. ~Live(k, o)
    BY <1>5, LiveBefore
  <2>2. o \in es
    BY <1>5 DEF FrameOK
  <2> QED BY <1>1, <1>3, <2>1, <2>2 DEF FrameOK
<1> QED BY <1>4, <1>5

(* So do all of them. *)
LEMMA FramesLater ==
  ASSUME NEW h, NEW k, HeapOK(h, game), HeapOK(k, game), Descends(h, k), NEW n, NEW cs, NEW es, NEW ds,
         FrameTypes(h.next_identity, cs, es), FramesOK(h, n, cs, es, ds),
         \A a \in Activations(cs, es) \cap h.roots : Loyal(h, k, a),
         NEW dt, ds \subseteq dt
  PROVE  FramesOK(k, n, cs, es, dt)
<1>1. \A i \in DOMAIN cs : cs[i].activation \in Old(h.next_identity) /\ cs[i].object \in Old(h.next_identity)
  BY DEF FrameTypes
<1>2. \A e \in es : e.activation \in Old(h.next_identity) /\ e.object \in Old(h.next_identity)
  BY DEF FrameTypes
<1>3. \A i \in DOMAIN cs : FrameOK(cs[i], k, n, dt)
  <2>1. SUFFICES ASSUME NEW i \in DOMAIN cs PROVE FrameOK(cs[i], k, n, dt)
    OBVIOUS
  <2>2. FrameOK(cs[i], h, n, ds) /\ cs[i].activation \in h.roots
    BY DEF FramesOK, FrameOK
  <2>3. Loyal(h, k, cs[i].activation)
    BY <2>2 DEF Activations
  <2> QED BY <1>1, <2>2, <2>3, FrameLater
<1>4. \A e \in es : Live(h, e.activation) => FrameOK(e, k, n, dt) /\ Live(k, e.activation)
  <2>1. SUFFICES ASSUME NEW e \in es, Live(h, e.activation) PROVE FrameOK(e, k, n, dt) /\ Live(k, e.activation)
    OBVIOUS
  <2>2. FrameOK(e, h, n, ds) /\ e.activation \in h.roots
    BY <2>1 DEF FramesOK, FrameOK
  <2>3. Loyal(h, k, e.activation)
    BY <2>2 DEF Activations
  <2>4. FrameOK(e, k, n, dt)
    BY <1>2, <2>2, <2>3, FrameLater
  <2>5. Live(k, e.activation)
    BY <2>4 DEF FrameOK, HeapOK, TreeOK
  <2> QED BY <2>4, <2>5
<1>5. \A e \in es : Live(k, e.activation) => Live(h, e.activation)
  BY <1>2, LiveBefore
<1> QED BY <1>3, <1>4, <1>5 DEF FramesOK

(* Their types stay. *)
LEMMA TypesLater ==
  ASSUME NEW n \in Int, NEW m \in Int, n <= m, NEW cs, NEW es, FrameTypes(n, cs, es)
  PROVE  FrameTypes(m, cs, es)
<1>1. Old(n) \subseteq Old(m)
  BY OldGrows
<1> HIDE DEF Old
<1>2. \A i \in DOMAIN cs :
        cs[i] \in [owner : {"Published", "Owned"}, activation : Old(m), object : Old(m)]
  BY <1>1 DEF FrameTypes
<1>3. es \subseteq [activation : Old(m), object : Old(m), claimed : BOOLEAN]
  BY <1>1 DEF FrameTypes
<1> QED BY <1>2, <1>3 DEF FrameTypes

(* An operation that keeps the roots without fields keeps the frames. *)
LEMMA FramesBorne ==
  ASSUME NEW h, HeapOK(h, game), NEW k, HeapOK(k, game), Descends(h, k), Bears(h, k),
         NEW n \in Int, NEW cs, NEW es, NEW ds, FramesWell(h, n, cs, es, ds)
  PROVE  FramesWell(k, n, cs, es, ds)
<1>2. h.next_identity \in Int /\ k.next_identity \in Int /\ h.next_identity <= k.next_identity
  BY DEF HeapOK, Descends
<1>3. n < k.next_identity /\ FrameTypes(k.next_identity, cs, es) /\ ds \subseteq Old(k.next_identity)
  <2>1. FrameTypes(k.next_identity, cs, es)
    BY <1>2, TypesLater DEF FramesWell
  <2>2. ds \subseteq Old(k.next_identity)
    BY <1>2, OldGrows DEF FramesWell
  <2> QED BY <1>2, <2>1, <2>2 DEF FramesWell
<1>4. ASSUME k.status = "live" PROVE FramesOK(k, n, cs, es, ds)
  <2>1. h.status = "live" /\ \A a \in Childless(h) : Loyal(h, k, a)
    BY <1>4 DEF Bears
  <2>2. FramesOK(h, n, cs, es, ds) /\ FrameTypes(h.next_identity, cs, es)
    BY <2>1 DEF FramesWell
  <2>3. \A a \in Activations(cs, es) \cap h.roots : a \in Childless(h)
    <3>1. SUFFICES ASSUME NEW a \in Activations(cs, es), a \in h.roots PROVE DOMAIN Of(h, a).owned = {}
      BY DEF Childless
    <3>2. Live(h, a)
      BY <3>1 DEF HeapOK, TreeOK
    <3>3. CASE \E i \in DOMAIN cs : cs[i].activation = a
      <4>1. PICK i \in DOMAIN cs : cs[i].activation = a
        BY <3>3
      <4>2. FrameOK(cs[i], h, n, ds)
        BY <2>2 DEF FramesOK
      <4> QED BY <4>1, <4>2 DEF FrameOK
    <3>4. CASE \E e \in es : e.activation = a
      <4>1. PICK e \in es : e.activation = a
        BY <3>4
      <4>2. FrameOK(e, h, n, ds)
        BY <4>1, <2>2, <3>2 DEF FramesOK
      <4> QED BY <4>1, <4>2 DEF FrameOK
    <3> QED BY <3>1, <3>3, <3>4 DEF Activations
  <2> QED BY <2>1, <2>2, <2>3, FramesLater
<1> QED BY <1>3, <1>4 DEF FramesWell

(***************************************************************************)
(* What is added to the journals                                           *)
(***************************************************************************)
(* A write is journalled. *)
LEMMA PropertyAdded ==
  ASSUME NEW h, NEW js, NEW cs, NEW hs, JournalsOK(h, game, js, cs, hs), Len(js) < game.properties,
         game.properties \in Nat, NEW d, PropertyOK(d, h, game), NEW t, t = Append(js, d)
  PROVE  JournalsOK(h, game, t, cs, hs)
<1>1. Listed(js) /\ Len(js) \in Nat
  BY ListFacts DEF JournalsOK
<1>2. Appended(js, d, t)
  BY <1>1, ListAppend
<1>3. Listed(t) /\ Len(t) <= game.properties /\ \A i \in DOMAIN t : PropertyOK(t[i], h, game)
  BY <1>1, <1>2 DEF Appended, JournalsOK
<1> QED BY <1>3 DEF JournalsOK

(* A snapshot is taken: it is the newest, and no container has two. *)
LEMMA SnapshotAdded ==
  ASSUME NEW h, HeapOK(h, game), NEW js, NEW cs, NEW hs, JournalsOK(h, game, js, cs, hs),
         Len(cs) < game.objects, NEW o \in Old(h.next_identity), Live(h, o),
         \A n \in DOMAIN cs : cs[n].object # o, NEW t, t = Append(cs, Snapshot(h, o))
  PROVE  JournalsOK(h, game, js, t, hs)
<1> DEFINE d == Snapshot(h, o)
           r == Of(h, o)
<1>1. Listed(cs) /\ Len(cs) \in Nat /\ DOMAIN cs = 1..Len(cs) /\ game.objects \in Nat
  <2>1. game \in Games
    BY DEF HeapOK
  <2> QED BY <2>1, ListFacts, GameTypes DEF JournalsOK
<1>2. Appended(cs, d, t)
  <2> HIDE DEF d
  <2> QED BY <1>1, ListAppend DEF d
<1>3. d.object = o /\ d.elements = r.elements /\ d.capacity = r.capacity
  BY DEF Snapshot
<1>4. RecordOK(r, h.next_identity, game)
  BY DEF HeapOK, Live, Of
<1>5. r.capacity \in Nat /\ Cardinality(DOMAIN r.elements) \in Int
  BY <1>4, RecordSizes DEF RecordOK
<1> HIDE DEF d
<1>6. SnapOK(d, h, game)
  BY <1>3, <1>4, <1>5 DEF SnapOK, RecordOK, ElementsOK
<1>7. \A q : SnapOK(q, h, game) => Lighter(q, d, h)
  BY <1>3 DEF SnapOK, Lighter
<1>8. \A q : q.object # o => Lighter(q, d, h) /\ Lighter(d, q, h)
  BY <1>3 DEF Lighter
<1>9. ContainersOK(t, h, game)
  <2>1. \A i \in DOMAIN t : SnapOK(t[i], h, game)
    BY <1>2, <1>6 DEF Appended, JournalsOK, ContainersOK
  <2>2. ASSUME NEW i \in DOMAIN t, NEW j \in DOMAIN t, i < j PROVE Lighter(t[i], t[j], h)
    <3>1. i \in DOMAIN cs
      BY <1>1, <1>2, <2>2 DEF Appended
    <3>2. CASE j \in DOMAIN cs
      BY <3>1, <3>2, <1>2, <2>2 DEF Appended, JournalsOK, ContainersOK
    <3>3. CASE j = Len(cs) + 1
      BY <3>1, <3>3, <1>2, <1>8 DEF Appended
    <3> QED BY <3>2, <3>3, <1>2 DEF Appended
  <2> QED BY <2>1, <2>2 DEF ContainersOK
<1>10. ASSUME NEW l \in DOMAIN hs PROVE Before(hs[l].containers, t, h)
  <2>1. Before(hs[l].containers, cs, h) /\ ContainersOK(hs[l].containers, h, game)
    BY DEF JournalsOK
  <2>2. ASSUME NEW i \in DOMAIN hs[l].containers, NEW j \in DOMAIN t PROVE Lighter(hs[l].containers[i], t[j], h)
    <3>1. CASE j \in DOMAIN cs
      BY <3>1, <2>1, <1>2 DEF Appended, Before
    <3>2. CASE j = Len(cs) + 1
      BY <3>2, <2>1, <1>2, <1>7 DEF Appended, ContainersOK
    <3> QED BY <3>1, <3>2, <1>2 DEF Appended
  <2> QED BY <2>2 DEF Before
<1>11. Listed(t) /\ Len(t) <= game.objects
  BY <1>1, <1>2 DEF Appended
<1> QED BY <1>9, <1>10, <1>11 DEF JournalsOK

(***************************************************************************)
(* Elements are written                                                    *)
(***************************************************************************)
(* A record with other elements and more room. *)
FilledRecord(r, q, n, g, more) ==
  /\ RecordOK(q, n, g) /\ Heir(r, q) /\ Kin(r, q) /\ q.parent = r.parent /\ q.children = r.children
  /\ q.born = r.born
  /\ Charge(q) = Charge(r) + more

(* And that writing elements makes one. *)
LEMMA ElementsWritten ==
  ASSUME NEW r, NEW n, NEW g, RecordOK(r, n, g), NEW e, NEW c \in Nat, ElementsOK(e, r.kind, n, g),
         r.capacity <= c, NEW keys \in Nat, NEW q, q = [r EXCEPT !.elements = e, !.capacity = c],
         r.kind = "table" => Cardinality(DOMAIN e) = Cardinality(DOMAIN r.elements) + keys,
         r.kind = "vector" => Cardinality(DOMAIN e) <= c
  PROVE  FilledRecord(r, q, n, g, c - r.capacity + (IF r.kind = "table" THEN 2 * keys ELSE 0))
<1>1. r \in RecordSet(r, n)
  BY DEF RecordOK, RecordSet
<1>2. /\ q.born = r.born /\ q.parent = r.parent /\ q.kind = r.kind /\ q.lifetime = r.lifetime
      /\ q.prototypes = r.prototypes /\ q.elements = e /\ q.properties = r.properties
      /\ q.capacity = c /\ q.children = r.children /\ q.owned = r.owned
  BY <1>1 DEF RecordSet
<1>3. q \in RecordSet(q, n)
  <2>1. q \in [born : {q.born}, lifetime : {q.lifetime}, kind : {q.kind}, parent : {q.parent}, children : {q.children},
               properties : {q.properties}, owned : {q.owned}, elements : {q.elements},
               capacity : {q.capacity}, prototypes : {q.prototypes}]
    BY <1>1 DEF RecordSet
  <2> QED BY <1>1, <1>2, <2>1 DEF RecordSet
<1>4. RecordOK(q, n, g)
  BY <1>2, <1>3 DEF RecordOK, RecordSet
<1>5. /\ r.prototypes \in Nat /\ r.capacity \in Nat /\ Cardinality(DOMAIN r.properties) \in Nat
      /\ Cardinality(DOMAIN r.elements) \in Nat /\ Cardinality(DOMAIN e) \in Nat
  BY <1>1, FS_CardinalityType DEF RecordSet, RecordOK, ElementsOK
<1>6. Kin(r, q) /\ Heir(r, q)
  BY <1>2, <1>5 DEF Kin, Heir
<1>7. Charge(q) = Charge(r) + (c - r.capacity + (IF r.kind = "table" THEN 2 * keys ELSE 0))
  <2>2. Charge(q) = Cardinality(DOMAIN r.properties) + r.prototypes + c
                    + (IF r.kind = "table" THEN 1 + 2 * Cardinality(DOMAIN e) ELSE 0)
    BY <1>2 DEF Charge
  <2>3. Charge(r) = Cardinality(DOMAIN r.properties) + r.prototypes + r.capacity
                    + (IF r.kind = "table" THEN 1 + 2 * Cardinality(DOMAIN r.elements) ELSE 0)
    BY DEF Charge
  <2> QED BY <1>5, <2>2, <2>3
<1> QED BY <1>2, <1>4, <1>6, <1>7 DEF FilledRecord

(* A record is filled in place, and the room it takes is charged. *)
Fills(h, k, s, q, more) ==
  /\ k \in [records : {[h.records EXCEPT ![s] = q]}, roots : {h.roots}, free : {h.free},
            next_identity : {h.next_identity}, charged : {h.charged + more}, status : {h.status}]

(* And keeps the heap. *)
LEMMA FillsKeeps ==
  ASSUME NEW h, HeapOK(h, game), NEW s \in DOMAIN h.records, NEW q, NEW more \in Nat,
         FilledRecord(h.records[s], q, h.next_identity, game, more),
         NEW k, Fills(h, k, s, q, more), h.charged + more <= game.properties
  PROVE  Keeps(h, k)
<1>1. Rewrites(h, k, s, q) /\ k.charged = h.charged + more /\ k.status = h.status
  <2>1. IsFun(k.records) /\ h.status \in {"live", "terminal", "aborted"}
    BY DEF HeapOK, Shaped, IsFun, Fills
  <2> QED BY <2>1 DEF Fills, Rewrites, Shaped
<1>2. h.charged \in Nat /\ Charge(h.records[s]) \in Nat
  BY ChargeCovered
<1>3. k.charged = h.charged - Charge(h.records[s]) + Charge(q) /\ k.charged <= game.properties
  BY <1>1, <1>2 DEF FilledRecord
<1>4. HeapOK(k, game)
  BY <1>1, <1>3, RewritesOK DEF FilledRecord, Kin
<1>5. Keeps(h, k)
  BY <1>1, <1>4, RewritesKeeps DEF FilledRecord
<1> QED BY <1>5

(***************************************************************************)
(* What a game has in its hands                                            *)
(***************************************************************************)
(* What is held, seen or given is a handle that has been given out. *)
LEMMA HeldOld ==
  ASSUME NEW r, NEW n, RecordOK(r, n, game) PROVE Held(r) \subseteq Old(n)
<1>1. \A p \in DOMAIN r.properties : r.properties[p] \in Ref(n)
  BY DEF RecordOK
<1>2. \A p \in DOMAIN r.elements : r.elements[p] \in Ref(n)
  BY DEF RecordOK, ElementsOK
<1>3. r.kind = "table" => DOMAIN r.elements \subseteq Keys \cup Old(n)
  BY DEF RecordOK, ElementsOK, Keys
<1> HIDE DEF Old
<1> QED BY <1>1, <1>2, <1>3 DEF Held, Range, Ref

LEMMA VisibleOld ==
  ASSUME NEW h, HeapOK(h, game), NEW o \in Visible(h)
  PROVE  o \in Old(h.next_identity) /\ Live(h, o) /\ ~Private(h, o) /\ o.slot \in DOMAIN h.records
<1>1. PICK s \in DOMAIN h.records : o = HandleAt(h, s)
  BY DEF Visible, LiveHandles
<1> QED BY <1>1, HandleFacts DEF Visible, Live

LEMMA ValuesOld ==
  ASSUME HeapOK(heap, game), NEW v \in Values
  PROVE  v \in Ref(heap.next_identity)
<1>1. CASE v \in Visible(heap)
  BY <1>1, VisibleOld DEF Ref
<1>2. CASE v \in UNION {Held(r) : r \in Range(heap.records)}
  <2>1. PICK s \in DOMAIN heap.records : v \in Held(heap.records[s])
    BY <1>2 DEF Range
  <2>2. RecordOK(heap.records[s], heap.next_identity, game)
    BY DEF HeapOK
  <2> QED BY <2>1, <2>2, HeldOld DEF Ref
<1> QED BY <1>1, <1>2 DEF Values, Ref

(***************************************************************************)
(* The actions of a game                                                   *)
(***************************************************************************)
(* An action that keeps a heap, its journals and its frames keeps the      *)
(* invariant.                                                              *)
LEMMA BorneOK ==
  ASSUME AllOK, game' = game, HeapOK(heap', game), Descends(heap, heap'), Bears(heap, heap'),
         JournalsOK(heap', game, journal', containers', history'),
         UNCHANGED <<constructions, exceptions, despawned>>, OtherTypes'
  PROVE  AllOK' /\ Descends(heap, heap')
<1>2. FramesWell(heap', Len(Statics), constructions, exceptions, despawned)
  <2>1. Len(Statics) \in Int BY GameTypes DEF AllOK, HeapOK, Statics
  <2> QED BY <2>1, FramesBorne DEF AllOK
<1>3. Len(Statics') = Len(Statics) BY DEF Statics
<1>4. HeapOK(heap, game)' OBVIOUS
<1>5. JournalsOK(heap, game, journal, containers, history)' OBVIOUS
<1>6. FramesWell(heap, Len(Statics), constructions, exceptions, despawned)' BY <1>2, <1>3
<1> QED BY <1>4, <1>5, <1>6 DEF AllOK

LEMMA KeptOK ==
  ASSUME AllOK, game' = game, Keeps(heap, heap'),
         JournalsOK(heap', game, journal', containers', history'),
         UNCHANGED <<constructions, exceptions, despawned>>, OtherTypes'
  PROVE  AllOK' /\ Descends(heap, heap')
BY BorneOK, FollowsDescends DEF Keeps

(* A call changes these types only. *)
LEMMA MayTypes ==
  ASSUME AllOK, game' = game, NEW c, May(c),
         UNCHANGED <<journalling, history, default_lifetime, phase, past>>
  PROVE  OtherTypes' /\ heap.status = "live"
<1>1. game.most_calls \in Nat BY GameTypes DEF AllOK, HeapOK
<1>2. calls \in 0..game.most_calls /\ calls < game.most_calls /\ calls' = calls + 1
  BY DEF AllOK, OtherTypes, MaxCalls, May
<1>3. calls' \in 0..game.most_calls BY <1>1, <1>2
<1>4. MaxCalls' = game.most_calls BY DEF MaxCalls
<1> QED BY <1>3, <1>4 DEF AllOK, OtherTypes, May

(* One lemma for each action follows, beginning with the simplest. *)
LEMMA RefusedOK ==
  ASSUME AllOK, game' = game, Refused PROVE AllOK' /\ Descends(heap, heap')
<1>1. /\ UNCHANGED <<heap, journal, containers, journalling, history, default_lifetime, constructions, exceptions>>
      /\ UNCHANGED <<phase, past, despawned, calls>>
  BY DEF Refused, journals, frames, aux
<1>2. Keeps(heap, heap') BY <1>1, KeepsSelf DEF AllOK
<1>3. OtherTypes'
  BY <1>1 DEF AllOK, OtherTypes, MaxCalls
<1> QED BY <1>1, <1>2, <1>3, KeptOK DEF AllOK

LEMMA BeginOK ==
  ASSUME AllOK, game' = game, Begin PROVE AllOK' /\ Descends(heap, heap')
<1>1. /\ UNCHANGED <<heap, journal, containers, history, constructions, exceptions, past, despawned, calls>>
      /\ phase' = "open" /\ default_lifetime' = "Turn" /\ journalling' = TRUE
  BY DEF Begin, frames
<1>2. Keeps(heap, heap') BY <1>1, KeepsSelf DEF AllOK
<1>3. OtherTypes'
  BY <1>1 DEF AllOK, OtherTypes, MaxCalls
<1> QED BY <1>1, <1>2, <1>3, KeptOK DEF AllOK

LEMMA RelateOK ==
  ASSUME AllOK, game' = game, NEW x, NEW y, Relate(x, y) PROVE AllOK' /\ Descends(heap, heap')
<1>1. /\ UNCHANGED <<journal, containers, journalling, history, default_lifetime, constructions, exceptions>>
      /\ UNCHANGED <<phase, past, despawned>> /\ May("relate")
      /\ heap' = Stored(Stored(heap, x, y), y, x)
  BY DEF Relate, journals, frames
<1>2. PICK m : m = Stored(heap, x, y) OBVIOUS
<1>3. Alike(heap, m) BY <1>2, StoredAlike DEF AllOK
<1>4. Alike(m, heap') BY <1>1, <1>2, <1>3, StoredAlike DEF Alike
<1>5. Alike(heap, heap') BY <1>3, <1>4, AlikeJoin
<1>6. Keeps(heap, heap') BY <1>5, AlikeKeeps DEF AllOK
<1>7. OtherTypes' BY <1>1, MayTypes
<1>8. JournalsOK(heap', game, journal', containers', history')
  BY <1>1, <1>6, JournalsLater DEF AllOK, Keeps
<1> QED BY <1>1, <1>6, <1>7, <1>8, KeptOK

(* A failure keeps what there is to keep. *)
LEMMA FailedKeeps ==
  ASSUME NEW h, HeapOK(h, game), NEW k, k = Failed(h) PROVE Keeps(h, k)
<1> QED BY FailedOK DEF Keeps, Bears

(* A record that has just been made is filled. *)
LEMMA FreshRewritten ==
  ASSUME NEW h, HeapOK(h, game), NEW m, Keeps(h, m), NEW s \in DOMAIN m.records,
         m.records[s].born >= h.next_identity, NEW q, NEW k, Rewrites(m, k, s, q), HeapOK(k, game),
         q.born = m.records[s].born, q.parent = m.records[s].parent, k.status = m.status
  PROVE  Keeps(h, k)
<1>1. DOMAIN k.records = DOMAIN m.records /\ k.records[s] = q
      /\ \A t \in DOMAIN m.records : t # s => k.records[t] = m.records[t]
  BY DEF Rewrites
<1>2. k.next_identity = m.next_identity /\ k.roots = m.roots
  BY DEF Rewrites
<1>3. Follows(h, k)
  BY <1>1, <1>2 DEF Follows, Keeps
<1>4. ASSUME NEW a, Loyal(h, m, a) PROVE Loyal(h, k, a)
  BY <1>1, <1>2, <1>4 DEF Loyal
<1>5. Bears(h, k)
  BY <1>4 DEF Bears, Keeps
<1> QED BY <1>3, <1>5 DEF Keeps

(* An empty container. *)
Empty(r, q, n, g, charge) ==
  /\ RecordOK(q, n, g) /\ Charge(q) = charge /\ Charge(r) = 0
  /\ q.born = r.born /\ q.parent = r.parent /\ q.children = r.children /\ q.owned = r.owned

LEMMA BlankFilled ==
  ASSUME NEW n \in Nat, NEW born \in 1..(n - 1), NEW l \in {"World", "Turn"}, NEW g,
         NEW kind \in {"vector", "table"}, NEW c \in Nat, kind = "table" => c = 0,
         NEW r, r = Blank(born, l), NEW q, q = [r EXCEPT !.kind = kind, !.capacity = c]
  PROVE  Empty(r, q, n, g, IF kind = "table" THEN 1 ELSE c)
<1>1. Cardinality({}) = 0 /\ IsFiniteSet({}) BY FS_EmptySet
<1>2. DOMAIN Nothing = {} /\ IsFun(Nothing) BY DEF Nothing, IsFun
<1>3. /\ q = [born |-> born, lifetime |-> l, kind |-> kind, parent |-> Nil,
              children |-> {}, properties |-> Nothing, owned |-> Nothing,
              elements |-> Nothing, capacity |-> c, prototypes |-> 0]
  BY DEF Blank
<1>4. ElementsOK(Nothing, kind, n, g)
  <2>1. 1..0 = {} OBVIOUS
  <2> QED BY <1>1, <1>2, <2>1 DEF ElementsOK
<1>5. RecordOK(q, n, g)
  <2>1. q \in [born : 1..(n - 1), lifetime : {"World", "Turn"}, kind : {"plain", "vector", "table"},
            parent : {Nil}, children : {{}}, properties : {q.properties},
            owned : {q.owned}, elements : {q.elements}, capacity : Nat, prototypes : 0..1]
    <3>1. /\ q.born = born /\ q.lifetime = l /\ q.kind = kind /\ q.parent = Nil /\ q.children = {}
          /\ q.capacity = c /\ q.prototypes = 0
          /\ q \in [born : {q.born}, lifetime : {q.lifetime}, kind : {q.kind}, parent : {q.parent},
                    children : {q.children}, properties : {q.properties}, owned : {q.owned},
                    elements : {q.elements}, capacity : {q.capacity}, prototypes : {q.prototypes}]
      BY ONLY <1>3
    <3> QED BY <3>1
  <2>2. q \in [born : 1..(n - 1), lifetime : {"World", "Turn"}, kind : {"plain", "vector", "table"},
            parent : Ref(n), children : SUBSET Old(n), properties : {q.properties},
            owned : {q.owned}, elements : {q.elements}, capacity : Nat, prototypes : 0..1]
    BY <2>1 DEF Ref
  <2> QED BY <2>2, <1>1, <1>2, <1>3, <1>4 DEF RecordOK
<1>6. Charge(q) = IF kind = "table" THEN 1 ELSE c
  <2>1. q.properties = Nothing /\ q.elements = Nothing /\ q.kind = kind /\ q.capacity = c /\ q.prototypes = 0
    BY ONLY <1>3
  <2>2. Charge(q) = 0 + 0 + c + (IF kind = "table" THEN 1 + 2 * 0 ELSE 0)
    BY <2>1, <1>1, <1>2 DEF Charge
  <2> QED BY <2>2
<1>7. Charge(r) = 0
  BY <1>1, <1>2 DEF Charge, Blank
<1> QED BY <1>3, <1>5, <1>6, <1>7 DEF Empty, Blank

LEMMA NewContainerOK ==
  ASSUME AllOK, game' = game, NEW kind \in {"vector", "table"}, NEW c \in Nat, kind = "table" => c = 0,
         NewContainer(kind, c)
  PROVE  AllOK' /\ Descends(heap, heap')
<1>1. /\ UNCHANGED <<journal, containers, journalling, history, default_lifetime, constructions, exceptions>>
      /\ UNCHANGED <<phase, past, despawned>> /\ May(kind)
  BY DEF NewContainer, journals, frames
<1>2. PICK charge : charge = IF kind = "table" THEN 1 ELSE c OBVIOUS
<1>3. /\ HeapOK(heap, game) /\ game.properties \in Nat /\ heap.charged \in Nat /\ charge \in Nat
      /\ heap.next_identity \in Nat /\ default_lifetime \in {"World", "Turn"}
      /\ game.identities \in Nat
  <2>1. HeapOK(heap, game) /\ default_lifetime \in {"World", "Turn"} BY DEF AllOK, OtherTypes
  <2>2. game.properties \in Nat /\ game.identities \in Nat BY <2>1, GameTypes DEF HeapOK
  <2>3. heap.charged \in Nat
    BY <2>1, HeapFinite, SumFacts DEF HeapOK
  <2> QED BY <1>2, <2>1, <2>2, <2>3 DEF HeapOK
<1>4. Keeps(heap, heap')
  <2>1. CASE charge > PropertyLimit - heap.charged \/ ~CanCreate(heap)
    BY <2>1, <1>2, <1>3, FailedKeeps DEF NewContainer
  <2>2. CASE ~(charge > PropertyLimit - heap.charged) /\ CanCreate(heap)
    <3>1. PICK s \in Slots(heap) :
            heap' = [Created(heap, s, default_lifetime) EXCEPT
                           !.records[s].kind = kind, !.records[s].capacity = c,
                           !.charged = @ + charge]
      BY <2>2, <1>2 DEF NewContainer
    <3>2. PICK m : m = Created(heap, s, default_lifetime) OBVIOUS
    <3>3. /\ HeapOK(m, game) /\ Follows(heap, m) /\ \A a \in heap.roots : Loyal(heap, m, a)
          /\ s \in DOMAIN m.records
          /\ m.records[s] = Blank(heap.next_identity, default_lifetime)
          /\ m.charged = heap.charged /\ m.status = heap.status /\ m.next_identity = heap.next_identity + 1
      BY <3>2, <2>2, <1>3, CreatedOK
    <3>4. Keeps(heap, m)
      BY <3>3 DEF Keeps, Bears, Childless
    <3>5. PICK r : r = m.records[s] OBVIOUS
    <3>6. PICK q : q = [r EXCEPT !.kind = kind, !.capacity = c] OBVIOUS
    <3>7. Empty(r, q, m.next_identity, game, charge)
      <4>1. m.next_identity \in Nat /\ heap.next_identity \in 1..(m.next_identity - 1)
        BY <3>3, <1>3 DEF HeapOK
      <4> QED BY <4>1, <3>3, <3>5, <3>6, <1>2, <1>3, BlankFilled
    <3>8. /\ heap'.records = [m.records EXCEPT ![s] = q] /\ heap'.charged = m.charged + charge
          /\ heap'.roots = m.roots /\ heap'.free = m.free /\ heap'.next_identity = m.next_identity
          /\ heap'.status = m.status /\ Shaped(heap')
      <4>1. Shaped(m) /\ m.status = m.status BY <3>3 DEF HeapOK
      <4>2. heap' = [m EXCEPT !.records[s].kind = kind, !.records[s].capacity = c, !.charged = @ + charge]
        BY <3>1, <3>2
      <4> HIDE DEF NewContainer, AllOK
      <4>3. /\ heap'.records = [m.records EXCEPT ![s] = [m.records[s] EXCEPT !.kind = kind, !.capacity = c]]
            /\ heap' \in [records : {heap'.records}, roots : {m.roots}, free : {m.free},
                 next_identity : {m.next_identity}, charged : {m.charged + charge}, status : {m.status}]
        BY ONLY <4>1, <4>2, <3>3 DEF Shaped
      <4>4. heap'.records = [m.records EXCEPT ![s] = q]
        BY <4>3, <3>5, <3>6
      <4>5. IsFun(heap'.records)
        BY <4>1, <4>4 DEF Shaped, IsFun
      <4> QED BY <4>3, <4>4, <4>5 DEF Shaped
    <3>9. Rewrites(m, heap', s, q)
      BY <3>8, <3>3 DEF Rewrites, HeapOK
    <3>10. m.charged + charge <= game.properties
      BY <2>2, <3>3, <1>3 DEF PropertyLimit
    <3>11. HeapOK(heap', game)
      <4>1. heap'.charged = m.charged - Charge(m.records[s]) + Charge(q)
        BY <3>3, <3>5, <3>7, <3>8, <1>3 DEF Empty
      <4>2. heap'.charged <= game.properties BY <3>8, <3>10
      <4> QED BY <4>1, <4>2, <3>3, <3>5, <3>7, <3>9, RewritesOK DEF Empty
    <3>12. m.records[s].born >= heap.next_identity
      BY <3>3, <1>3 DEF Blank
    <3> QED BY <3>3, <3>4, <3>5, <3>7, <3>8, <3>9, <3>11, <3>12, <1>3, FreshRewritten DEF Empty
  <2> QED BY <2>1, <2>2
<1>5. OtherTypes' BY <1>1, MayTypes
<1>6. JournalsOK(heap', game, journal', containers', history')
  BY <1>1, <1>4, JournalsLater DEF AllOK, Keeps
<1> QED BY <1>1, <1>4, <1>5, <1>6, KeptOK

(* op 32, set. *)
LEMMA SetOK ==
  ASSUME AllOK, game' = game, NEW o \in Visible(heap), NEW p \in Props, NEW v \in Values, Set(o, p, v)
  PROVE  AllOK' /\ Descends(heap, heap')
<1>1. /\ UNCHANGED <<containers, journalling, history, default_lifetime, constructions, exceptions>>
      /\ UNCHANGED <<phase, past, despawned>> /\ May("set")
  BY DEF Set, frames
<1>2. /\ HeapOK(heap, game) /\ game.properties \in Nat /\ Live(heap, o) /\ o \in Old(heap.next_identity)
      /\ v \in Ref(heap.next_identity) /\ p \in game.props \cup {Field}
      /\ JournalsOK(heap, game, journal, containers, history)
  BY GameTypes, VisibleOld, ValuesOld DEF AllOK, HeapOK, Props
<1>3. OtherTypes' BY <1>1, MayTypes
<1> DEFINE r == Of(heap, o)
           d == [object |-> o, property |-> p,
                 previous |-> IF p \in DOMAIN r.properties THEN r.properties[p] ELSE Absent]
<1>4. PropertyOK(d, heap, game)
  <2>1. RecordOK(r, heap.next_identity, game)
    BY <1>2 DEF HeapOK, Live, Of
  <2>2. Absent \notin Ref(heap.next_identity)
    <3>1. heap.next_identity \in Nat BY <1>2, GameTypes DEF HeapOK
    <3>2. 1..(heap.next_identity - 1) \subseteq Nat BY <3>1
    <3> QED BY <3>2, AbsentIsNoValue DEF Ref, Old
  <2>3. DOMAIN r.owned \subseteq DOMAIN r.properties /\ \A x \in DOMAIN r.properties : r.properties[x] \in Ref(heap.next_identity)
    BY <2>1 DEF RecordOK
  <2>4. d.object = o /\ d.property = p
        /\ d.previous = IF p \in DOMAIN r.properties THEN r.properties[p] ELSE Absent
    OBVIOUS
  <2>5. Of(heap, d.object).owned = r.owned BY <2>4
  <2> HIDE DEF d, r
  <2> QED BY <1>2, <2>2, <2>3, <2>4, <2>5 DEF PropertyOK
<1>5. heap' = heap \/ heap' = Assigned(heap, o, p, v)
  BY DEF Set
<1>6. Keeps(heap, heap')
  BY <1>2, <1>5, AssignedKeeps, KeepsSelf
<1>7. JournalsOK(heap, game, journal', containers', history')
  <2>1. CASE journal' = journal
    BY <1>1, <1>2, <2>1
  <2>2. CASE journal' # journal
    <3>1. Len(journal) < PropertyLimit /\ journal' = Append(journal, d)
      <4>1. Len(journal) \in Nat BY <1>2, ListFacts DEF JournalsOK
      <4> QED BY <1>2, <2>2, <4>1 DEF Set, PropertyLimit
    <3> HIDE DEF d
    <3> QED BY <1>1, <1>2, <1>4, <3>1, PropertyAdded DEF PropertyLimit
  <2> QED BY <2>1, <2>2
<1>8. JournalsOK(heap', game, journal', containers', history')
  BY <1>2, <1>6, <1>7, JournalsLater DEF Keeps
<1> QED BY <1>1, <1>3, <1>6, <1>8, KeptOK

(* A change to a container, with its snapshot. *)
LEMMA ChangedOK ==
  ASSUME AllOK, game' = game, NEW o \in Visible(heap), NEW stored, NEW after,
         Alike(heap, stored), Keeps(stored, after), NEW call, May(call), Changed(o, stored, after)
  PROVE  AllOK' /\ Descends(heap, heap')
<1>1. /\ UNCHANGED <<journal, journalling, history, default_lifetime, constructions, exceptions>>
      /\ UNCHANGED <<phase, past, despawned>>
  BY DEF Changed, frames
<1>2. OtherTypes' BY <1>1, MayTypes
<1>3. /\ HeapOK(heap, game) /\ Live(heap, o) /\ o \in Old(heap.next_identity)
      /\ JournalsOK(heap, game, journal, containers, history)
  BY VisibleOld DEF AllOK
<1>4. /\ HeapOK(stored, game) /\ stored.next_identity = heap.next_identity /\ Live(stored, o)
      /\ Keeps(heap, stored)
  BY <1>3, AlikeKeeps DEF Alike
<1>5. JournalsOK(stored, game, journal, containers, history)
  BY <1>3, <1>4, JournalsLater DEF Keeps
<1>6. CASE heap' = stored /\ containers' = containers
  BY <1>1, <1>2, <1>4, <1>5, <1>6, KeptOK
<1>7. CASE heap' = after /\ containers' = containers
  <2>1. Keeps(heap, heap') BY <1>3, <1>4, <1>7, KeepsJoin
  <2>2. JournalsOK(heap', game, journal', containers', history')
    BY <1>1, <1>3, <1>4, <1>5, <1>7, JournalsLater DEF Keeps
  <2> QED BY <1>1, <1>2, <2>1, <2>2, KeptOK
<1>8. CASE heap' = after /\ Unsaved(stored, o) /\ Fits(stored, o)
           /\ containers' = Append(containers, Snapshot(stored, o))
  <2>1. Keeps(heap, heap') BY <1>3, <1>4, <1>8, KeepsJoin
  <2>2. Len(containers) < game.objects /\ \A n \in DOMAIN containers : containers[n].object # o
    BY <1>8 DEF Unsaved, Fits, ObjectLimit
  <2>3. JournalsOK(stored, game, journal', containers', history')
    BY <1>1, <1>3, <1>4, <1>5, <1>8, <2>2, SnapshotAdded
  <2>4. JournalsOK(heap', game, journal', containers', history')
    BY <1>4, <1>8, <2>3, JournalsLater DEF Keeps
  <2> QED BY <1>1, <1>2, <2>1, <2>4, KeptOK
<1> QED BY <1>6, <1>7, <1>8 DEF Changed

(* Elements and room of one container change. *)
ElementsSet(h, k, s, e, c, more) ==
  k \in [records : {[h.records EXCEPT ![s] = [h.records[s] EXCEPT !.elements = e, !.capacity = c]]},
         roots : {h.roots}, free : {h.free}, next_identity : {h.next_identity},
         charged : {h.charged + more}, status : {h.status}]

(* And the heap is kept, when the room is charged. *)
LEMMA ElementsSetKeeps ==
  ASSUME NEW h, HeapOK(h, game), NEW s \in DOMAIN h.records, NEW e, NEW c \in Nat,
         ElementsOK(e, h.records[s].kind, h.next_identity, game), h.records[s].capacity <= c,
         NEW keys \in Nat, NEW more,
         more = c - h.records[s].capacity + (IF h.records[s].kind = "table" THEN 2 * keys ELSE 0),
         h.records[s].kind = "table" => Cardinality(DOMAIN e) = Cardinality(DOMAIN h.records[s].elements) + keys,
         h.records[s].kind = "vector" => Cardinality(DOMAIN e) <= c,
         h.charged + more <= game.properties, NEW k, ElementsSet(h, k, s, e, c, more)
  PROVE  Keeps(h, k)
<1>1. PICK r : r = h.records[s] OBVIOUS
<1>2. PICK q : q = [r EXCEPT !.elements = e, !.capacity = c] OBVIOUS
<1>3. RecordOK(r, h.next_identity, game) BY <1>1 DEF HeapOK
<1>4. FilledRecord(r, q, h.next_identity, game, more)
  BY <1>1, <1>2, <1>3, ElementsWritten
<1>5. more \in Nat
  BY <1>1, <1>3, RecordSizes
<1>6. Fills(h, k, s, q, more)
  BY <1>1, <1>2 DEF ElementsSet, Fills
<1> QED BY <1>1, <1>4, <1>5, <1>6, FillsKeeps

(* The length of a vector. *)
LEMMA LengthOf ==
  ASSUME NEW l \in Nat PROVE Cardinality(1..l) = l /\ IsFiniteSet(1..l)
BY FS_Interval

(* Elements after each of the operations. *)
LEMMA ElementsAppended ==
  ASSUME NEW e, NEW n, NEW g, ElementsOK(e, "vector", n, g), NEW v \in Ref(n),
         NEW l, l = Cardinality(DOMAIN e), NEW f, f = With(e, l + 1, v)
  PROVE  ElementsOK(f, "vector", n, g) /\ l \in Nat /\ Cardinality(DOMAIN f) = l + 1
<1>1. /\ IsFun(e) /\ IsFiniteSet(DOMAIN e) /\ \A k \in DOMAIN e : e[k] \in Ref(n)
      /\ DOMAIN e = 1..l
  BY DEF ElementsOK
<1>2. l \in Nat BY <1>1, FS_CardinalityType
<1>3. DOMAIN f = 1..(l + 1) /\ IsFun(f) /\ \A x \in DOMAIN f : f[x] = IF x = l + 1 THEN v ELSE e[x]
  <2>1. DOMAIN f = DOMAIN e \cup {l + 1} BY DEF With
  <2>4. 1..l \cup {l + 1} = 1..(l + 1) BY <1>2
  <2>2. DOMAIN f = 1..(l + 1) BY <2>1, <2>4, <1>1
  <2>3. IsFun(f) /\ \A x \in DOMAIN f : f[x] = IF x = l + 1 THEN v ELSE e[x]
    BY DEF With, IsFun
  <2> QED BY <2>2, <2>3
<1>4. IsFiniteSet(DOMAIN f) /\ Cardinality(DOMAIN f) = l + 1
  BY <1>2, <1>3, LengthOf
<1>5. \A k \in DOMAIN f : f[k] \in Ref(n)
  <2>1. \A k \in 1..(l + 1) : k # l + 1 => k \in 1..l BY <1>2
  <2> QED BY <2>1, <1>1, <1>3
<1> QED BY <1>2, <1>3, <1>4, <1>5 DEF ElementsOK

LEMMA ElementsReplaced ==
  ASSUME NEW e, NEW n, NEW g, ElementsOK(e, "vector", n, g), NEW v \in Ref(n), NEW k \in DOMAIN e,
         NEW f, f = [e EXCEPT ![k] = v]
  PROVE  ElementsOK(f, "vector", n, g) /\ DOMAIN f = DOMAIN e
<1>1. /\ IsFun(e) /\ IsFiniteSet(DOMAIN e) /\ \A x \in DOMAIN e : e[x] \in Ref(n)
      /\ DOMAIN e = 1..Cardinality(DOMAIN e)
  BY DEF ElementsOK
<1>2. DOMAIN f = DOMAIN e /\ IsFun(f) /\ \A x \in DOMAIN f : f[x] \in Ref(n)
  BY <1>1 DEF IsFun
<1> QED BY <1>1, <1>2 DEF ElementsOK

LEMMA ElementsKept ==
  ASSUME NEW e, NEW n, NEW g, ElementsOK(e, "vector", n, g), NEW a \in DOMAIN e,
         NEW b \in a..Cardinality(DOMAIN e), NEW left, left = Cardinality(DOMAIN e) - (b - a + 1), NEW f,
         f = [x \in 1..left |-> e[IF x < a THEN x ELSE x + b - a + 1]]
  PROVE  ElementsOK(f, "vector", n, g) /\ Cardinality(DOMAIN f) <= Cardinality(DOMAIN e)
<1>1. /\ IsFiniteSet(DOMAIN e) /\ \A x \in DOMAIN e : e[x] \in Ref(n)
      /\ DOMAIN e = 1..Cardinality(DOMAIN e) /\ Cardinality(DOMAIN e) \in Nat
  BY FS_CardinalityType DEF ElementsOK
<1>2. PICK l \in Nat : l = Cardinality(DOMAIN e) /\ DOMAIN e = 1..l BY <1>1
<1>3. a \in 1..l /\ b \in a..l /\ left \in Nat BY <1>2
<1>4. \A x \in 1..left : (IF x < a THEN x ELSE x + b - a + 1) \in 1..l
  BY <1>2, <1>3
<1>5. DOMAIN f = 1..left /\ IsFun(f) /\ \A x \in DOMAIN f : f[x] \in Ref(n)
  BY <1>1, <1>2, <1>4 DEF IsFun
<1>6. IsFiniteSet(DOMAIN f) /\ Cardinality(DOMAIN f) = left
  BY <1>3, <1>5, LengthOf
<1>7. left <= l BY <1>2, <1>3
<1> QED BY <1>2, <1>5, <1>6, <1>7 DEF ElementsOK

LEMMA ElementsKeyed ==
  ASSUME NEW e, NEW n, NEW g, ElementsOK(e, "table", n, g), NEW v \in Ref(n), NEW k \in g.keys \cup Old(n),
         NEW f, f = With(e, k, v), NEW more, more = IF k \in DOMAIN e THEN 0 ELSE 1
  PROVE  ElementsOK(f, "table", n, g) /\ Cardinality(DOMAIN f) = Cardinality(DOMAIN e) + more
<1>1. /\ IsFun(e) /\ IsFiniteSet(DOMAIN e) /\ \A x \in DOMAIN e : e[x] \in Ref(n)
      /\ DOMAIN e \subseteq g.keys \cup Old(n)
  BY DEF ElementsOK
<1>2. DOMAIN f = DOMAIN e \cup {k} /\ IsFun(f) /\ \A x \in DOMAIN f : f[x] = IF x = k THEN v ELSE e[x]
  BY DEF With, IsFun
<1>3. IsFiniteSet(DOMAIN f) /\ Cardinality(DOMAIN f) = Cardinality(DOMAIN e) + more
  <2>1. Cardinality(DOMAIN e) \in Nat BY <1>1, FS_CardinalityType
  <2> QED BY <2>1, <1>1, <1>2, FS_AddElement
<1>4. \A x \in DOMAIN f : f[x] \in Ref(n) BY <1>1, <1>2
<1>5. DOMAIN f \subseteq g.keys \cup Old(n) BY <1>1, <1>2
<1> QED BY <1>2, <1>3, <1>4, <1>5 DEF ElementsOK

(* What a value is stored into is still a container. *)
LEMMA StoredContainer ==
  ASSUME AllOK, NEW o \in Visible(heap), NEW stored, Alike(heap, stored), NEW r, r = stored.records[o.slot]
  PROVE  /\ HeapOK(stored, game) /\ Shaped(stored) /\ o.slot \in DOMAIN stored.records
         /\ r.kind = Of(heap, o).kind /\ r.elements = Of(heap, o).elements
         /\ ElementsOK(r.elements, r.kind, stored.next_identity, game) /\ r.capacity \in Nat
         /\ RecordOK(r, stored.next_identity, game)
         /\ r.kind = "vector" => Cardinality(DOMAIN r.elements) <= r.capacity
         /\ stored.next_identity = heap.next_identity /\ stored.charged \in Nat /\ game.properties \in Nat
         /\ stored.charged <= game.properties
<1>1. o.slot \in DOMAIN heap.records BY VisibleOld DEF AllOK
<1>2. HeapOK(stored, game) /\ o.slot \in DOMAIN stored.records /\ stored.next_identity = heap.next_identity
      /\ r.kind = Of(heap, o).kind /\ r.elements = Of(heap, o).elements
  BY <1>1 DEF Alike, SameButLife, Of
<1>3. RecordOK(r, stored.next_identity, game) BY <1>2 DEF HeapOK
<1>4. /\ ElementsOK(r.elements, r.kind, stored.next_identity, game) /\ r.capacity \in Nat
      /\ r.kind = "vector" => Cardinality(DOMAIN r.elements) <= r.capacity
  BY <1>3 DEF RecordOK
<1>5. stored.charged \in Nat BY <1>2, ChargeCovered
<1>6. game.properties \in Nat /\ stored.charged <= game.properties /\ Shaped(stored)
  BY <1>2, GameTypes DEF HeapOK
<1> QED BY <1>2, <1>3, <1>4, <1>5, <1>6

(* vector_append. *)
LEMMA VectorAppendOK ==
  ASSUME AllOK, game' = game, NEW o \in OfKind("vector"), NEW v \in Values, VectorAppend(o, v)
  PROVE  AllOK' /\ Descends(heap, heap')
<1>1. o \in Visible(heap) /\ Of(heap, o).kind = "vector" /\ v \in Ref(heap.next_identity)
  BY ValuesOld DEF OfKind, AllOK
<1> DEFINE stored == Stored(heap, o, v)
           r == Of(stored, o)
           l == Cardinality(DOMAIN r.elements)
           e == With(r.elements, l + 1, v)
           more == IF l + 1 > r.capacity THEN (l + 1) - r.capacity ELSE 0
           after == IF more > PropertyLimit - stored.charged THEN Failed(stored)
                    ELSE [stored EXCEPT !.records[o.slot].elements = With(@, l + 1, v),
                                        !.records[o.slot].capacity = @ + more, !.charged = @ + more]
<1>2. May("append") /\ Changed(o, stored, after)
  BY ONLY VectorAppend(o, v), Zenon DEF VectorAppend
<1>3. Alike(heap, stored) BY StoredAlike DEF AllOK
<1>4. r = stored.records[o.slot] BY DEF Of
<1> HIDE DEF stored, r
<1>5. /\ HeapOK(stored, game) /\ Shaped(stored) /\ o.slot \in DOMAIN stored.records
      /\ r.kind = "vector" /\ ElementsOK(r.elements, "vector", stored.next_identity, game) /\ r.capacity \in Nat
      /\ stored.next_identity = heap.next_identity /\ stored.charged \in Nat /\ game.properties \in Nat
  BY <1>1, <1>3, <1>4, StoredContainer
<1>8. ElementsOK(e, "vector", stored.next_identity, game) /\ l \in Nat /\ Cardinality(DOMAIN e) = l + 1
  BY <1>1, <1>5, ElementsAppended
<1> HIDE DEF l
<1>9. Cardinality(DOMAIN e) <= r.capacity + more BY <1>5, <1>8
<1>10. more \in Nat BY <1>5, <1>8
<1> HIDE DEF e, more
<1>13. Keeps(stored, after)
  <2>1. CASE more > PropertyLimit - stored.charged
    BY <2>1, <1>5, FailedKeeps
  <2>2. CASE ~(more > PropertyLimit - stored.charged)
    <3>1. after = [stored EXCEPT !.records[o.slot].elements = With(@, l + 1, v),
                       !.records[o.slot].capacity = @ + more, !.charged = @ + more]
      BY <2>2
    <3> HIDE DEF after
    <3>2. ElementsSet(stored, after, o.slot, e, r.capacity + more, more)
      <4>1. /\ after.records = [stored.records EXCEPT ![o.slot] =
                  [stored.records[o.slot] EXCEPT !.elements = With(r.elements, l + 1, v),
                                                 !.capacity = r.capacity + more]]
            /\ after \in [records : {after.records}, roots : {stored.roots}, free : {stored.free},
                 next_identity : {stored.next_identity}, charged : {stored.charged + more}, status : {stored.status}]
        BY ONLY <1>4, <1>5, <3>1 DEF Shaped
      <4> QED BY <4>1 DEF ElementsSet, e
    <3>3. stored.charged + more <= game.properties
      BY <2>2, <1>5, <1>10 DEF PropertyLimit
    <3>6. PICK keys \in Nat : keys = 0 OBVIOUS
    <3>4. /\ r.capacity <= r.capacity + more /\ r.capacity + more \in Nat
          /\ more = (r.capacity + more) - r.capacity + 0
      BY <1>5, <1>10
    <3>5. /\ stored.records[o.slot].capacity <= r.capacity + more /\ r.capacity + more \in Nat 
          /\ more = (r.capacity + more) - stored.records[o.slot].capacity
                    + (IF stored.records[o.slot].kind = "table" THEN 2 * keys ELSE 0)
          /\ stored.records[o.slot].kind # "table"
          /\ ElementsOK(e, stored.records[o.slot].kind, stored.next_identity, game)
          /\ Cardinality(DOMAIN e) <= r.capacity + more
      BY <1>4, <1>5, <1>8, <1>9, <3>4
    <3> QED BY <1>5, <3>2, <3>3, <3>5, <3>6, ElementsSetKeeps
  <2> QED BY <2>1, <2>2
<1> HIDE DEF after
<1> QED BY <1>1, <1>2, <1>3, <1>13, ChangedOK

(* Elements change and the room does not. *)
LEMMA SameRoomKeeps ==
  ASSUME NEW h, HeapOK(h, game), NEW s \in DOMAIN h.records, NEW e,
         ElementsOK(e, h.records[s].kind, h.next_identity, game), h.records[s].kind = "vector",
         Cardinality(DOMAIN e) <= h.records[s].capacity,
         NEW k, k \in [records : {[h.records EXCEPT ![s] = [h.records[s] EXCEPT !.elements = e]]},
         roots : {h.roots}, free : {h.free}, next_identity : {h.next_identity},
         charged : {h.charged}, status : {h.status}]
  PROVE  Keeps(h, k)
<1>1. PICK r : r = h.records[s] OBVIOUS
<1>2. RecordOK(r, h.next_identity, game) BY <1>1 DEF HeapOK
<1>3. h.charged \in Nat /\ r.capacity \in Nat /\ h.charged <= game.properties
  BY <1>2, ChargeCovered DEF HeapOK, RecordOK
<1>4. PICK q : q = [r EXCEPT !.elements = e] OBVIOUS
<1>5. q = [r EXCEPT !.elements = e, !.capacity = r.capacity]
  <2>1. r \in RecordSet(r, h.next_identity) BY <1>2 DEF RecordOK, RecordSet
  <2> QED BY ONLY <2>1, <1>4 DEF RecordSet
<1>6. h.charged + 0 = h.charged BY <1>3
<1>7. PICK more \in Nat : more = 0 OBVIOUS
<1>8. ElementsSet(h, k, s, e, r.capacity, more)
  <2>1. h.charged + more = h.charged BY <1>6, <1>7
  <2>2. [h.records EXCEPT ![s] = [h.records[s] EXCEPT !.elements = e]]
        = [h.records EXCEPT ![s] = [h.records[s] EXCEPT !.elements = e, !.capacity = r.capacity]]
    BY <1>1, <1>4, <1>5
  <2> QED BY <2>1, <2>2 DEF ElementsSet
<1>9. /\ h.records[s].capacity <= r.capacity
      /\ more = r.capacity - h.records[s].capacity + (IF h.records[s].kind = "table" THEN 2 * more ELSE 0)
      /\ h.records[s].kind # "table" /\ h.charged + more <= game.properties
      /\ Cardinality(DOMAIN e) <= r.capacity
  BY <1>1, <1>3, <1>7
<1> QED BY <1>3, <1>7, <1>8, <1>9, ElementsSetKeeps

(* vector_set and vector_remove_range. *)
LEMMA VectorSetOK ==
  ASSUME AllOK, game' = game, NEW o \in OfKind("vector"), NEW v \in Values, NEW n \in DOMAIN Of(heap, o).elements,
         VectorSet(o, n, v)
  PROVE  AllOK' /\ Descends(heap, heap')
<1>1. o \in Visible(heap) /\ Of(heap, o).kind = "vector" /\ v \in Ref(heap.next_identity)
  BY ValuesOld DEF OfKind, AllOK
<1> DEFINE stored == Stored(heap, o, v)
           r == Of(stored, o)
           e == [r.elements EXCEPT ![n] = v]
           after == [stored EXCEPT !.records[o.slot].elements[n] = v]
<1>2. May("element") /\ Changed(o, stored, after)
  BY DEF VectorSet
<1>3. Alike(heap, stored) BY StoredAlike DEF AllOK
<1>4. r = stored.records[o.slot] BY DEF Of
<1> HIDE DEF stored, r
<1>5. /\ HeapOK(stored, game) /\ Shaped(stored) /\ o.slot \in DOMAIN stored.records
      /\ r.kind = "vector" /\ ElementsOK(r.elements, "vector", stored.next_identity, game)
      /\ stored.next_identity = heap.next_identity /\ n \in DOMAIN r.elements
      /\ RecordOK(r, stored.next_identity, game) /\ Cardinality(DOMAIN r.elements) <= r.capacity
  BY <1>1, <1>3, <1>4, StoredContainer
<1>6. ElementsOK(e, "vector", stored.next_identity, game) /\ DOMAIN e = DOMAIN r.elements
  BY <1>1, <1>5, ElementsReplaced
<1>7. after \in [records : {[stored.records EXCEPT ![o.slot] = [stored.records[o.slot] EXCEPT !.elements = e]]},
         roots : {stored.roots}, free : {stored.free}, next_identity : {stored.next_identity},
         charged : {stored.charged}, status : {stored.status}]
  <2>1. after = [stored EXCEPT !.records[o.slot].elements[n] = v] OBVIOUS
  <2>2. r \in RecordSet(r, stored.next_identity) BY <1>5 DEF RecordOK, RecordSet
  <2> HIDE DEF after
  <2>3. /\ after.records = [stored.records EXCEPT ![o.slot] =
             [stored.records[o.slot] EXCEPT !.elements = [stored.records[o.slot].elements EXCEPT ![n] = v]]]
        /\ after \in [records : {after.records}, roots : {stored.roots}, free : {stored.free},
             next_identity : {stored.next_identity}, charged : {stored.charged}, status : {stored.status}]
    BY ONLY <2>1, <1>5 DEF Shaped
  <2> QED BY <2>3, <1>4
<1> HIDE DEF e, after
<1>8. Keeps(stored, after)
  BY <1>4, <1>5, <1>6, <1>7, SameRoomKeeps
<1> QED BY <1>1, <1>2, <1>3, <1>8, ChangedOK

LEMMA VectorRemoveOK ==
  ASSUME AllOK, game' = game, NEW o \in OfKind("vector"), NEW m \in DOMAIN Of(heap, o).elements,
         NEW n \in m..Cardinality(DOMAIN Of(heap, o).elements), VectorRemove(o, m, n)
  PROVE  AllOK' /\ Descends(heap, heap')
<1>1. o \in Visible(heap) /\ Of(heap, o).kind = "vector"
  BY DEF OfKind
<1> DEFINE r == Of(heap, o)
           left == Cardinality(DOMAIN r.elements) - (n - m + 1)
           kept(s) == [x \in 1..left |-> s[IF x < m THEN x ELSE x + n - m + 1]]
           e == kept(r.elements)
           after == [heap EXCEPT !.records[o.slot].elements = kept(@)]
<1>2. May("remove") /\ Changed(o, heap, after)
  BY DEF VectorRemove
<1>3. Alike(heap, heap) BY AlikeSelf DEF AllOK
<1>4. r = heap.records[o.slot] BY DEF Of
<1>5. /\ HeapOK(heap, game) /\ Shaped(heap) /\ o.slot \in DOMAIN heap.records
      /\ r.kind = "vector" /\ ElementsOK(r.elements, "vector", heap.next_identity, game)
      /\ Cardinality(DOMAIN r.elements) <= r.capacity /\ r.capacity \in Nat
  <2> HIDE DEF r
  <2> QED BY <1>1, <1>3, <1>4, StoredContainer
<1>6. ElementsOK(e, "vector", heap.next_identity, game) /\ Cardinality(DOMAIN e) <= Cardinality(DOMAIN r.elements)
  <2> SUFFICES ASSUME NEW f, f = e
               PROVE  /\ ElementsOK(f, "vector", heap.next_identity, game)
                      /\ Cardinality(DOMAIN f) <= Cardinality(DOMAIN r.elements)
    OBVIOUS
  <2>1. m \in DOMAIN r.elements /\ n \in m..Cardinality(DOMAIN r.elements)
    OBVIOUS
  <2>2. f = [x \in 1..left |-> r.elements[IF x < m THEN x ELSE x + n - m + 1]]
    OBVIOUS
  <2>3. left = Cardinality(DOMAIN r.elements) - (n - m + 1)
    OBVIOUS
  <2> HIDE DEF r, left, e
  <2> QED BY <1>5, <2>1, <2>2, <2>3, ElementsKept
<1>7. after \in [records : {[heap.records EXCEPT ![o.slot] = [heap.records[o.slot] EXCEPT !.elements = e]]},
         roots : {heap.roots}, free : {heap.free}, next_identity : {heap.next_identity},
         charged : {heap.charged}, status : {heap.status}]
  <2>1. after = [heap EXCEPT !.records[o.slot].elements = e] BY <1>4, <1>5 DEF Shaped
  <2> HIDE DEF after, e
  <2> QED BY ONLY <2>1, <1>5 DEF Shaped
<1>9. r.kind = heap.records[o.slot].kind BY <1>4
<1> HIDE DEF e, after, r
<1>10. Cardinality(DOMAIN e) <= heap.records[o.slot].capacity
  <2>1. IsFiniteSet(DOMAIN e) /\ IsFiniteSet(DOMAIN r.elements) BY <1>5, <1>6 DEF ElementsOK
  <2>2. Cardinality(DOMAIN e) \in Nat /\ Cardinality(DOMAIN r.elements) \in Nat BY <2>1, FS_CardinalityType
  <2> QED BY <2>2, <1>4, <1>5, <1>6
<1>8. Keeps(heap, after)
  BY <1>4, <1>5, <1>6, <1>7, <1>10, SameRoomKeeps
<1> QED BY <1>1, <1>2, <1>3, <1>8, ChangedOK

(* A key is added, or overwritten. *)
LEMMA KeyedKeeps ==
  ASSUME NEW h, HeapOK(h, game), NEW s \in DOMAIN h.records, h.records[s].kind = "table", NEW e, NEW keys \in Nat,
         ElementsOK(e, "table", h.next_identity, game),
         Cardinality(DOMAIN e) = Cardinality(DOMAIN h.records[s].elements) + keys,
         NEW more, more = 2 * keys, h.charged + more <= game.properties,
         NEW k, k \in [records : {[h.records EXCEPT ![s] = [h.records[s] EXCEPT !.elements = e]]},
         roots : {h.roots}, free : {h.free}, next_identity : {h.next_identity},
         charged : {h.charged + more}, status : {h.status}]
  PROVE  Keeps(h, k)
<1>1. PICK r : r = h.records[s] OBVIOUS
<1>2. RecordOK(r, h.next_identity, game) BY <1>1 DEF HeapOK
<1>3. r.capacity \in Nat
  BY <1>2 DEF RecordOK
<1>4. PICK q : q = [r EXCEPT !.elements = e] OBVIOUS
<1>5. q = [r EXCEPT !.elements = e, !.capacity = r.capacity]
  <2>1. r \in RecordSet(r, h.next_identity) BY <1>2 DEF RecordOK, RecordSet
  <2> QED BY ONLY <2>1, <1>4 DEF RecordSet
<1>8. ElementsSet(h, k, s, e, r.capacity, more)
  <2>2. [h.records EXCEPT ![s] = [h.records[s] EXCEPT !.elements = e]]
        = [h.records EXCEPT ![s] = [h.records[s] EXCEPT !.elements = e, !.capacity = r.capacity]]
    BY <1>1, <1>4, <1>5
  <2> QED BY <2>2 DEF ElementsSet
<1>9. /\ h.records[s].capacity <= r.capacity
      /\ more = r.capacity - h.records[s].capacity + (IF h.records[s].kind = "table" THEN 2 * keys ELSE 0)
      /\ h.records[s].kind # "vector"
  BY <1>1, <1>3
<1>10. ElementsOK(e, h.records[s].kind, h.next_identity, game)
  OBVIOUS
<1> QED BY <1>3, <1>8, <1>9, <1>10, ElementsSetKeeps

(* lookup_set. *)
LEMMA LookupSetOK ==
  ASSUME AllOK, game' = game, NEW o \in OfKind("table"), NEW v \in Values,
         NEW k \in Keys \cup OfKind("plain") \cup OfKind("table"), LookupSet(o, k, v)
  PROVE  AllOK' /\ Descends(heap, heap')
<1>1. o \in Visible(heap) /\ Of(heap, o).kind = "table" /\ v \in Ref(heap.next_identity)
  BY ValuesOld DEF OfKind, AllOK
<1>11. k \in game.keys \cup Old(heap.next_identity)
  BY VisibleOld DEF OfKind, AllOK, Keys
<1> DEFINE stored == Stored(heap, o, v)
           keyed == IF k \in Keys THEN stored ELSE Stored(stored, o, k)
           r == Of(keyed, o)
           more == IF k \in DOMAIN r.elements THEN 0 ELSE 2
           e == With(r.elements, k, v)
           keys == IF k \in DOMAIN r.elements THEN 0 ELSE 1
           after == IF more > PropertyLimit - keyed.charged THEN Failed(keyed)
               ELSE [keyed EXCEPT !.records[o.slot].elements = With(@, k, v),
                                  !.charged = @ + more]
<1>2. May("key") /\ Changed(o, stored, after)
  BY DEF LookupSet
<1>3. Alike(heap, stored) BY StoredAlike DEF AllOK
<1>12. Alike(stored, keyed)
  BY <1>3, StoredAlike, AlikeSelf DEF Alike
<1>4. r = keyed.records[o.slot] BY DEF Of
<1> HIDE DEF stored, keyed, r
<1>13. Alike(heap, keyed) /\ Keeps(stored, keyed) /\ HeapOK(stored, game)
  BY <1>3, <1>12, AlikeJoin, AlikeKeeps DEF Alike
<1>5. /\ HeapOK(keyed, game) /\ Shaped(keyed) /\ o.slot \in DOMAIN keyed.records
      /\ r.kind = "table" /\ ElementsOK(r.elements, "table", keyed.next_identity, game)
      /\ keyed.next_identity = heap.next_identity /\ keyed.charged \in Nat /\ game.properties \in Nat
  BY <1>1, <1>13, <1>4, StoredContainer
<1>6. ElementsOK(e, "table", keyed.next_identity, game)
      /\ Cardinality(DOMAIN e) = Cardinality(DOMAIN r.elements) + keys
  BY <1>1, <1>5, <1>11, ElementsKeyed
<1>7. more = 2 * keys /\ keys \in Nat /\ more \in Nat
  OBVIOUS
<1> HIDE DEF e, more, keys
<1>8. Keeps(keyed, after)
  <2>1. CASE more > PropertyLimit - keyed.charged
    BY <2>1, <1>5, FailedKeeps
  <2>2. CASE ~(more > PropertyLimit - keyed.charged)
    <3>1. after = [keyed EXCEPT !.records[o.slot].elements = With(@, k, v), !.charged = @ + more]
      BY <2>2
    <3> HIDE DEF after
    <3>2. after \in [records : {[keyed.records EXCEPT ![o.slot] = [keyed.records[o.slot] EXCEPT !.elements = e]]},
         roots : {keyed.roots}, free : {keyed.free}, next_identity : {keyed.next_identity},
         charged : {keyed.charged + more}, status : {keyed.status}]
      <4>1. /\ after.records = [keyed.records EXCEPT ![o.slot] =
                  [keyed.records[o.slot] EXCEPT !.elements = With(keyed.records[o.slot].elements, k, v)]]
            /\ after \in [records : {after.records}, roots : {keyed.roots}, free : {keyed.free},
                 next_identity : {keyed.next_identity}, charged : {keyed.charged + more}, status : {keyed.status}]
        BY ONLY <1>5, <3>1 DEF Shaped
      <4> QED BY <4>1, <1>4 DEF e
    <3>3. keyed.charged + more <= game.properties
      BY <2>2, <1>5, <1>7 DEF PropertyLimit
    <3>4. /\ keyed.records[o.slot].kind = "table"
          /\ Cardinality(DOMAIN e) = Cardinality(DOMAIN keyed.records[o.slot].elements) + keys
      BY <1>4, <1>5, <1>6
    <3> QED BY <1>5, <1>6, <1>7, <3>2, <3>3, <3>4, KeyedKeeps
  <2> QED BY <2>1, <2>2
<1> HIDE DEF after
<1>9. Keeps(stored, after)
  BY <1>8, <1>13, KeepsJoin
<1> QED BY <1>1, <1>2, <1>3, <1>9, ChangedOK

(***************************************************************************)
(* Rollback, undo and the end of a cycle                                   *)
(***************************************************************************)
(* Entries that can be put back, with the older ones behind them. *)
Revertible(h, js, cs, hs) ==
  /\ Listed(js) /\ \A i \in DOMAIN js : PropertyOK(js[i], h, game)
  /\ Listed(cs) /\ ContainersOK(cs, h, game)
  /\ Listed(hs)
  /\ \A l \in DOMAIN hs :
       /\ Listed(hs[l].properties) /\ \A i \in DOMAIN hs[l].properties : PropertyOK(hs[l].properties[i], h, game)
       /\ Listed(hs[l].containers) /\ ContainersOK(hs[l].containers, h, game)
       /\ Before(hs[l].containers, cs, h)
  /\ \A l, m \in DOMAIN hs : l < m => Before(hs[l].containers, hs[m].containers, h)

(* What putting them back leaves. *)
Reverts(h, k, hs) ==
  /\ HeapOK(k, game) /\ Descends(h, k) /\ Bears(h, k)
  /\ \A es : es = <<>> => Revertible(k, es, es, hs)

(* The entries of one cycle are put back and those of the older ones are   *)
(* still good.                                                             *)
LEMMA RevertedOK ==
  ASSUME NEW h, HeapOK(h, game), NEW js, NEW cs, NEW hs, Revertible(h, js, cs, hs),
         NEW k, k = PropertiesReverted(ContainersReverted(h, cs), js)
  PROVE  Reverts(h, k, hs)
<1>1. PICK m : m = ContainersReverted(h, cs) OBVIOUS
<1>2. /\ Steady(h, m)
      /\ \A q : SnapOK(q, h, game) /\ (\A i \in DOMAIN cs : Lighter(q, cs[i], h)) => SnapOK(q, m, game)
  BY <1>1, ListFacts, ContainersKeep DEF Revertible
<1>3. HeapOK(m, game) /\ Descends(h, m) /\ Bears(h, m) /\ m.next_identity = h.next_identity
  BY <1>2 DEF Steady
<1>4. \A d : PropertyOK(d, h, game) => PropertyOK(d, m, game)
  BY <1>3, PropertyLater
<1>5. Keeps(m, k)
  BY <1>1, <1>3, <1>4, ListFacts, PropertiesKeep DEF Revertible
<1>6. HeapOK(k, game) /\ Descends(h, k) /\ Bears(h, k)
  BY <1>3, <1>5, FollowsDescends, DescendsJoin, BearsJoin DEF Keeps
<1>7. \A d : PropertyOK(d, h, game) => PropertyOK(d, k, game)
  BY <1>6, PropertyLater
<1>8. \A d, e : SnapOK(d, h, game) /\ Lighter(d, e, h) => Lighter(d, e, k)
  <2>1. \A d : SnapOK(d, h, game) => d.object \in Old(h.next_identity)
    BY DEF SnapOK
  <2> QED BY <1>6, <2>1, LighterLater
<1>9. \A c : ContainersOK(c, h, game) /\ Before(c, cs, h) => ContainersOK(c, k, game)
  <2>1. SUFFICES ASSUME NEW c, ContainersOK(c, h, game), Before(c, cs, h) PROVE ContainersOK(c, k, game)
    OBVIOUS
  <2>2. \A i \in DOMAIN c : SnapOK(c[i], h, game)
    BY <2>1 DEF ContainersOK
  <2>3. \A i \in DOMAIN c : SnapOK(c[i], m, game)
    BY <1>2, <2>1, <2>2 DEF Before
  <2>4. \A i \in DOMAIN c : SnapOK(c[i], k, game)
    BY <1>3, <1>5, <2>3, SnapLater DEF Keeps
  <2> QED BY <2>1, <2>2, <2>4, <1>8 DEF ContainersOK
<1>10. \A c, d : ContainersOK(c, h, game) /\ Before(c, d, h) => Before(c, d, k)
  BY <1>8 DEF ContainersOK, Before
<1>11. ASSUME NEW es, es = <<>> PROVE Revertible(k, es, es, hs)
  <2>1. Listed(es) /\ DOMAIN es = {} BY <1>11, ListEmpty
  <2>2. \A c : Before(c, es, k) /\ ContainersOK(es, k, game) BY <2>1 DEF Before, ContainersOK
  <2> QED BY <2>1, <2>2, <1>7, <1>9, <1>10 DEF Revertible
<1> QED BY <1>6, <1>11 DEF Reverts

(* Empty journals. *)
LEMMA EndsEmpty ==
  ASSUME NEW h, game \in Games, NEW es, es = <<>>, NEW hs, Revertible(h, es, es, hs), Len(hs) <= game.depth
  PROVE  JournalsOK(h, game, es, es, hs)
<1>1. Len(es) = 0 /\ game.properties \in Nat /\ game.objects \in Nat
  BY GameTypes, ListEmpty
<1> QED BY <1>1 DEF Revertible, JournalsOK

(* The turn failed. *)
LEMMA RollbackOK ==
  ASSUME AllOK, game' = game, Rollback
  PROVE  AllOK' /\ Descends(heap, heap')
<1>1. /\ UNCHANGED <<journalling, history, default_lifetime, constructions, exceptions, past, despawned, calls>>
      /\ journal' = <<>> /\ containers' = <<>> /\ phase' = "failed"
      /\ heap' = PropertiesReverted(ContainersReverted(heap, containers), journal)
  BY DEF Rollback, frames
<1>2. OtherTypes' BY <1>1 DEF AllOK, OtherTypes, MaxCalls
<1>3. HeapOK(heap, game) /\ Revertible(heap, journal, containers, history) /\ Len(history) <= game.depth
  BY DEF AllOK, JournalsOK, Revertible
<1>4. Reverts(heap, heap', history)
  BY <1>1, <1>3, RevertedOK
<1>5. JournalsOK(heap', game, journal', containers', history')
  BY <1>1, <1>3, <1>4, EndsEmpty DEF Reverts, HeapOK
<1> QED BY <1>1, <1>2, <1>4, <1>5, BorneOK DEF Reverts

(* The newest cycle of the history can be put back next. *)
LEMMA LastEntry ==
  ASSUME NEW h, NEW es, NEW hs, Revertible(h, es, es, hs), hs # <<>>, NEW c, c = Last(hs), NEW front, front = Front(hs)
  PROVE  Revertible(h, c.properties, c.containers, front) /\ Len(front) <= Len(hs)
<1>1. Listed(hs) /\ Shortened(hs, front, 0) /\ Len(hs) \in DOMAIN hs /\ c = hs[Len(hs)]
  BY ListFront DEF Revertible
<1>2. Len(hs) \in Nat /\ DOMAIN hs = 1..Len(hs) BY <1>1, ListFacts
<1>3. /\ Listed(front) /\ Len(front) = Len(hs) - 1 /\ DOMAIN front = 1..(Len(hs) - 1)
      /\ \A i \in DOMAIN front : i + 0 \in DOMAIN hs /\ front[i] = hs[i + 0]
  BY <1>1 DEF Shortened
<1>4. \A i \in DOMAIN front : i \in DOMAIN hs /\ front[i] = hs[i] /\ i < Len(hs)
  <2>1. \A i \in DOMAIN front : i + 0 = i /\ i < Len(hs) BY <1>2, <1>3
  <2> QED BY <1>3, <2>1
<1>5. /\ Listed(c.properties) /\ \A i \in DOMAIN c.properties : PropertyOK(c.properties[i], h, game)
      /\ Listed(c.containers) /\ ContainersOK(c.containers, h, game)
  BY <1>1 DEF Revertible
<1>6. \A l \in DOMAIN front :
        /\ Listed(front[l].properties) /\ \A i \in DOMAIN front[l].properties : PropertyOK(front[l].properties[i], h, game)
        /\ Listed(front[l].containers) /\ ContainersOK(front[l].containers, h, game)
        /\ Before(front[l].containers, c.containers, h)
  BY <1>1, <1>4 DEF Revertible
<1>7. \A l, m \in DOMAIN front : l < m => Before(front[l].containers, front[m].containers, h)
  BY <1>4 DEF Revertible
<1> QED BY <1>2, <1>3, <1>5, <1>6, <1>7 DEF Revertible

(* The open cycle is put back and then the last one. *)
LEMMA UndoOK ==
  ASSUME AllOK, game' = game, Undo
  PROVE  AllOK' /\ Descends(heap, heap')
<1> DEFINE put == PropertiesReverted(ContainersReverted(heap, containers), journal)
<1>1. /\ UNCHANGED <<default_lifetime, constructions, exceptions, phase, despawned, calls>>
      /\ journal' = <<>> /\ containers' = <<>> /\ journalling' = FALSE
      /\ \/ history = <<>> /\ heap' = put /\ history' = history /\ past' = past
         \/ /\ history # <<>> /\ history' = Front(history) /\ past' = Front(past)
            /\ heap' = PropertiesReverted(ContainersReverted(put, Last(history).containers), Last(history).properties)
  BY DEF Undo, frames
<1>2. HeapOK(heap, game) /\ Revertible(heap, journal, containers, history) /\ Len(history) <= game.depth
      /\ Listed(history) /\ Listed(past) /\ Len(past) = Len(history) /\ game \in Games /\ game.depth \in Nat
  BY GameTypes DEF AllOK, JournalsOK, Revertible, OtherTypes, HeapOK
<1>3. Reverts(heap, put, history)
  BY <1>2, RevertedOK
<1>4. PICK es : es = <<>> OBVIOUS
<1>5. HeapOK(put, game) /\ Descends(heap, put) /\ Bears(heap, put) /\ Revertible(put, es, es, history)
  BY <1>3, <1>4 DEF Reverts
<1>6. CASE history = <<>> /\ heap' = put /\ history' = history /\ past' = past
  <2>1. OtherTypes' BY <1>1, <1>6 DEF AllOK, OtherTypes, MaxCalls
  <2> HIDE DEF put
  <2>2. JournalsOK(heap', game, journal', containers', history')
    <3>1. JournalsOK(put, game, es, es, history) BY <1>2, <1>4, <1>5, EndsEmpty
    <3> QED BY <3>1, <1>1, <1>4, <1>6
  <2> QED BY <1>1, <1>5, <1>6, <2>1, <2>2, BorneOK
<1>7. CASE /\ history # <<>> /\ history' = Front(history) /\ past' = Front(past)
           /\ heap' = PropertiesReverted(ContainersReverted(put, Last(history).containers), Last(history).properties)
  <2> HIDE DEF put
  <2>1. /\ Revertible(put, Last(history).properties, Last(history).containers, history')
        /\ Len(history') <= Len(history)
    BY <1>5, <1>7, LastEntry
  <2>2. Reverts(put, heap', history')
    BY <1>5, <1>7, <2>1, RevertedOK
  <2>3. HeapOK(heap', game) /\ Descends(put, heap') /\ Bears(put, heap') /\ Revertible(heap', es, es, history')
    BY <1>4, <2>2 DEF Reverts
  <2>4. Descends(heap, heap') /\ Bears(heap, heap')
    BY <1>2, <1>5, <2>3, DescendsJoin, BearsJoin
  <2>5. past # <<>> /\ Len(history') = Len(history) - 1 /\ Listed(past') /\ Len(past') = Len(past) - 1
    <3>1. past # <<>>
      BY <1>2, <1>7, ListFacts
    <3>2. Shortened(history, history', 0) /\ Shortened(past, past', 0)
      BY <1>2, <1>7, <3>1, ListFront
    <3> QED BY <3>1, <3>2 DEF Shortened
  <2>6. OtherTypes'
    BY <1>1, <1>2, <2>5 DEF AllOK, OtherTypes, MaxCalls
  <2>7. Len(history') <= game.depth
    <3>1. Len(history) \in Nat BY <1>2, ListFacts
    <3> QED BY <1>2, <2>5, <3>1
  <2>8. JournalsOK(heap', game, journal', containers', history')
    <3>1. JournalsOK(heap', game, es, es, history') BY <1>2, <1>4, <2>3, <2>7, EndsEmpty
    <3> QED BY <3>1, <1>1, <1>4
  <2> QED BY <1>1, <2>3, <2>4, <2>6, <2>8, BorneOK
<1> QED BY <1>1, <1>6, <1>7

(* The history without its oldest cycle, when it is full. *)
Shifted(s, t, by) ==
  /\ Listed(t) /\ Len(t) + 1 <= game.depth /\ Len(t) \in Nat
  /\ \A i \in DOMAIN t : i + by \in DOMAIN s /\ t[i] = s[i + by]
  /\ Len(t) = Len(s) - by

LEMMA KeptShifted ==
  ASSUME NEW s, Listed(s), game.depth \in Nat \ {0}, Len(s) <= game.depth, NEW t, t = Kept(s)
  PROVE  Shifted(s, t, IF Len(s) >= game.depth THEN 1 ELSE 0)
<1>1. Len(s) \in Nat /\ DOMAIN s = 1..Len(s) BY ListFacts
<1>2. CASE Len(s) >= game.depth
  <2>1. s # <<>> BY <1>1, <1>2, ListFacts
  <2>2. t = Tail(s) BY <1>2 DEF Kept, UndoDepth
  <2>3. Shortened(s, t, 1) BY <2>1, <2>2, ListTail
  <2>4. Shifted(s, t, 1)
    BY <1>1, <1>2, <2>3 DEF Shortened, Shifted
  <2> QED BY <1>2, <2>4
<1>3. CASE ~(Len(s) >= game.depth)
  <2>1. t = s BY <1>3 DEF Kept, UndoDepth
  <2>2. \A i \in DOMAIN t : i + 0 = i BY <1>1, <2>1
  <2>3. \A i \in DOMAIN t : i + 0 \in DOMAIN s /\ t[i] = s[i + 0] BY <2>1, <2>2
  <2>4. Len(t) + 1 <= game.depth /\ Len(t) \in Nat /\ Len(t) = Len(s) - 0
    BY <1>1, <1>3, <2>1
  <2>5. Shifted(s, t, 0) BY <2>1, <2>3, <2>4 DEF Shifted
  <2> QED BY <1>3, <2>5
<1> QED BY <1>2, <1>3

(* The history after a cycle. *)
Longer(s, t) == Len(t) = Len(s) - (IF Len(s) >= game.depth THEN 1 ELSE 0) + 1

(* The journals move to the history. *)
LEMMA HistoryTaken ==
  ASSUME NEW h, NEW js, NEW cs, NEW hs, JournalsOK(h, game, js, cs, hs), game \in Games,
         NEW t, t = Append(Kept(hs), [properties |-> js, containers |-> cs]), NEW es, es = <<>>
  PROVE  JournalsOK(h, game, es, es, t) /\ Longer(hs, t)
<1>1. PICK d : d = [properties |-> js, containers |-> cs] OBVIOUS
<1>2. d.properties = js /\ d.containers = cs BY <1>1
<1>3. PICK kept : kept = Kept(hs) OBVIOUS
<1>4. PICK by \in 0..1 : Shifted(hs, kept, by) /\ by = (IF Len(hs) >= game.depth THEN 1 ELSE 0)
  BY <1>3, GameTypes, KeptShifted DEF JournalsOK
<1>5. Appended(kept, d, t) BY <1>1, <1>3, <1>4, ListAppend DEF Shifted
<1>6. /\ Listed(kept) /\ Len(kept) \in Nat /\ Len(kept) + 1 <= game.depth /\ DOMAIN kept = 1..Len(kept)
      /\ \A i \in DOMAIN kept : i + by \in DOMAIN hs /\ kept[i] = hs[i + by]
      /\ Len(kept) = Len(hs) - by
  BY <1>4, ListFacts DEF Shifted
<1>7. /\ Listed(t) /\ Len(t) = Len(kept) + 1 /\ DOMAIN t = 1..(Len(kept) + 1)
      /\ \A i \in DOMAIN kept : i \in DOMAIN t /\ t[i] = kept[i]
      /\ t[Len(kept) + 1] = d
      /\ \A i \in DOMAIN t : i \in DOMAIN kept \/ i = Len(kept) + 1
  BY <1>5 DEF Appended
<1>8. /\ Listed(js) /\ \A i \in DOMAIN js : PropertyOK(js[i], h, game)
      /\ Listed(cs) /\ ContainersOK(cs, h, game) /\ Listed(hs)
      /\ \A l \in DOMAIN hs :
       /\ Listed(hs[l].properties) /\ \A i \in DOMAIN hs[l].properties : PropertyOK(hs[l].properties[i], h, game)
       /\ Listed(hs[l].containers) /\ ContainersOK(hs[l].containers, h, game)
       /\ Before(hs[l].containers, cs, h)
  BY DEF JournalsOK
<1>9. \A l \in DOMAIN t :
       /\ Listed(t[l].properties) /\ \A i \in DOMAIN t[l].properties : PropertyOK(t[l].properties[i], h, game)
       /\ Listed(t[l].containers) /\ ContainersOK(t[l].containers, h, game)
  <2>1. TAKE l \in DOMAIN t
  <2>2. CASE l \in DOMAIN kept
    <3>1. l + by \in DOMAIN hs /\ t[l] = hs[l + by] BY <2>2, <1>6, <1>7
    <3> QED BY <3>1, <1>8
  <2>3. CASE l = Len(kept) + 1
    BY <2>3, <1>2, <1>7, <1>8
  <2> QED BY <2>2, <2>3, <1>7
<1>10. \A l, m \in DOMAIN t : l < m => Before(t[l].containers, t[m].containers, h)
  <2>1. SUFFICES ASSUME NEW l \in DOMAIN t, NEW m \in DOMAIN t, l < m PROVE Before(t[l].containers, t[m].containers, h)
    OBVIOUS
  <2>2. l \in DOMAIN kept
    BY <2>1, <1>6, <1>7
  <2>3. l + by \in DOMAIN hs /\ t[l] = hs[l + by] BY <2>2, <1>6, <1>7
  <2>4. CASE m \in DOMAIN kept
    <3>1. m + by \in DOMAIN hs /\ t[m] = hs[m + by] BY <2>4, <1>6, <1>7
    <3>2. l + by < m + by BY <2>1, <2>2, <2>4, <1>6
    <3> QED BY <2>3, <3>1, <3>2 DEF JournalsOK
  <2>5. CASE m = Len(kept) + 1
    BY <2>3, <2>5, <1>2, <1>7, <1>8
  <2> QED BY <2>4, <2>5, <1>7
<1>11. Listed(es) /\ DOMAIN es = {} /\ Len(es) = 0 BY ListEmpty
<1>12. \A c : Before(c, es, h) /\ ContainersOK(es, h, game) BY <1>11 DEF Before, ContainersOK
<1>13. game.properties \in Nat /\ game.objects \in Nat BY GameTypes
<1>14. Len(t) <= game.depth BY <1>6, <1>7
<1>15. JournalsOK(h, game, es, es, t)
  <2>1. Listed(es) /\ Len(es) <= game.properties /\ \A i \in DOMAIN es : PropertyOK(es[i], h, game)
    BY <1>11, <1>13
  <2>2. Len(es) <= game.objects /\ ContainersOK(es, h, game)
    BY <1>11, <1>12, <1>13
  <2>3. \A l \in DOMAIN t : Before(t[l].containers, es, h)
    BY <1>12
  <2> HIDE DEF Longer
  <2> QED BY <2>1, <2>2, <2>3, <1>7, <1>9, <1>10, <1>14 DEF JournalsOK
<1> QED BY <1>4, <1>6, <1>7, <1>15 DEF Longer

(* And with them the worlds the model remembers. *)
LEMMA TakenOK ==
  ASSUME AllOK, TakeJournals
  PROVE  /\ JournalsOK(heap, game, journal', containers', history')
         /\ Listed(past') /\ Len(past') = Len(history')
<1>1. /\ JournalsOK(heap, game, journal, containers, history) /\ game \in Games /\ game.depth \in Nat \ {0}
      /\ Listed(past) /\ Len(past) = Len(history)
  BY GameTypes DEF AllOK, HeapOK, OtherTypes
<1>2. journal' = <<>> /\ containers' = <<>> BY DEF TakeJournals
<1>3. CASE journal = <<>> /\ containers = <<>>
  <2>1. history' = history /\ past' = past BY <1>3 DEF TakeJournals
  <2> QED BY <2>1, <1>1, <1>2, <1>3
<1>4. CASE ~(journal = <<>> /\ containers = <<>>)
  <2>1. /\ history' = Append(Kept(history), [properties |-> journal, containers |-> containers])
        /\ past' = Append(Kept(past), before)
    BY <1>4 DEF TakeJournals
  <2>2. PICK es : es = <<>> OBVIOUS
  <2>3. /\ JournalsOK(heap, game, es, es, history')
        /\ Longer(history, history')
    BY <1>1, <2>1, <2>2, HistoryTaken
  <2>4. Len(history) <= game.depth /\ Len(history) \in Nat
    BY <1>1, ListFacts DEF JournalsOK
  <2>5. PICK kept : kept = Kept(past) OBVIOUS
  <2>6. Shifted(past, kept, IF Len(past) >= game.depth THEN 1 ELSE 0)
    BY <1>1, <2>4, <2>5, KeptShifted
  <2>7. Listed(past') /\ Len(past') = Len(kept) + 1
    BY <2>1, <2>5, <2>6, ListAppend DEF Shifted, Appended
  <2>8. Len(kept) = Len(past) - (IF Len(past) >= game.depth THEN 1 ELSE 0)
    BY <2>6 DEF Shifted
  <2>9. Len(past') = Len(history')
    BY <1>1, <2>3, <2>4, <2>7, <2>8 DEF Longer
  <2> QED BY <1>2, <2>2, <2>3, <2>7, <2>9
<1> QED BY <1>3, <1>4

(* savepoint. *)
LEMMA SavepointOK ==
  ASSUME AllOK, game' = game, Savepoint
  PROVE  AllOK' /\ Descends(heap, heap')
<1>1. /\ UNCHANGED <<heap, default_lifetime, constructions, exceptions, phase, despawned, calls>>
      /\ TakeJournals /\ journalling' = TRUE
  BY DEF Savepoint, frames
<1>2. JournalsOK(heap, game, journal', containers', history') /\ Listed(past') /\ Len(past') = Len(history')
  BY <1>1, TakenOK
<1>3. OtherTypes' BY <1>1, <1>2 DEF AllOK, OtherTypes, MaxCalls
<1>4. Keeps(heap, heap') BY <1>1, KeepsSelf DEF AllOK
<1> QED BY <1>1, <1>2, <1>3, <1>4, KeptOK

(* What the end of a turn leaves. *)
TurnGone(h, k) ==
  /\ HeapOK(k, game) /\ Follows(h, k) /\ k.next_identity = h.next_identity /\ k.status = h.status
  /\ \A a \in h.roots : Live(k, a) => Loyal(h, k, a)

(* release_turn_records destroys roots that nobody owns, promotes the      *)
(* rest, and touches no other root.                                        *)
LEMMA TurnReleasedOK ==
  ASSUME NEW h, HeapOK(h, game), NEW k, k = TurnReleased(h)
  PROVE  TurnGone(h, k)
<1> DEFINE turn == {o \in LiveHandles(h) : Of(h, o).lifetime = "Turn"}
           owned(o) == Of(h, o).parent # Nil /\ World(h, Of(h, o).parent)
           R == {o \in turn : Of(h, o).parent = Nil}
           P == {o \in turn : owned(o)}
           m == PromotedAll(h, P)
           slots == {o.slot : o \in R}
           d == Destroyed(m, slots)
           S == Subtree(m, slots)
<1>1. k = [d EXCEPT !.roots = @ \ R]
  BY DEF TurnReleased
<1>2. R \in SUBSET h.roots
  <2>1. SUFFICES ASSUME NEW o \in R PROVE o \in h.roots OBVIOUS
  <2>2. PICK s \in DOMAIN h.records : o = HandleAt(h, s) BY DEF LiveHandles
  <2>3. o.slot = s BY <2>2, HandleFacts
  <2>4. h.records[s].parent = Nil BY <2>1, <2>3 DEF Of
  <2> QED BY <2>2, <2>4 DEF HeapOK, TreeOK
<1>3. Alike(h, m)
  <2>1. IsFiniteSet(P)
    <3>1. IsFiniteSet(DOMAIN h.records) BY HeapFinite
    <3>2. IsFiniteSet(LiveHandles(h))
      <4> DEFINE f == [s \in DOMAIN h.records |-> HandleAt(h, s)]
      <4>1. f \in Surjection(DOMAIN h.records, LiveHandles(h))
        BY DEF Surjection, LiveHandles
      <4> HIDE DEF f
      <4> QED BY <3>1, <4>1, FS_Surjection
    <3> QED BY <3>2, FS_Subset
  <2> HIDE DEF P
  <2> QED BY <2>1, PromotedAllAlike
<1>4. Destroys(m, d, S)
  <2> HIDE DEF m, slots
  <2>1. Shaped(m) BY <1>3 DEF Alike, HeapOK
  <2> QED BY <2>1, DestroyedIs
<1>5. HeapOK(m, game) /\ m.roots = h.roots /\ m.next_identity = h.next_identity /\ m.status = h.status
  BY <1>3 DEF Alike
<1>6. /\ k.records = d.records /\ k.free = d.free /\ k.next_identity = d.next_identity
      /\ k.charged = d.charged /\ k.status = d.status /\ k.roots = d.roots \ R /\ Shaped(k)
  <2> HIDE DEF d, R
  <2> QED BY <1>1, <1>4 DEF Destroys, Shaped
<1>7. k.status \in {"live", "terminal", "aborted"} /\ k.roots = m.roots \ R /\ k.status = m.status
      /\ k.next_identity = m.next_identity
  <2> HIDE DEF d, R, m, S
  <2> QED BY <1>4, <1>5, <1>6 DEF Destroys, HeapOK
<1>8. RootsGone(m, k, R, S)
  <2>1. R \in SUBSET m.roots BY <1>2, <1>5
  <2>3. /\ k.records = Destroyed(m, {x.slot : x \in R}).records
        /\ k.free = Destroyed(m, {x.slot : x \in R}).free
        /\ k.next_identity = Destroyed(m, {x.slot : x \in R}).next_identity
        /\ k.charged = Destroyed(m, {x.slot : x \in R}).charged
    BY <1>6
  <2>2. S = Subtree(m, {x.slot : x \in R}) OBVIOUS
  <2> HIDE DEF R, S, slots, d, m
  <2> QED BY <2>1, <2>2, <2>3, <1>5, <1>6, <1>7, RootsCut
<1>9. HeapOK(k, game) /\ Follows(m, k) /\ Cuts(m, k, S) /\ \A a \in m.roots \ R : Loyal(m, k, a)
  BY <1>8 DEF RootsGone
<1>10. Keeps(h, m) BY <1>3, AlikeKeeps
<1>11. \A a \in h.roots : Loyal(h, m, a)
  <2> HIDE DEF m
  <2> QED BY <1>3 DEF Alike, SameButLife, Loyal
<1>12. slots \subseteq S
  <2>1. Rooted(m, slots)
    <3>1. slots \subseteq DOMAIN m.records
      <4>1. \A o \in m.roots : o.slot \in DOMAIN m.records BY <1>5 DEF HeapOK, TreeOK, Live
      <4> HIDE DEF m
      <4> QED BY <4>1, <1>2, <1>5
    <3> HIDE DEF m, slots
    <3> QED BY <3>1, <1>5, HeapFinite DEF Rooted
  <2> HIDE DEF m, slots
  <2> QED BY <2>1, SubtreeClosed
<1>13. ASSUME NEW a \in h.roots, Live(k, a) PROVE Loyal(h, k, a)
  <2>1. a \notin R
    <3>1. SUFFICES ASSUME a \in R PROVE FALSE OBVIOUS
    <3>2. a.slot \in S BY <1>12, <3>1
    <3> HIDE DEF S, m
    <3> QED BY <1>9, <1>13, <3>2 DEF Cuts, Live
  <2> HIDE DEF m, R
  <2> QED BY <2>1, <1>5, <1>9, <1>11, LoyalJoin
<1>14. Follows(h, k)
  <2> HIDE DEF m
  <2> QED BY <1>5, <1>9, <1>10, FollowsJoin DEF Keeps
<1> HIDE DEF m
<1> QED BY <1>5, <1>7, <1>9, <1>13, <1>14 DEF TurnGone

(* The turn ends. *)
LEMMA EndOK ==
  ASSUME AllOK, game' = game, End
  PROVE  AllOK' /\ Descends(heap, heap')
<1>1. /\ UNCHANGED <<constructions, exceptions, despawned, calls>>
      /\ TakeJournals /\ journalling' = FALSE /\ default_lifetime' = "World" /\ phase' = "between"
      /\ heap.status = "live" /\ constructions = <<>> /\ \A e \in exceptions : ~e.claimed
      /\ heap' = TurnReleased(heap)
  BY DEF End, frames, Outside
<1>2. JournalsOK(heap, game, journal', containers', history') /\ Listed(past') /\ Len(past') = Len(history')
  BY <1>1, TakenOK
<1>3. OtherTypes' BY <1>1, <1>2 DEF AllOK, OtherTypes, MaxCalls
<1>4. HeapOK(heap, game) /\ TurnGone(heap, heap')
  BY <1>1, TurnReleasedOK DEF AllOK
<1>5. HeapOK(heap', game) /\ Follows(heap, heap') /\ heap'.next_identity = heap.next_identity
      /\ Descends(heap, heap')
  BY <1>4, FollowsDescends DEF TurnGone
<1>6. JournalsOK(heap', game, journal', containers', history')
  BY <1>2, <1>4, <1>5, JournalsLater
<1>7. PICK n : n = Len(Statics) OBVIOUS
<1>8. /\ n < heap.next_identity /\ FrameTypes(heap.next_identity, constructions, exceptions)
      /\ despawned \subseteq Old(heap.next_identity)
      /\ FramesOK(heap, n, constructions, exceptions, despawned)
  BY <1>1, <1>7 DEF AllOK, FramesWell
<1>9. FramesOK(heap', n, constructions, exceptions, despawned)
  <2>1. DOMAIN constructions = {} BY <1>1
  <2>2. ASSUME NEW e \in exceptions, Live(heap', e.activation) PROVE FrameOK(e, heap', n, despawned)
    <3>1. e.activation \in Old(heap.next_identity) /\ e.object \in Old(heap.next_identity)
      BY <1>8 DEF FrameTypes
    <3>2. Live(heap, e.activation) BY <1>4, <1>5, <2>2, <3>1, LiveBefore
    <3>3. FrameOK(e, heap, n, despawned) BY <1>8, <3>2 DEF FramesOK
    <3>4. Loyal(heap, heap', e.activation) BY <1>4, <2>2, <3>3 DEF FrameOK, TurnGone
    <3> QED BY <1>4, <1>5, <3>1, <3>3, <3>4, FrameLater
  <2> QED BY <1>1, <1>8, <2>1, <2>2 DEF FramesOK
<1>10. FramesWell(heap', n, constructions, exceptions, despawned)
  BY <1>5, <1>8, <1>9 DEF FramesWell
<1>11. n = Len(Statics)' BY <1>7 DEF Statics
<1>12. FramesWell(heap, Len(Statics), constructions, exceptions, despawned)'
  BY <1>1, <1>10, <1>11
<1> QED BY <1>3, <1>5, <1>6, <1>12 DEF AllOK

(***************************************************************************)
(* Constructors and exceptions                                             *)
(***************************************************************************)
(* An action of a constructor or an exception keeps the invariant. *)
LEMMA FramedOK ==
  ASSUME AllOK, game' = game, HeapOK(heap', game), Descends(heap, heap'),
         JournalsOK(heap', game, journal', containers', history'), OtherTypes',
         FramesWell(heap', Len(Statics), constructions', exceptions', despawned')
  PROVE  AllOK' /\ Descends(heap, heap')
<1>1. Len(Statics') = Len(Statics) BY DEF Statics
<1>2. HeapOK(heap, game)' OBVIOUS
<1>3. JournalsOK(heap, game, journal, containers, history)' OBVIOUS
<1>4. FramesWell(heap, Len(Statics), constructions, exceptions, despawned)' BY <1>1
<1> QED BY <1>2, <1>3, <1>4 DEF AllOK

(* The activation goes, and every other stays with what it holds. *)
Frees(h, k, a) ==
  /\ HeapOK(k, game) /\ Follows(h, k)
  /\ k.status = "live" => \A b \in h.roots \ {a} : Loyal(h, k, b)

(* The instance is handed out and the activation destroyed. *)
LEMMA PublishedOK ==
  ASSUME NEW h, HeapOK(h, game), NEW c, c.activation \in h.roots, Live(h, c.object),
         c.object \in Old(h.next_identity), Of(h, c.object).parent = c.activation,
         DOMAIN Of(h, c.activation).owned = {}, NEW k, k = Published(h, c)
  PROVE  Frees(h, k, c.activation)
<1> DEFINE a == c.activation
           o == c.object
<1>1. PICK m : m = Orphaned(h, a, o) OBVIOUS
<1>2. Live(h, a) /\ a \in Old(h.next_identity) /\ o \in Of(h, a).children
  <2>1. Live(h, a) /\ a \in Old(h.next_identity) BY DEF HeapOK, TreeOK
  <2>2. a # Nil /\ HandleAt(h, o.slot) = o /\ o.slot \in DOMAIN h.records
    BY <2>1, HandleFacts DEF Live
  <2>3. h.records[o.slot].parent = a BY DEF Of
  <2> QED BY <2>1, <2>2, <2>3 DEF HeapOK, TreeOK
<1>8. DOMAIN Of(h, a).owned = {} OBVIOUS
<1> HIDE DEF a, o
<1>3. HeapOK(m, game) /\ Follows(h, m) /\ (\A b \in h.roots \ {a} : Loyal(h, m, b)) /\ m.roots = h.roots \cup {o}
  BY <1>1, <1>2, <1>8, OrphanedOK
<1>4. k = DestroyedRoot(m, a) /\ a \in m.roots BY <1>1, <1>3 DEF Published, a, o
<1>5. HeapOK(k, game) /\ Follows(m, k) /\ \A b \in m.roots \ {a} : Loyal(m, k, b)
  BY <1>3, <1>4, DestroyedRootOK
<1>6. Follows(h, k) BY <1>3, <1>5, FollowsJoin
<1>7. \A b \in h.roots \ {a} : Loyal(h, k, b)
  BY <1>3, <1>5, LoyalJoin
<1> QED BY <1>5, <1>6, <1>7 DEF Frees, a

(* Or nothing happens, or everything fails, or a root goes. *)
LEMMA FreedOK ==
  ASSUME NEW h, HeapOK(h, game), NEW a,
         NEW k, k = h \/ k = Failed(h) \/ (a \in h.roots /\ k = DestroyedRoot(h, a))
  PROVE  Frees(h, k, a)
<1>1. CASE k = h
  <2>1. Keeps(h, k) BY <1>1, KeepsSelf
  <2>2. \A b \in h.roots : Loyal(h, k, b) BY <1>1 DEF Loyal
  <2> QED BY <2>1, <2>2 DEF Frees, Keeps
<1>2. CASE k = Failed(h)
  BY <1>2, FailedOK DEF Frees
<1>3. CASE a \in h.roots /\ k = DestroyedRoot(h, a)
  BY <1>3, DestroyedRootOK DEF Frees
<1> QED BY <1>1, <1>2, <1>3

(* The other frames stay. *)
LEMMA FramesFreed ==
  ASSUME NEW h, HeapOK(h, game), NEW a, NEW k, Frees(h, k, a), NEW n, NEW cs, NEW es, NEW ds,
         n < h.next_identity, n \in Int, FrameTypes(h.next_identity, cs, es), ds \subseteq Old(h.next_identity),
         FramesOK(h, n, cs, es, ds), a \notin Activations(cs, es)
  PROVE  FramesWell(k, n, cs, es, ds)
<1>1. HeapOK(k, game) /\ Follows(h, k) /\ Descends(h, k) BY FollowsDescends DEF Frees
<1>2. h.next_identity \in Int /\ k.next_identity \in Int /\ h.next_identity <= k.next_identity
  BY <1>1 DEF HeapOK, Descends
<1>3. n < k.next_identity /\ FrameTypes(k.next_identity, cs, es) /\ ds \subseteq Old(k.next_identity)
  <2>1. FrameTypes(k.next_identity, cs, es) BY <1>2, TypesLater
  <2>2. ds \subseteq Old(k.next_identity) BY <1>2, OldGrows
  <2> QED BY <1>2, <2>1, <2>2
<1>4. ASSUME k.status = "live" PROVE FramesOK(k, n, cs, es, ds)
  <2>1. \A b \in Activations(cs, es) \cap h.roots : Loyal(h, k, b) BY <1>4 DEF Frees
  <2> QED BY <1>1, <2>1, FramesLater
<1> QED BY <1>3, <1>4 DEF FramesWell

(* The innermost constructor is done. *)
Popped(h, m, n, cs, es, ds, front, c) ==
  /\ c.activation \in Old(m) /\ c.object \in Old(m) /\ FrameOK(c, h, n, ds)
  /\ FrameTypes(m, front, es) /\ FramesOK(h, n, front, es, ds)
  /\ c.activation \notin Activations(front, es)

LEMMA FramePopped ==
  ASSUME NEW h, NEW m, NEW n, NEW cs, NEW es, NEW ds, FrameTypes(m, cs, es), FramesOK(h, n, cs, es, ds), cs # <<>>,
         NEW front, front = Front(cs), NEW c, c = Last(cs)
  PROVE  Popped(h, m, n, cs, es, ds, front, c)
<1>1. Listed(cs) /\ Shortened(cs, front, 0) /\ Len(cs) \in DOMAIN cs /\ c = cs[Len(cs)]
  BY ListFront DEF FrameTypes
<1>2. Len(cs) \in Nat /\ DOMAIN cs = 1..Len(cs) BY <1>1, ListFacts
<1>3. /\ Listed(front) /\ DOMAIN front = 1..(Len(cs) - 1)
      /\ \A i \in DOMAIN front : i + 0 \in DOMAIN cs /\ front[i] = cs[i + 0]
  BY <1>1 DEF Shortened
<1>4. \A i \in DOMAIN front : i \in DOMAIN cs /\ front[i] = cs[i] /\ i # Len(cs)
  <2>1. \A i \in DOMAIN front : i + 0 = i /\ i # Len(cs) BY <1>2, <1>3
  <2> QED BY <1>3, <2>1
<1>5. c.activation \in Old(m) /\ c.object \in Old(m)
  BY <1>1 DEF FrameTypes
<1>6. FrameOK(c, h, n, ds) BY <1>1 DEF FramesOK
<1>7. FrameTypes(m, front, es) BY <1>3, <1>4 DEF FrameTypes
<1>8. FramesOK(h, n, front, es, ds)
  BY <1>4 DEF FramesOK
<1>9. \A i \in DOMAIN front : front[i].activation # c.activation
  BY <1>1, <1>4 DEF FramesOK
<1>10. \A e \in es : e.activation # c.activation
  BY <1>1 DEF FramesOK
<1> QED BY <1>5, <1>6, <1>7, <1>8, <1>9, <1>10 DEF Popped, Activations

Framed ==
  /\ UNCHANGED <<journal, containers, journalling, history, default_lifetime, phase, past, despawned, calls>>

(* And the invariant kept. *)
LEMMA PoppedOK ==
  ASSUME AllOK, game' = game, Framed, heap.status = "live", constructions # <<>>,
         constructions' = Front(constructions), exceptions' = exceptions,
         Frees(heap, heap', Last(constructions).activation)
  PROVE  AllOK' /\ Descends(heap, heap')
<1>1. PICK n : n = Len(Statics) OBVIOUS
<1>2. /\ n < heap.next_identity /\ FrameTypes(heap.next_identity, constructions, exceptions) /\ n \in Int
      /\ despawned \subseteq Old(heap.next_identity)
      /\ FramesOK(heap, n, constructions, exceptions, despawned)
  BY <1>1, GameTypes DEF AllOK, FramesWell, HeapOK, Statics
<1>3. PICK c : c = Last(constructions) OBVIOUS
<1>4. Popped(heap, heap.next_identity, n, constructions, exceptions, despawned, constructions', c)
  BY <1>2, <1>3, FramePopped
<1>5. HeapOK(heap, game) BY DEF AllOK
<1>6. FramesWell(heap', n, constructions', exceptions, despawned)
  BY <1>2, <1>3, <1>4, <1>5, FramesFreed DEF Popped
<1>7. HeapOK(heap', game) /\ Descends(heap, heap') /\ Follows(heap, heap')
  BY FollowsDescends DEF Frees
<1>8. JournalsOK(heap', game, journal', containers', history')
  BY <1>5, <1>7, JournalsLater DEF AllOK, Framed
<1>9. OtherTypes' BY DEF AllOK, OtherTypes, MaxCalls, Framed
<1> QED BY <1>1, <1>6, <1>7, <1>8, <1>9, FramedOK DEF Framed

(* The innermost constructor has its activation. *)
LEMMA RunningOK ==
  ASSUME AllOK, heap.status = "live", constructions # <<>>, NEW c, c = Last(constructions)
  PROVE  /\ c.activation \in heap.roots /\ c.object \in Old(heap.next_identity)
         /\ Live(heap, c.object) => Of(heap, c.object).parent = c.activation
         /\ DOMAIN Of(heap, c.activation).owned = {}
<1>1. PICK n : n = Len(Statics) OBVIOUS
<1>2. /\ FrameTypes(heap.next_identity, constructions, exceptions)
      /\ FramesOK(heap, n, constructions, exceptions, despawned)
  BY <1>1 DEF AllOK, FramesWell
<1>3. PICK front : front = Front(constructions) OBVIOUS
<1>4. Popped(heap, heap.next_identity, n, constructions, exceptions, despawned, front, c)
  BY <1>2, <1>3, FramePopped
<1> QED BY <1>4 DEF Popped, FrameOK

(* The constructor returns or throws. *)
LEMMA FinishPublishedOK ==
  ASSUME AllOK, game' = game, FinishPublished
  PROVE  AllOK' /\ Descends(heap, heap')
<1>1. PICK c : c = Last(constructions) OBVIOUS
<1>2. /\ Framed /\ heap.status = "live" /\ constructions # <<>>
      /\ constructions' = Front(constructions) /\ exceptions' = exceptions
      /\ heap' = IF Live(heap, c.object) THEN Published(heap, c) ELSE heap
  BY <1>1 DEF FinishPublished, Framed, journals
<1>3. /\ c.activation \in heap.roots /\ c.object \in Old(heap.next_identity) /\ HeapOK(heap, game)
      /\ Live(heap, c.object) => Of(heap, c.object).parent = c.activation
      /\ DOMAIN Of(heap, c.activation).owned = {}
  BY <1>1, <1>2, RunningOK DEF AllOK
<1>4. Frees(heap, heap', c.activation)
  BY <1>2, <1>3, PublishedOK, FreedOK
<1> QED BY <1>1, <1>2, <1>4, PoppedOK

LEMMA UnwindOK ==
  ASSUME AllOK, game' = game, Unwind
  PROVE  AllOK' /\ Descends(heap, heap')
<1>1. PICK c : c = Last(constructions) OBVIOUS
<1>2. /\ Framed /\ heap.status = "live" /\ constructions # <<>>
      /\ constructions' = Front(constructions) /\ exceptions' = exceptions
      /\ heap' = IF c.owner = "Owned" THEN DestroyedRoot(heap, c.activation)
                 ELSE IF Live(heap, c.object) THEN Published(heap, c)
                 ELSE Failed(heap)
  BY <1>1 DEF Unwind, Framed, journals
<1>3. /\ c.activation \in heap.roots /\ c.object \in Old(heap.next_identity) /\ HeapOK(heap, game)
      /\ Live(heap, c.object) => Of(heap, c.object).parent = c.activation
      /\ DOMAIN Of(heap, c.activation).owned = {}
  BY <1>1, <1>2, RunningOK DEF AllOK
<1>4. Frees(heap, heap', c.activation)
  BY <1>2, <1>3, PublishedOK, FreedOK
<1> QED BY <1>1, <1>2, <1>4, PoppedOK

(* The frames change and the heap does not. *)
LEMMA StillOK ==
  ASSUME AllOK, game' = game, Framed, UNCHANGED heap,
         FramesWell(heap, Len(Statics), constructions', exceptions', despawned)
  PROVE  AllOK' /\ Descends(heap, heap')
<1>1. HeapOK(heap', game) /\ Descends(heap, heap')
  <2>1. Keeps(heap, heap) BY KeepsSelf DEF AllOK
  <2> QED BY <2>1, FollowsDescends DEF Keeps
<1>2. JournalsOK(heap', game, journal', containers', history')
  BY DEF AllOK, Framed
<1>3. OtherTypes' BY DEF AllOK, OtherTypes, MaxCalls, Framed
<1>4. FramesWell(heap', Len(Statics), constructions', exceptions', despawned')
  BY DEF Framed
<1> QED BY <1>1, <1>2, <1>3, <1>4, FramedOK

(* The exception is thrown, claimed by a handler, and released. *)
LEMMA ThrowOK ==
  ASSUME AllOK, game' = game, Throw
  PROVE  AllOK' /\ Descends(heap, heap')
<1>1. PICK c : c = Last(constructions) OBVIOUS
<1>2. PICK x : x = [activation |-> c.activation, object |-> c.object, claimed |-> FALSE] OBVIOUS
<1>3. /\ Framed /\ UNCHANGED heap /\ heap.status = "live" /\ constructions # <<>>
      /\ constructions' = Front(constructions) /\ exceptions' = exceptions \cup {x}
  BY <1>1, <1>2 DEF Throw, Framed, journals
<1>4. PICK n : n = Len(Statics) OBVIOUS
<1>5. /\ n < heap.next_identity /\ FrameTypes(heap.next_identity, constructions, exceptions)
      /\ despawned \subseteq Old(heap.next_identity)
      /\ FramesOK(heap, n, constructions, exceptions, despawned)
  BY <1>3, <1>4 DEF AllOK, FramesWell
<1>6. Popped(heap, heap.next_identity, n, constructions, exceptions, despawned, constructions', c)
  BY <1>1, <1>3, <1>5, FramePopped
<1>7. x.activation = c.activation /\ x.object = c.object /\ x.claimed = FALSE
      /\ x \in [activation : {c.activation}, object : {c.object}, claimed : {FALSE}]
  BY <1>2
<1>8. x \in [activation : Old(heap.next_identity), object : Old(heap.next_identity), claimed : BOOLEAN]
  BY <1>6, <1>7 DEF Popped
<1>9. FrameTypes(heap.next_identity, constructions', exceptions')
  BY <1>3, <1>6, <1>8 DEF Popped, FrameTypes
<1>10. FrameOK(x, heap, n, despawned)
  BY <1>6, <1>7 DEF Popped, FrameOK
<1>11. /\ \A i \in DOMAIN constructions' : constructions'[i].activation # x.activation
       /\ \A e \in exceptions : e.activation # x.activation
  BY <1>6, <1>7 DEF Popped, Activations
<1>12. FramesOK(heap, n, constructions', exceptions', despawned)
  <2>1. FramesOK(heap, n, constructions', exceptions, despawned) BY <1>6 DEF Popped
  <2> QED BY <2>1, <1>3, <1>7, <1>10, <1>11 DEF FramesOK
<1>13. FramesWell(heap, n, constructions', exceptions', despawned)
  BY <1>5, <1>9, <1>12 DEF FramesWell
<1> QED BY <1>3, <1>4, <1>13, StillOK

LEMMA ClaimOK ==
  ASSUME AllOK, game' = game, NEW e, Claim(e)
  PROVE  AllOK' /\ Descends(heap, heap')
<1>1. PICK x : x = [e EXCEPT !.claimed = TRUE] OBVIOUS
<1>2. /\ Framed /\ UNCHANGED heap /\ heap.status = "live" /\ e \in exceptions /\ Live(heap, e.activation)
      /\ constructions' = constructions /\ exceptions' = (exceptions \ {e}) \cup {x}
  BY <1>1 DEF Claim, Framed, journals
<1>3. PICK n : n = Len(Statics) OBVIOUS
<1>4. /\ n < heap.next_identity /\ FrameTypes(heap.next_identity, constructions, exceptions)
      /\ despawned \subseteq Old(heap.next_identity)
      /\ FramesOK(heap, n, constructions, exceptions, despawned)
  BY <1>2, <1>3 DEF AllOK, FramesWell
<1>5. e \in [activation : Old(heap.next_identity), object : Old(heap.next_identity), claimed : BOOLEAN]
  BY <1>2, <1>4 DEF FrameTypes
<1>6. x.activation = e.activation /\ x.object = e.object /\ x.claimed = TRUE
      /\ x \in [activation : Old(heap.next_identity), object : Old(heap.next_identity), claimed : BOOLEAN]
  BY <1>1, <1>5
<1>7. FrameTypes(heap.next_identity, constructions', exceptions')
  BY <1>2, <1>4, <1>6 DEF FrameTypes
<1>8. FrameOK(x, heap, n, despawned)
  <2>1. FrameOK(e, heap, n, despawned) BY <1>2, <1>4 DEF FramesOK
  <2> QED BY <2>1, <1>6 DEF FrameOK
<1>9. /\ \A i \in DOMAIN constructions : constructions[i].activation # x.activation
      /\ \A f \in exceptions \ {e} : f.activation # x.activation
  BY <1>2, <1>4, <1>6 DEF FramesOK
<1>10. FramesOK(heap, n, constructions', exceptions', despawned)
  <2>1. \A f \in exceptions' : f = x \/ f \in exceptions \ {e} BY <1>2
  <2> QED BY <2>1, <1>2, <1>4, <1>6, <1>8, <1>9 DEF FramesOK
<1>11. FramesWell(heap, n, constructions', exceptions', despawned)
  BY <1>4, <1>7, <1>10 DEF FramesWell
<1> QED BY <1>2, <1>3, <1>11, StillOK

LEMMA ReleaseOK ==
  ASSUME AllOK, game' = game, NEW e, Release(e)
  PROVE  AllOK' /\ Descends(heap, heap')
<1>1. /\ Framed /\ heap.status = "live" /\ e \in exceptions /\ Live(heap, e.activation)
      /\ constructions' = constructions /\ exceptions' = exceptions \ {e}
      /\ heap' = DestroyedRoot(heap, e.activation)
  BY DEF Release, Framed, journals
<1>2. PICK n : n = Len(Statics) OBVIOUS
<1>3. /\ n < heap.next_identity /\ FrameTypes(heap.next_identity, constructions, exceptions) /\ n \in Int
      /\ despawned \subseteq Old(heap.next_identity)
      /\ FramesOK(heap, n, constructions, exceptions, despawned) /\ HeapOK(heap, game)
  BY <1>1, <1>2, GameTypes DEF AllOK, FramesWell, HeapOK, Statics
<1>4. e.activation \in heap.roots
  BY <1>1, <1>3 DEF FramesOK, FrameOK
<1>5. Frees(heap, heap', e.activation)
  BY <1>1, <1>3, <1>4, FreedOK
<1>6. FrameTypes(heap.next_identity, constructions, exceptions \ {e})
  BY <1>3 DEF FrameTypes
<1>7. FramesOK(heap, n, constructions, exceptions \ {e}, despawned)
  BY <1>3 DEF FramesOK
<1>8. e.activation \notin Activations(constructions, exceptions \ {e})
  BY <1>1, <1>3 DEF FramesOK, Activations
<1>9. FramesWell(heap', n, constructions', exceptions', despawned)
  BY <1>1, <1>3, <1>5, <1>6, <1>7, <1>8, FramesFreed
<1>10. HeapOK(heap', game) /\ Descends(heap, heap') /\ Follows(heap, heap')
  BY <1>5, FollowsDescends DEF Frees
<1>11. JournalsOK(heap', game, journal', containers', history')
  BY <1>1, <1>3, <1>10, JournalsLater DEF AllOK, Framed
<1>12. OtherTypes' BY <1>1 DEF AllOK, OtherTypes, MaxCalls, Framed
<1> QED BY <1>1, <1>2, <1>9, <1>10, <1>11, <1>12, FramedOK DEF Framed

(* An instance has the class as its prototype. *)
Instanced(r, q, n, g) ==
  /\ RecordOK(q, n, g) /\ Charge(q) = Charge(r) + 1
  /\ q.born = r.born /\ q.parent = r.parent /\ q.children = r.children /\ q.owned = r.owned

LEMMA PrototypeSet ==
  ASSUME NEW r, NEW n, NEW g, RecordOK(r, n, g), r.prototypes = 0, NEW q, q = [r EXCEPT !.prototypes = 1]
  PROVE  Instanced(r, q, n, g)
<1>1. r \in RecordSet(r, n) BY DEF RecordOK, RecordSet
<1>2. /\ q.born = r.born /\ q.lifetime = r.lifetime /\ q.kind = r.kind /\ q.parent = r.parent
      /\ q.children = r.children /\ q.properties = r.properties /\ q.owned = r.owned
      /\ q.elements = r.elements /\ q.capacity = r.capacity /\ q.prototypes = 1
      /\ q \in [born : {q.born}, lifetime : {q.lifetime}, kind : {q.kind}, parent : {q.parent},
                children : {q.children}, properties : {q.properties}, owned : {q.owned},
                elements : {q.elements}, capacity : {q.capacity}, prototypes : {q.prototypes}]
  BY ONLY <1>1, q = [r EXCEPT !.prototypes = 1] DEF RecordSet
<1>3. q \in RecordSet(q, n)
  BY <1>1, <1>2 DEF RecordSet
<1>4. RecordOK(q, n, g)
  BY <1>2, <1>3 DEF RecordOK, RecordSet
<1>5. Charge(q) = Charge(r) + 1
  <2>1. Charge(r) \in Nat BY ChargeType
  <2>2. r.capacity \in Nat BY <1>1 DEF RecordSet
  <2>3. Cardinality(DOMAIN r.properties) \in Nat /\ Cardinality(DOMAIN r.elements) \in Nat
    BY FS_CardinalityType DEF RecordOK, ElementsOK
  <2> QED BY <1>2, <2>2, <2>3 DEF Charge
<1> QED BY <1>2, <1>4, <1>5 DEF Instanced

(* What a constructor starts with: an activation and its instance. *)
Begins(h, k, a, o) ==
  /\ Keeps(h, k) /\ k.status = h.status
  /\ a \in k.roots /\ a.born = h.next_identity /\ Live(k, o) /\ a \in Old(k.next_identity)
  /\ o \in Old(k.next_identity) /\ Of(k, o).parent = a
  /\ Of(k, a).kind = "plain" /\ Of(k, a).prototypes = 0 /\ DOMAIN Of(k, a).owned = {}

(* A constructor begins, unless the prototype is one property too many. *)
Constructs(h, s, a, o, adopted) ==
  /\ Keeps(h, adopted)
  /\ adopted.charged < game.properties =>
       \A k : k = [adopted EXCEPT !.records[s].prototypes = 1, !.charged = @ + 1] => Begins(h, k, a, o)

(* Two records are created and one adopts the other. *)
LEMMA BegunOK ==
  ASSUME NEW h, HeapOK(h, game), NEW l \in {"World", "Turn"}, CanCreate(h), NEW x \in Slots(h),
         NEW first, first = Created(h, x, l), CanCreate(first), NEW a, a = HandleAt(first, x),
         NEW s \in Slots(first), NEW second, second = Created(first, s, l), NEW o, o = HandleAt(second, s),
         NEW adopted, adopted = Adopted(second, a, o)
  PROVE  Constructs(h, s, a, o, adopted)
<1>1. /\ HeapOK(first, game) /\ Follows(h, first) /\ \A b \in h.roots : Loyal(h, first, b)
      /\ x \notin DOMAIN h.records /\ DOMAIN first.records = DOMAIN h.records \cup {x}
      /\ first.records[x] = Blank(h.next_identity, l)
      /\ first.roots = h.roots \cup {[slot |-> x, born |-> h.next_identity]}
      /\ first.charged = h.charged /\ first.status = h.status /\ first.next_identity = h.next_identity + 1
  BY CreatedOK
<1>2. /\ HeapOK(second, game) /\ Follows(first, second) /\ \A b \in first.roots : Loyal(first, second, b)
      /\ s \notin DOMAIN first.records /\ DOMAIN second.records = DOMAIN first.records \cup {s}
      /\ second.records[s] = Blank(first.next_identity, l)
      /\ \A t \in DOMAIN first.records : second.records[t] = first.records[t]
      /\ second.roots = first.roots \cup {[slot |-> s, born |-> first.next_identity]}
      /\ second.charged = first.charged /\ second.status = first.status
      /\ second.next_identity = first.next_identity + 1
  BY <1>1, CreatedOK
<1>3. h.next_identity \in Nat BY DEF HeapOK
<1>4. first.records[x].born = h.next_identity /\ second.records[s].born = first.next_identity
      /\ second.records[s].prototypes = 0
      /\ first.records[x].kind = "plain" /\ first.records[x].prototypes = 0 /\ DOMAIN first.records[x].owned = {}
  BY <1>1, <1>2 DEF Blank, Nothing
<1>5. /\ a = [slot |-> x, born |-> h.next_identity] /\ o = [slot |-> s, born |-> first.next_identity]
      /\ a.slot = x /\ o.slot = s /\ a.born = h.next_identity /\ o.born = h.next_identity + 1
  BY <1>1, <1>4 DEF HandleAt
<1>6. a.slot \in DOMAIN second.records /\ o.slot \in DOMAIN second.records /\ a.slot # o.slot
  BY <1>1, <1>2, <1>5
<1>7. Live(second, a) /\ a \in Old(second.next_identity) /\ o \in second.roots /\ o \in Old(second.next_identity)
  <2>1. second.records[x] = first.records[x] BY <1>1, <1>2
  <2>2. HandleAt(second, x) = a BY <2>1, <1>4, <1>5 DEF HandleAt
  <2>3. HandleAt(second, x) \in Old(second.next_identity) /\ Live(second, HandleAt(second, x))
        /\ HandleAt(second, s) \in Old(second.next_identity)
    BY <1>2, <1>5, <1>6, HandleFacts
  <2> QED BY <2>2, <2>3, <1>2, <1>5
<1>8. /\ HeapOK(adopted, game) /\ Follows(second, adopted) /\ \A b \in second.roots \ {o} : Loyal(second, adopted, b)
      /\ adopted.charged = second.charged /\ adopted.status = second.status
      /\ adopted.next_identity = second.next_identity /\ DOMAIN adopted.records = DOMAIN second.records
      /\ adopted.roots = second.roots \ {o}
      /\ adopted.records[o.slot] = [second.records[o.slot] EXCEPT !.parent = a]
      /\ adopted.records[a.slot] = [second.records[a.slot] EXCEPT !.children = @ \cup {o}]
  <2>1. a.born < o.born BY <1>3, <1>5
  <2> QED BY <2>1, <1>2, <1>7, AdoptedOK
<1>10. Follows(h, second) BY <1>1, <1>2, FollowsJoin
<1>11. Follows(h, adopted) BY <1>2, <1>8, <1>10, FollowsJoin
<1>12. \A b \in h.roots : Loyal(h, adopted, b)
  <2>1. TAKE b \in h.roots
  <2>2. b \in Old(h.next_identity) BY DEF HeapOK
  <2>3. b.born # h.next_identity + 1 BY <2>2, <1>3 DEF Old
  <2>4. b \in first.roots /\ b \in second.roots \ {o} BY <1>1, <1>2, <1>5, <2>3
  <2>5. Loyal(h, first, b) /\ Loyal(first, second, b) /\ Loyal(second, adopted, b) BY <1>1, <1>2, <1>8, <2>4
  <2>6. Loyal(h, second, b) BY <2>5, LoyalJoin
  <2> QED BY <2>5, <2>6, LoyalJoin
<1>13. Keeps(h, adopted) BY <1>1, <1>2, <1>8, <1>11, <1>12 DEF Keeps, Bears, Childless
<1>14. ASSUME adopted.charged < game.properties, NEW k,
              k = [adopted EXCEPT !.records[s].prototypes = 1, !.charged = @ + 1]
       PROVE  Begins(h, k, a, o)
  <2>1. PICK r : r = adopted.records[s] OBVIOUS
  <2>2. PICK q : q = [r EXCEPT !.prototypes = 1] OBVIOUS
  <2>3. s \in DOMAIN adopted.records /\ RecordOK(r, adopted.next_identity, game) /\ Shaped(adopted)
    BY <1>2, <1>8, <2>1 DEF HeapOK
  <2>4. r.prototypes = 0 /\ r.born = h.next_identity + 1 /\ r.parent = a
    <3>1. r = [second.records[s] EXCEPT !.parent = a] BY <1>5, <1>8, <2>1
    <3>2. RecordOK(second.records[s], second.next_identity, game) BY <1>2 DEF HeapOK
    <3>3. second.records[s] \in RecordSet(second.records[s], second.next_identity)
      BY <3>2 DEF RecordOK, RecordSet
    <3>4. r.prototypes = second.records[s].prototypes /\ r.born = second.records[s].born /\ r.parent = a
      BY ONLY <3>1, <3>3 DEF RecordSet
    <3> QED BY <3>4, <1>1, <1>4
  <2>5. Instanced(r, q, adopted.next_identity, game) BY <2>2, <2>3, <2>4, PrototypeSet
  <2>6. /\ k.records = [adopted.records EXCEPT ![s] = q]
        /\ k \in [records : {k.records}, roots : {adopted.roots}, free : {adopted.free},
             next_identity : {adopted.next_identity}, charged : {adopted.charged + 1}, status : {adopted.status}]
    <3>1. /\ k.records = [adopted.records EXCEPT ![s] = [adopted.records[s] EXCEPT !.prototypes = 1]]
          /\ k \in [records : {k.records}, roots : {adopted.roots}, free : {adopted.free},
             next_identity : {adopted.next_identity}, charged : {adopted.charged + 1}, status : {adopted.status}]
      BY ONLY <1>14, <2>3 DEF Shaped
    <3> QED BY <3>1, <2>1, <2>2
  <2>7. Shaped(k) BY <2>3, <2>6 DEF Shaped, IsFun
  <2>8. Rewrites(adopted, k, s, q) BY <2>6, <2>7, <1>8 DEF Rewrites, HeapOK
  <2>9. adopted.charged \in Nat /\ game.properties \in Nat /\ Charge(r) \in Nat
    <3>1. adopted.charged \in Nat BY <1>8, <2>3, ChargeCovered
    <3>2. Charge(r) \in Nat BY <2>3, ChargeType
    <3> QED BY <3>1, <3>2, <1>8, GameTypes DEF HeapOK
  <2>10. HeapOK(k, game)
    <3>1. k.charged = adopted.charged - Charge(adopted.records[s]) + Charge(q)
      BY <2>1, <2>5, <2>6, <2>9 DEF Instanced
    <3>2. k.charged <= game.properties BY <1>14, <2>6, <2>9
    <3> QED BY <3>1, <3>2, <1>8, <2>1, <2>3, <2>5, <2>8, RewritesOK DEF Instanced
  <2>11. Keeps(h, k)
    <3>1. adopted.records[s].born >= h.next_identity BY <1>3, <2>1, <2>4
    <3>2. k.status = adopted.status BY <2>6
    <3> QED BY <3>1, <3>2, <1>13, <2>1, <2>3, <2>5, <2>8, <2>10, FreshRewritten DEF Instanced
  <2>12. k.records[s] = q /\ k.records[x] = adopted.records[x]
         /\ s \in DOMAIN k.records /\ x \in DOMAIN k.records
    <3>1. x \in DOMAIN adopted.records /\ x # s BY <1>5, <1>6, <1>8
    <3> QED BY <3>1, <2>3, <2>6 DEF Shaped, IsFun
  <2>13. Live(k, o) /\ Of(k, o).parent = a
    <3>1. o # Nil BY <1>2, <1>7, HandleFacts
    <3> QED BY <3>1, <2>4, <2>5, <2>12, <1>5 DEF Live, Of, Instanced
  <2>14. a \in k.roots /\ k.next_identity = second.next_identity /\ k.status = h.status
    <3>1. a \in adopted.roots BY <1>1, <1>2, <1>3, <1>5, <1>8
    <3> QED BY <3>1, <1>1, <1>2, <1>8, <2>6
  <2>15. adopted.records[x].kind = "plain" /\ adopted.records[x].prototypes = 0 /\ DOMAIN adopted.records[x].owned = {}
    <3>1. second.records[x] = first.records[x] BY <1>1, <1>2
    <3>2. RecordOK(second.records[x], second.next_identity, game) BY <1>2, <1>5, <1>6 DEF HeapOK
    <3>3. second.records[x] \in RecordSet(second.records[x], second.next_identity)
      BY <3>2 DEF RecordOK, RecordSet
    <3>4. adopted.records[x] = [second.records[x] EXCEPT !.children = @ \cup {o}] BY <1>5, <1>8
    <3>5. adopted.records[x].kind = second.records[x].kind /\ adopted.records[x].prototypes = second.records[x].prototypes
          /\ adopted.records[x].owned = second.records[x].owned
      BY ONLY <3>3, <3>4 DEF RecordSet
    <3> QED BY <3>1, <3>5, <1>4
  <2> QED BY <2>11, <2>12, <2>13, <2>14, <2>15, <1>5, <1>7 DEF Begins, Of
<1> QED BY <1>13, <1>14 DEF Constructs

(* begin_construction. *)
LEMMA BeginConstructionOK ==
  ASSUME AllOK, game' = game, NEW owner \in {"Published", "Owned"}, BeginConstruction(owner)
  PROVE  AllOK' /\ Descends(heap, heap')
<1>1. /\ UNCHANGED <<journal, containers, journalling, history, default_lifetime, exceptions>>
      /\ UNCHANGED <<phase, past, despawned>> /\ May(IF owner = "Published" THEN "new" ELSE "throw")
  BY DEF BeginConstruction, journals
<1>2. OtherTypes' /\ heap.status = "live" BY <1>1, MayTypes
<1>3. HeapOK(heap, game) /\ default_lifetime \in {"World", "Turn"} /\ heap.next_identity \in Nat
  BY DEF AllOK, OtherTypes, HeapOK
<1>4. ASSUME Keeps(heap, heap') PROVE JournalsOK(heap', game, journal', containers', history')
  BY <1>1, <1>3, <1>4, JournalsLater DEF AllOK, Keeps
<1>5. ASSUME Keeps(heap, heap'), constructions' = constructions PROVE AllOK' /\ Descends(heap, heap')
  BY <1>1, <1>2, <1>4, <1>5, KeptOK
<1>6. CASE ~CanCreate(heap)
  <2>1. heap' = Failed(heap) /\ constructions' = constructions BY <1>6 DEF BeginConstruction
  <2> QED BY <1>3, <1>5, <2>1, FailedKeeps
<1>7. CASE CanCreate(heap)
  <2>1. PICK x \in Slots(heap) :
          LET first == Created(heap, x, default_lifetime)
              activation == HandleAt(first, x)
          IN  IF ~CanCreate(first) THEN heap' = Failed(first) /\ UNCHANGED constructions
              ELSE \E s \in Slots(first) :
                LET second == Created(first, s, default_lifetime)
                    object == HandleAt(second, s)
                    adopted == Adopted(second, activation, object)
                IN  IF adopted.charged >= PropertyLimit
                    THEN heap' = Failed(adopted) /\ UNCHANGED constructions
                    ELSE /\ heap' = [adopted EXCEPT !.records[s].prototypes = 1,
                                                 !.charged = @ + 1]
                         /\ constructions' = Append(constructions,
                              [owner |-> owner, activation |-> activation, object |-> object])
    BY <1>7 DEF BeginConstruction
  <2> DEFINE first == Created(heap, x, default_lifetime)
             a == HandleAt(first, x)
  <2>2. HeapOK(first, game) /\ Keeps(heap, first)
    <3>1. HeapOK(first, game) /\ Follows(heap, first) /\ (\A b \in heap.roots : Loyal(heap, first, b))
          /\ first.status = heap.status
      <4> HIDE DEF first
      <4>1. first = Created(heap, x, default_lifetime) BY DEF first
      <4> QED BY <4>1, <1>3, <1>7, CreatedOK
    <3> HIDE DEF first
    <3> QED BY <3>1 DEF Keeps, Bears, Childless
  <2>3. CASE ~CanCreate(first)
    <3>1. heap' = Failed(first) /\ constructions' = constructions BY <2>1, <2>3
    <3> HIDE DEF first
    <3> QED BY <1>3, <1>5, <2>2, <3>1, FailedKeeps, KeepsJoin
  <2>4. CASE CanCreate(first)
    <3>1. PICK s \in Slots(first) :
                LET second == Created(first, s, default_lifetime)
                    object == HandleAt(second, s)
                    adopted == Adopted(second, a, object)
                IN  IF adopted.charged >= PropertyLimit
                    THEN heap' = Failed(adopted) /\ UNCHANGED constructions
                    ELSE /\ heap' = [adopted EXCEPT !.records[s].prototypes = 1,
                                                 !.charged = @ + 1]
                         /\ constructions' = Append(constructions,
                              [owner |-> owner, activation |-> a, object |-> object])
      BY <2>1, <2>4
    <3> DEFINE second == Created(first, s, default_lifetime)
               o == HandleAt(second, s)
               adopted == Adopted(second, a, o)
               d == [owner |-> owner, activation |-> a, object |-> o]
    <3>2. \/ adopted.charged >= game.properties /\ heap' = Failed(adopted) /\ constructions' = constructions
          \/ /\ ~(adopted.charged >= game.properties)
             /\ heap' = [adopted EXCEPT !.records[s].prototypes = 1, !.charged = @ + 1]
             /\ constructions' = Append(constructions, d)
      BY <3>1 DEF PropertyLimit
    <3>3. /\ Keeps(heap, adopted) /\ HeapOK(adopted, game)
          /\ adopted.charged < game.properties =>
              \A k : k = [adopted EXCEPT !.records[s].prototypes = 1, !.charged = @ + 1] => Begins(heap, k, a, o)
      <4>1. /\ first = Created(heap, x, default_lifetime) /\ a = HandleAt(first, x)
            /\ second = Created(first, s, default_lifetime) /\ o = HandleAt(second, s)
            /\ adopted = Adopted(second, a, o)
        OBVIOUS
      <4> HIDE DEF first, a, second, o, adopted
      <4>2. Constructs(heap, s, a, o, adopted) BY <4>1, <1>3, <1>7, <2>4, BegunOK
      <4> QED BY <4>2 DEF Keeps, Constructs
    <3> HIDE DEF first, a, second, o, adopted
    <3>4. CASE adopted.charged >= game.properties /\ heap' = Failed(adopted) /\ constructions' = constructions
      BY <1>3, <1>5, <3>3, <3>4, FailedKeeps, KeepsJoin
    <3>5. CASE /\ ~(adopted.charged >= game.properties)
               /\ heap' = [adopted EXCEPT !.records[s].prototypes = 1, !.charged = @ + 1]
               /\ constructions' = Append(constructions, d)
      <4>1. adopted.charged < game.properties
        <5>1. adopted.charged \in Int /\ game.properties \in Int
          BY <3>3, HeapFinite, SumFacts, GameTypes DEF HeapOK
        <5> QED BY <5>1, <3>5
      <4>2. Begins(heap, heap', a, o) BY <3>3, <3>5, <4>1
      <4>3. d.activation = a /\ d.object = o /\ d \in [owner : {owner}, activation : {a}, object : {o}]
        OBVIOUS
      <4> HIDE DEF d
      <4>4. PICK n : n = Len(Statics) OBVIOUS
      <4>5. n \in Int BY <1>3, <4>4, GameTypes DEF HeapOK, Statics
      <4>6. FramesWell(heap, n, constructions, exceptions, despawned) BY <4>4 DEF AllOK
      <4>7. n < heap.next_identity /\ FrameTypes(heap.next_identity, constructions, exceptions)
            /\ FramesOK(heap, n, constructions, exceptions, despawned)
        BY <1>2, <4>6 DEF FramesWell
      <4>8. HeapOK(heap', game) /\ Descends(heap, heap') /\ Bears(heap, heap') /\ Keeps(heap, heap')
            /\ heap'.status = "live"
        BY <1>2, <4>2, FollowsDescends DEF Begins, Keeps
      <4>9. FramesWell(heap', n, constructions, exceptions, despawned)
        BY <1>3, <4>5, <4>6, <4>8, FramesBorne
      <4>10. n < heap'.next_identity /\ FrameTypes(heap'.next_identity, constructions, exceptions)
             /\ FramesOK(heap', n, constructions, exceptions, despawned) /\ despawned \subseteq Old(heap'.next_identity)
        BY <4>8, <4>9 DEF FramesWell
      <4>11. FrameOK(d, heap', n, despawned)
        <5>1. a.born > n BY <4>2, <4>5, <4>7, <1>3 DEF Begins
        <5> QED BY <4>2, <4>3, <5>1 DEF FrameOK, Begins
      <4>12. d \in [owner : {"Published", "Owned"}, activation : Old(heap'.next_identity), object : Old(heap'.next_identity)]
        BY <4>2, <4>3 DEF Begins
      <4>13. Appended(constructions, d, constructions')
        BY <3>5, <4>7, ListAppend DEF FrameTypes
      <4>14. /\ \A i \in DOMAIN constructions : constructions[i].activation # a
             /\ \A e \in exceptions : e.activation # a
        <5>1. a \notin Old(heap.next_identity) BY <1>3, <4>2 DEF Begins, Old
        <5> QED BY <5>1, <4>7 DEF FrameTypes
      <4>15. /\ Listed(constructions') /\ \A i \in DOMAIN constructions :
                    i \in DOMAIN constructions' /\ constructions'[i] = constructions[i]
             /\ constructions'[Len(constructions) + 1] = d
             /\ \A i \in DOMAIN constructions' : i \in DOMAIN constructions \/ i = Len(constructions) + 1
        BY <4>13 DEF Appended
      <4>16. FrameTypes(heap'.next_identity, constructions', exceptions')
        <5>1. \A i \in DOMAIN constructions' : constructions'[i] \in
                [owner : {"Published", "Owned"}, activation : Old(heap'.next_identity), object : Old(heap'.next_identity)]
          BY <4>10, <4>12, <4>15 DEF FrameTypes
        <5> QED BY <5>1, <4>10, <4>15, <1>1 DEF FrameTypes
      <4>17. FramesOK(heap', n, constructions', exceptions', despawned)
        <5>1. \A i \in DOMAIN constructions' : FrameOK(constructions'[i], heap', n, despawned)
          BY <4>10, <4>11, <4>15 DEF FramesOK
        <5>2. \A i, j \in DOMAIN constructions' : i # j => constructions'[i].activation # constructions'[j].activation
          BY <4>3, <4>10, <4>14, <4>15 DEF FramesOK
        <5>3. \A e \in exceptions : \A i \in DOMAIN constructions' : e.activation # constructions'[i].activation
          BY <4>3, <4>10, <4>14, <4>15 DEF FramesOK
        <5> QED BY <5>1, <5>2, <5>3, <4>10, <1>1 DEF FramesOK
      <4>18. FramesWell(heap', n, constructions', exceptions', despawned')
        BY <1>1, <4>10, <4>16, <4>17 DEF FramesWell
      <4> QED BY <1>2, <1>4, <4>4, <4>8, <4>18, FramedOK
    <3> QED BY <3>2, <3>4, <3>5
  <2> QED BY <2>3, <2>4
<1> QED BY <1>6, <1>7

(***************************************************************************)
(* Despawning                                                              *)
(***************************************************************************)
(* A record and what it owns are gone. *)
Gone(h, k, o, S) ==
  /\ HeapOK(k, game) /\ Follows(h, k) /\ Cuts(h, k, S) /\ k.status = h.status
  /\ S \subseteq Subtree(h, {o.slot}) /\ Subtree(h, {o.slot}) \subseteq DOMAIN h.records
  /\ \A a \in h.roots : a # o => a.slot \notin S

(* What one record owns. *)
LEMMA SubtreeHere ==
  ASSUME NEW h, HeapOK(h, game), NEW s \in DOMAIN h.records
  PROVE  /\ {s} \subseteq Subtree(h, {s}) /\ Closed(h, Subtree(h, {s})) /\ Subtree(h, {s}) \subseteq DOMAIN h.records
         /\ Cardinality(DOMAIN h.records) \in Nat
<1>1. \A slots : slots = {s} => Rooted(h, slots)
  BY HeapFinite DEF Rooted
<1> QED BY <1>1, SubtreeClosed, HeapFinite

(* A root is despawned. *)
LEMMA RootDespawned ==
  ASSUME NEW h, HeapOK(h, game), NEW o \in h.roots, NEW m, m = [h EXCEPT !.roots = @ \ {o}],
         NEW k, k = Destroyed(m, {o.slot}), NEW S, S = Subtree(h, {o.slot})
  PROVE  Gone(h, k, o, S)
<1>1. PICK R : R = {o} OBVIOUS
<1>2. PICK slots : slots = {x.slot : x \in R} OBVIOUS
<1>3. slots = {o.slot} BY <1>1, <1>2
<1>4. o.slot \in DOMAIN h.records BY DEF HeapOK, TreeOK, Live
<1>5. /\ slots \subseteq S /\ Closed(h, S) /\ S \subseteq DOMAIN h.records /\ Cardinality(DOMAIN h.records) \in Nat
  BY <1>3, <1>4, SubtreeHere
<1>6. Shaped(h) BY DEF HeapOK
<1>7. /\ m.records = h.records /\ m.roots = h.roots \ {o} /\ m.free = h.free /\ m.next_identity = h.next_identity
      /\ m.charged = h.charged /\ m.status = h.status /\ Shaped(m)
  BY <1>6 DEF Shaped
<1>8. PICK T : T = Subtree(m, slots) OBVIOUS
<1>9. T = S
  <2>1. Closed(m, S) BY <1>5, <1>7 DEF Closed
  <2>2. T \subseteq S BY <1>5, <1>7, <1>8, <2>1, SubtreeLeast
  <2>3. Rooted(m, slots)
    <3>1. Rooted(h, slots) BY <1>3, <1>4, HeapFinite DEF Rooted
    <3> QED BY <3>1, <1>7 DEF Rooted, Closed
  <2>4. slots \subseteq T /\ Closed(m, T) BY <1>8, <2>3, SubtreeClosed
  <2>5. Closed(h, T) BY <2>4, <1>7 DEF Closed
  <2>6. S \subseteq T BY <1>3, <1>5, <2>4, <2>5, SubtreeLeast
  <2> QED BY <2>2, <2>6
<1>10. Destroys(m, k, S)
  BY <1>3, <1>7, <1>8, <1>9, DestroyedIs
<1>11. PICK d : d = Destroyed(h, slots) OBVIOUS
<1>12. Destroys(h, d, S)
  BY <1>3, <1>6, <1>11, DestroyedIs
<1>13. Sum(m, S) = Sum(h, S)
  <2>1. IsFiniteSet(S) BY <1>5, HeapFinite, FS_Subset
  <2>2. SameCharges(m, h, S) BY <1>7 DEF SameCharges
  <2> QED BY <2>1, <2>2, SumSame
<1>14. k.records = d.records
  <2>1. DOMAIN k.records = DOMAIN d.records /\ \A s \in DOMAIN k.records : k.records[s] = d.records[s]
    <3>1. DOMAIN k.records = (DOMAIN m.records) \ S /\ \A s \in DOMAIN k.records : k.records[s] = m.records[s]
      BY <1>10 DEF Destroys
    <3>2. DOMAIN d.records = (DOMAIN h.records) \ S /\ \A s \in DOMAIN d.records : d.records[s] = h.records[s]
      BY <1>12 DEF Destroys
    <3>3. m.records = h.records BY <1>7
    <3> QED BY ONLY <3>1, <3>2, <3>3
  <2>2. IsFun(k.records) /\ IsFun(d.records) BY <1>10, <1>12 DEF Destroys, Shaped
  <2> QED BY <2>1, <2>2 DEF IsFun
<1>15. k.free = d.free /\ k.next_identity = d.next_identity /\ k.charged = d.charged /\ k.roots = h.roots \ R
       /\ Shaped(k) /\ k.status = h.status
  BY <1>1, <1>7, <1>10, <1>12, <1>13 DEF Destroys
<1>16. RootsGone(h, k, R, S)
  <2>1. R \in SUBSET h.roots BY <1>1
  <2>2. k.status \in {"live", "terminal", "aborted"} BY <1>15 DEF HeapOK
  <2>3. S = Subtree(h, {x.slot : x \in R}) BY <1>2, <1>3
  <2> QED BY <2>1, <2>2, <2>3, <1>2, <1>11, <1>14, <1>15, RootsCut
<1> QED BY <1>1, <1>5, <1>15, <1>16 DEF RootsGone, Gone

(* A child is despawned. *)
LEMMA ChildDespawned ==
  ASSUME NEW h, HeapOK(h, game), NEW o \in Old(h.next_identity), Live(h, o), o \notin h.roots,
         NEW p, p = Of(h, o).parent, NEW m, m = [h EXCEPT !.records[p.slot].children = @ \ {o}],
         NEW k, k = Destroyed(m, {o.slot}), NEW S, S = Subtree(m, {o.slot})
  PROVE  Gone(h, k, o, S)
<1>1. o.slot \in DOMAIN h.records /\ HandleAt(h, o.slot) = o
  BY HandleFacts DEF Live
<1>2. p # Nil /\ Live(h, p) /\ o \in Of(h, p).children
  BY <1>1 DEF HeapOK, TreeOK, Of
<1>3. p.slot \in DOMAIN h.records BY <1>2 DEF Live
<1>4. RecordOK(h.records[o.slot], h.next_identity, game) /\ RecordOK(h.records[p.slot], h.next_identity, game)
      /\ Shaped(h)
  BY <1>1, <1>3 DEF HeapOK
<1>5. p \in Old(h.next_identity)
  BY <1>2, <1>4 DEF RecordOK, Ref, Of
<1>6. /\ m.records = [h.records EXCEPT ![p.slot] = [h.records[p.slot] EXCEPT !.children = @ \ {o}]]
      /\ m \in [records : {m.records}, roots : {h.roots}, free : {h.free}, next_identity : {h.next_identity},
                charged : {h.charged}, status : {h.status}]
  BY ONLY <1>4, m = [h EXCEPT !.records[p.slot].children = @ \ {o}] DEF Shaped
<1>7. PICK r : r = h.records[p.slot] OBVIOUS
<1>8. PICK q : q = [r EXCEPT !.children = @ \ {o}] OBVIOUS
<1>9. r \in RecordSet(r, h.next_identity) BY <1>4, <1>7 DEF RecordOK, RecordSet
<1>10. q.owned = r.owned /\ q = [r EXCEPT !.children = @ \ {o}, !.owned = q.owned]
       /\ q.children = r.children \ {o}
  BY ONLY <1>8, <1>9 DEF RecordSet
<1>11. DOMAIN m.records = DOMAIN h.records /\ m.records[p.slot] = q /\ IsFun(m.records)
       /\ \A s \in DOMAIN h.records : s # p.slot => m.records[s] = h.records[s]
  <2>1. m.records = [h.records EXCEPT ![p.slot] = q] BY <1>6, <1>7, <1>8
  <2>2. IsFun(h.records) BY <1>4 DEF Shaped
  <2> QED BY ONLY <1>3, <2>1, <2>2 DEF IsFun
<1>12. Detaches(h, m, p, o)
  <2>1. IsFun(r.owned) BY <1>4, <1>7 DEF RecordOK
  <2>2. m.roots = h.roots /\ m.free = h.free /\ m.next_identity = h.next_identity
        /\ m.charged = h.charged /\ m.status = h.status /\ Shaped(m)
    BY <1>6, <1>11 DEF Shaped
  <2> QED BY <2>1, <2>2, <1>7, <1>10, <1>11 DEF Detaches
<1>13. ChildGone(h, k, p, m, o)
  BY <1>2, <1>5, <1>12, ChildCut
<1>14. /\ {o.slot} \subseteq Subtree(h, {o.slot}) /\ Closed(h, Subtree(h, {o.slot}))
       /\ Subtree(h, {o.slot}) \subseteq DOMAIN h.records /\ Cardinality(DOMAIN h.records) \in Nat
  BY <1>1, SubtreeHere
<1>15. S \subseteq Subtree(h, {o.slot})
  <2>1. \A s \in DOMAIN m.records : m.records[s].children \subseteq h.records[s].children
    BY <1>7, <1>10, <1>11
  <2>2. PICK T : T = Subtree(h, {o.slot}) OBVIOUS
  <2>3. Closed(m, T)
    BY <1>11, <1>14, <2>1, <2>2 DEF Closed
  <2>4. PICK slots : slots = {o.slot} OBVIOUS
  <2>5. slots \subseteq T BY <1>14, <2>2, <2>4
  <2> QED BY <2>2, <2>3, <2>4, <2>5, <1>11, <1>14, SubtreeLeast
<1>16. ASSUME NEW a \in h.roots PROVE a.slot \notin S
  <2>1. CASE a = p BY <2>1, <1>13 DEF ChildGone
  <2>2. CASE a # p
    <3>1. Loyal(h, k, a) /\ Cuts(h, k, S) BY <2>2, <1>13, <1>16 DEF ChildGone
    <3> QED BY <3>1 DEF Loyal, Cuts
  <2> QED BY <2>1, <2>2
<1> QED BY <1>13, <1>14, <1>15, <1>16 DEF ChildGone, Gone

(* A frame loses its object to a despawn. *)
LEMMA FrameCut ==
  ASSUME NEW h, HeapOK(h, game), NEW k, HeapOK(k, game), NEW S, Cuts(h, k, S), NEW n, NEW c, NEW ds,
         FrameOK(c, h, n, ds), c.activation.slot \notin S, c.object \in Old(h.next_identity),
         NEW dt, ds \subseteq dt, \A s \in S : HandleAt(h, s) \in dt
  PROVE  FrameOK(c, k, n, dt)
<1> DEFINE a == c.activation
           o == c.object
<1>1. a \in k.roots /\ Live(k, a) BY DEF FrameOK, Cuts, HeapOK, TreeOK
<1>2. a.slot \in DOMAIN k.records /\ a.slot \in DOMAIN h.records /\ Bereft(h.records[a.slot], k.records[a.slot], S)
      /\ RecordOK(h.records[a.slot], h.next_identity, game)
  BY <1>1 DEF Cuts, Live, HeapOK
<1>3. /\ Of(k, a).kind = "plain" /\ Of(k, a).prototypes = 0 /\ a.born > n
      /\ DOMAIN Of(k, a).owned = {}
  <2>1. k.records[a.slot].kind = h.records[a.slot].kind /\ k.records[a.slot].prototypes = h.records[a.slot].prototypes
    BY <1>2, BereftOK
  <2>2. DOMAIN k.records[a.slot].owned \subseteq DOMAIN h.records[a.slot].owned BY <1>2 DEF Bereft
  <2> QED BY <2>1, <2>2 DEF FrameOK, Of
<1>4. ASSUME Live(k, o) PROVE Of(k, o).parent = a
  <2>1. o.slot \in DOMAIN k.records /\ o.slot \in DOMAIN h.records /\ Bereft(h.records[o.slot], k.records[o.slot], S)
        /\ RecordOK(h.records[o.slot], h.next_identity, game) /\ k.records[o.slot].born = o.born /\ o # Nil
    BY <1>4 DEF Cuts, Live, HeapOK
  <2>2. k.records[o.slot].born = h.records[o.slot].born /\ k.records[o.slot].parent = h.records[o.slot].parent
    BY <2>1, BereftOK
  <2>3. Live(h, o) BY <2>1, <2>2 DEF Live
  <2> QED BY <2>2, <2>3 DEF FrameOK, Of
<1>5. Live(k, o) \/ o \in dt
  <2>1. CASE o \in ds BY <2>1
  <2>2. CASE Live(h, o)
    <3>1. o.slot \in DOMAIN h.records /\ HandleAt(h, o.slot) = o BY <2>2, HandleFacts DEF Live
    <3>2. CASE o.slot \in S BY <3>1, <3>2
    <3>3. CASE o.slot \notin S
      <4>1. o.slot \in DOMAIN k.records /\ Bereft(h.records[o.slot], k.records[o.slot], S)
            /\ RecordOK(h.records[o.slot], h.next_identity, game)
        BY <3>1, <3>3 DEF Cuts, HeapOK
      <4>2. k.records[o.slot].born = h.records[o.slot].born BY <4>1, BereftOK
      <4> QED BY <2>2, <4>1, <4>2 DEF Live
    <3> QED BY <3>2, <3>3
  <2> QED BY <2>1, <2>2 DEF FrameOK
<1> QED BY <1>1, <1>3, <1>4, <1>5 DEF FrameOK

(* despawn. *)
LEMMA DespawnOK ==
  ASSUME AllOK, game' = game, NEW o \in Visible(heap), Despawn(o)
  PROVE  AllOK' /\ Descends(heap, heap')
<1>1. /\ UNCHANGED <<journal, containers, journalling, history, default_lifetime, constructions, exceptions>>
      /\ UNCHANGED <<phase, past>> /\ May("despawn")
      /\ despawned' = despawned \cup {HandleAt(heap, s) : s \in Subtree(heap, {o.slot})}
  BY DEF Despawn, journals, frames
<1>2. HeapOK(heap, game) /\ Live(heap, o) /\ o \in Old(heap.next_identity) /\ ~Private(heap, o)
  BY VisibleOld DEF AllOK
<1>3. OtherTypes' /\ heap.status = "live" BY <1>1, MayTypes
<1>4. PICK S : Gone(heap, heap', o, S)
  <2>1. CASE o \in heap.roots
    <3>1. heap' = Destroyed([heap EXCEPT !.roots = @ \ {o}], {o.slot}) BY <2>1 DEF Despawn
    <3> QED BY <2>1, <3>1, <1>2, RootDespawned
  <2>2. CASE o \notin heap.roots
    <3>1. PICK p : p = Of(heap, o).parent OBVIOUS
    <3>2. heap' = Destroyed([heap EXCEPT !.records[p.slot].children = @ \ {o}], {o.slot})
      BY <2>2, <3>1 DEF Despawn
    <3> QED BY <2>2, <3>1, <3>2, <1>2, ChildDespawned
  <2> QED BY <2>1, <2>2
<1>5. /\ HeapOK(heap', game) /\ Follows(heap, heap') /\ Descends(heap, heap') /\ Cuts(heap, heap', S)
      /\ heap'.next_identity = heap.next_identity
  BY <1>4, FollowsDescends DEF Gone, Cuts
<1>6. JournalsOK(heap', game, journal', containers', history')
  BY <1>1, <1>2, <1>5, JournalsLater DEF AllOK
<1>7. PICK n : n = Len(Statics) OBVIOUS
<1>8. /\ n < heap.next_identity /\ FrameTypes(heap.next_identity, constructions, exceptions)
      /\ despawned \subseteq Old(heap.next_identity)
      /\ FramesOK(heap, n, constructions, exceptions, despawned)
  BY <1>3, <1>7 DEF AllOK, FramesWell
<1>9. despawned' \subseteq Old(heap.next_identity)
  <2>1. \A s \in Subtree(heap, {o.slot}) : HandleAt(heap, s) \in Old(heap.next_identity)
    BY <1>2, <1>4, HandleFacts DEF Gone
  <2> QED BY <1>1, <1>8, <2>1
<1>10. \A s \in S : HandleAt(heap, s) \in despawned' BY <1>1, <1>4 DEF Gone
<1>11. despawned \subseteq despawned' BY <1>1
<1>12. ASSUME NEW c, FrameOK(c, heap, n, despawned), c.object \in Old(heap.next_identity)
       PROVE  FrameOK(c, heap', n, despawned')
  <2>1. c.activation \in heap.roots /\ c.activation # o
    BY <1>2, <1>7, <1>12 DEF FrameOK, Private
  <2>2. c.activation.slot \notin S BY <1>4, <2>1 DEF Gone
  <2> QED BY <1>2, <1>5, <1>10, <1>11, <1>12, <2>2, FrameCut
<1>13. \A i \in DOMAIN constructions : FrameOK(constructions[i], heap', n, despawned')
  BY <1>8, <1>12 DEF FramesOK, FrameTypes
<1>14. ASSUME NEW e \in exceptions, Live(heap', e.activation) PROVE FrameOK(e, heap', n, despawned')
  <2>1. e.activation \in Old(heap.next_identity) /\ e.object \in Old(heap.next_identity) BY <1>8 DEF FrameTypes
  <2>2. Live(heap, e.activation) BY <1>2, <1>5, <1>14, <2>1, LiveBefore
  <2> QED BY <1>8, <1>12, <2>1, <2>2 DEF FramesOK
<1>15. ASSUME NEW e \in exceptions, e.claimed PROVE Live(heap', e.activation)
  <2>1. Live(heap, e.activation) /\ FrameOK(e, heap, n, despawned) BY <1>8, <1>15 DEF FramesOK
  <2>2. FrameOK(e, heap', n, despawned') BY <1>8, <1>12, <2>1 DEF FrameTypes
  <2> QED BY <1>5, <2>2 DEF FrameOK, HeapOK, TreeOK
<1>16. FramesOK(heap', n, constructions', exceptions', despawned')
  BY <1>1, <1>8, <1>13, <1>14, <1>15 DEF FramesOK
<1>17. FramesWell(heap', n, constructions', exceptions', despawned')
  BY <1>1, <1>5, <1>8, <1>9, <1>16 DEF FramesWell
<1> QED BY <1>3, <1>5, <1>6, <1>7, <1>17, FramedOK

(* Every step keeps the invariant and brings no identity back. *)
LEMMA StepOK ==
  ASSUME AllOK, Next PROVE AllOK' /\ Descends(heap, heap')
<1>1. Step /\ game' = game BY DEF Next
<1>2. CASE \E owner \in {"Published", "Owned"} : BeginConstruction(owner)
  BY <1>1, <1>2, BeginConstructionOK
<1>3. CASE FinishPublished \/ Unwind \/ Throw
  BY <1>1, <1>3, FinishPublishedOK, UnwindOK, ThrowOK
<1>4. CASE \E e \in exceptions : Claim(e) \/ Release(e)
  BY <1>1, <1>4, ClaimOK, ReleaseOK
<1>5. CASE NewContainer("table", 0) \/ \E n \in 0..1 : NewContainer("vector", n)
  BY <1>1, <1>5, NewContainerOK
<1>6. CASE \E o \in OfKind("plain"), p \in Props, v \in Values : Set(o, p, v)
  BY <1>1, <1>6, SetOK DEF OfKind
<1>7. CASE \E o \in OfKind("vector"), v \in Values :
             VectorAppend(o, v) \/ \E n \in DOMAIN Of(heap, o).elements : VectorSet(o, n, v)
  BY <1>1, <1>7, VectorAppendOK, VectorSetOK
<1>8. CASE \E o \in OfKind("vector") : \E m \in DOMAIN Of(heap, o).elements :
             \E n \in m..Cardinality(DOMAIN Of(heap, o).elements) : VectorRemove(o, m, n)
  BY <1>1, <1>8, VectorRemoveOK
<1>9. CASE \E o \in OfKind("table"), v \in Values :
             \E k \in Keys \cup OfKind("plain") \cup OfKind("table") : LookupSet(o, k, v)
  BY <1>1, <1>9, LookupSetOK
<1>10. CASE \E x, y \in OfKind("plain") : Relate(x, y)
  BY <1>1, <1>10, RelateOK
<1>11. CASE \E o \in Visible(heap) : Despawn(o)
  BY <1>1, <1>11, DespawnOK
<1>12. CASE Begin \/ End \/ Savepoint \/ Rollback \/ Undo \/ Refused
  BY <1>1, <1>12, BeginOK, EndOK, SavepointOK, RollbackOK, UndoOK, RefusedOK
<1> QED BY <1>1, <1>2, <1>3, <1>4, <1>5, <1>6, <1>7, <1>8, <1>9, <1>10, <1>11, <1>12 DEF Step

(* So does a step of nothing. *)
LEMMA StutterOK ==
  ASSUME AllOK, UNCHANGED vars PROVE AllOK' /\ Descends(heap, heap')
<1>1. /\ UNCHANGED <<game, heap, journal, containers, journalling, history, default_lifetime>>
      /\ UNCHANGED <<constructions, exceptions, phase, past, despawned, calls>>
  BY DEF vars, journals, frames, aux
<1>2. OtherTypes' BY <1>1 DEF AllOK, OtherTypes, MaxCalls
<1>3. Keeps(heap, heap') BY <1>1, KeepsSelf DEF AllOK
<1> QED BY <1>1, <1>2, <1>3, KeptOK DEF AllOK

(***************************************************************************)
(* The start of a game                                                     *)
(***************************************************************************)
(* The named objects with a container of their own, and the slots of their *)
(* containers.                                                             *)
Filled(statics) == {i \in 1..Len(statics) : statics[i] # "none"}
UpTo(statics, i) == {j \in Filled(statics) : j <= i}
Place(statics, i) == Len(statics) + 2 * Cardinality(UpTo(statics, i))
NamedObject(i) == [slot |-> i, born |-> i]
Container(statics, i) == [slot |-> Place(statics, i), born |-> Place(statics, i)]
(* The records a game starts with. *)
StaticRecord(statics, s) ==
        IF s <= Len(statics)
        THEN IF s \notin Filled(statics) THEN Blank(s, "World")
             ELSE [Blank(s, "World") EXCEPT !.children = {Container(statics, s)},
                                            !.properties = With(Nothing, Field, Container(statics, s)),
                                            !.owned = With(Nothing, Field, Container(statics, s))]
        ELSE LET i == CHOOSE j \in Filled(statics) : Place(statics, j) = s
             IN  [Blank(s, "World") EXCEPT !.kind = statics[i], !.parent = NamedObject(i)]
StaticRecords(statics) ==
  [s \in 1..Len(statics) \cup {Place(statics, i) : i \in Filled(statics)} |-> StaticRecord(statics, s)]

(* They are those of Started. *)
LEMMA StartedIs ==
  ASSUME NEW statics, NEW h, h = Started(statics)
  PROVE  /\ h.records = StaticRecords(statics)
         /\ h \in [records : {h.records}, roots : {{NamedObject(i) : i \in 1..Len(statics)}},
                   free : {IF Filled(statics) = {} THEN {} ELSE {Len(statics) + 1}},
                   next_identity : {Len(statics) + 2 * Cardinality(Filled(statics)) + 1},
                   charged : {Total([records |-> StaticRecords(statics)])}, status : {"live"}]
<1>1. h = [records |-> StaticRecords(statics), roots |-> {NamedObject(i) : i \in 1..Len(statics)},
       free |-> IF Filled(statics) = {} THEN {} ELSE {Len(statics) + 1},
       next_identity |-> Len(statics) + 2 * Cardinality(Filled(statics)) + 1,
       charged |-> Total([records |-> StaticRecords(statics)]), status |-> "live"]
  BY Zenon DEF Started, StaticRecords, StaticRecord, NamedObject, Container, Place, UpTo, Filled
<1> QED BY <1>1

(* Containers have slots of their own, after those of the named objects    *)
(* and one that is free again.                                             *)
LEMMA PlaceFacts ==
  ASSUME NEW statics, Len(statics) \in Nat
  PROVE  /\ IsFiniteSet(Filled(statics)) /\ Cardinality(Filled(statics)) \in Nat
         /\ \A i \in Filled(statics) :
              Place(statics, i) \in Len(statics) + 2 .. Len(statics) + 2 * Cardinality(Filled(statics))
         /\ \A i, j \in Filled(statics) : Place(statics, i) = Place(statics, j) => i = j
         /\ Filled(statics) # {} => Cardinality(Filled(statics)) >= 1
<1> DEFINE F == Filled(statics)
           U(i) == UpTo(statics, i)
<1>1. IsFiniteSet(F) /\ Cardinality(F) \in Nat
  <2>1. IsFiniteSet(1..Len(statics)) BY LengthOf
  <2> QED BY <2>1, FS_Subset, FS_CardinalityType DEF Filled
<1>2. \A i \in F : i \in Nat BY DEF Filled
<1>3. ASSUME NEW i \in F
      PROVE  IsFiniteSet(U(i)) /\ Cardinality(U(i)) \in 1..Cardinality(F)
  <2>1. U(i) \subseteq F /\ i \in U(i) BY <1>2 DEF UpTo
  <2>2. IsFiniteSet(U(i)) /\ Cardinality(U(i)) <= Cardinality(F) /\ Cardinality(U(i)) \in Nat
    BY <1>1, <2>1, FS_Subset, FS_CardinalityType
  <2>3. Cardinality(U(i)) # 0 BY <2>1, <2>2, FS_EmptySet
  <2> QED BY <1>1, <2>2, <2>3
<1>4. ASSUME NEW i \in F, NEW j \in F, i < j PROVE Cardinality(U(i)) # Cardinality(U(j))
  <2>1. U(i) \subseteq U(j) /\ j \in U(j) /\ j \notin U(i)
    BY <1>2, <1>4 DEF UpTo
  <2>2. U(i) # U(j) BY <2>1
  <2> QED BY <1>3, <2>1, <2>2, FS_Subset
<1>5. \A i \in F : Place(statics, i) \in Len(statics) + 2 .. Len(statics) + 2 * Cardinality(F)
  BY <1>1, <1>3 DEF Place
<1>6. ASSUME NEW i \in F, NEW j \in F, Place(statics, i) = Place(statics, j) PROVE i = j
  <2>1. Cardinality(U(i)) = Cardinality(U(j)) BY <1>3, <1>6 DEF Place
  <2>2. ~(i < j) /\ ~(j < i) BY <1>4, <2>1
  <2> QED BY <1>2, <2>2
<1>7. F # {} => Cardinality(F) >= 1
  BY <1>1, FS_EmptySet
<1> QED BY <1>1, <1>5, <1>6, <1>7

(* The set a record is in, its functions apart. *)
RecordFits(q, n) ==
  q \in [born : 1..(n - 1), lifetime : {"World", "Turn"}, kind : {"plain", "vector", "table"},
         parent : Ref(n), children : SUBSET Old(n), properties : {q.properties},
         owned : {q.owned}, elements : {q.elements}, capacity : Nat, prototypes : 0..1]

(* The empty function. *)
LEMMA NothingFacts ==
  ASSUME NEW n, NEW g, NEW k \in {"plain", "vector", "table"}
  PROVE  /\ IsFun(Nothing) /\ DOMAIN Nothing = {} /\ IsFiniteSet(DOMAIN Nothing)
         /\ Cardinality(DOMAIN Nothing) = 0 /\ ElementsOK(Nothing, k, n, g)
<1>1. IsFun(Nothing) /\ DOMAIN Nothing = {}
  BY DEF IsFun, Nothing
<1>2. IsFiniteSet(DOMAIN Nothing) /\ Cardinality(DOMAIN Nothing) = 0
  BY <1>1, FS_EmptySet
<1>3. 1..Cardinality(DOMAIN Nothing) = {}
  BY <1>2
<1> QED BY <1>1, <1>2, <1>3 DEF ElementsOK

(* A record with an identity, a parent and children, that owns nothing     *)
(* else.                                                                   *)
RecordIs(q, n, g, s, p, cs) ==
  /\ RecordOK(q, n, g) /\ q.born = s /\ q.parent = p /\ q.children = cs
  /\ \A x \in DOMAIN q.owned : q.owned[x] \in cs

(* The three kinds of record there are at the start. *)
LEMMA BlankOK ==
  ASSUME NEW n \in Nat, NEW s \in 1..(n - 1), NEW g, NEW q, q = Blank(s, "World")
  PROVE  RecordIs(q, n, g, s, Nil, {})
<1>1. RecordFits(q, n) /\ q.properties = Nothing /\ q.owned = Nothing /\ q.elements = Nothing /\ q.kind = "plain"
      /\ q.born = s /\ q.parent = Nil /\ q.children = {}
  BY DEF Blank, Ref, RecordFits
<1>2. /\ IsFun(Nothing) /\ DOMAIN Nothing = {} /\ IsFiniteSet(DOMAIN Nothing)
      /\ ElementsOK(Nothing, "plain", n, g)
  BY NothingFacts
<1> QED BY <1>1, <1>2 DEF RecordOK, RecordFits, RecordIs

WithField(s, c) ==
  [Blank(s, "World") EXCEPT !.children = {c}, !.properties = With(Nothing, Field, c),
                            !.owned = With(Nothing, Field, c)]
OfParent(s, kind, p) == [Blank(s, "World") EXCEPT !.kind = kind, !.parent = p]
LEMMA FilledOK ==
  ASSUME NEW n \in Nat, NEW s \in 1..(n - 1), NEW g, NEW c \in Old(n), NEW q, q = WithField(s, c)
  PROVE  RecordIs(q, n, g, s, Nil, {c})
<1> DEFINE w == With(Nothing, Field, c)
<1>1. RecordFits(q, n) /\ q.properties = w /\ q.owned = w /\ q.elements = Nothing /\ q.kind = "plain"
      /\ q.born = s /\ q.parent = Nil /\ q.children = {c}
  <2> HIDE DEF w
  <2>1. q = [Blank(s, "World") EXCEPT !.children = {c}, !.properties = w, !.owned = w]
    BY DEF w, WithField
  <2>2. /\ q.properties = w /\ q.owned = w /\ q.elements = Nothing /\ q.kind = "plain" /\ q.born = s
        /\ q.parent = Nil /\ q.children = {c} /\ q.lifetime = "World" /\ q.capacity = 0 /\ q.prototypes = 0
    BY <2>1 DEF Blank
  <2>3. q \in [born : {q.born}, lifetime : {q.lifetime}, kind : {q.kind}, parent : {q.parent}, children : {q.children},
               properties : {q.properties}, owned : {q.owned}, elements : {q.elements},
               capacity : {q.capacity}, prototypes : {q.prototypes}]
    BY <2>1 DEF Blank
  <2> QED BY <2>2, <2>3 DEF RecordFits, Ref
<1>2. ElementsOK(Nothing, "plain", n, g) /\ DOMAIN Nothing = {}
  BY NothingFacts
<1>3. IsFun(w) /\ DOMAIN w = {Field} /\ w[Field] = c
  BY <1>2 DEF With, IsFun
<1>4. IsFiniteSet(DOMAIN w)
  BY <1>3, FS_Singleton
<1> HIDE DEF w
<1> QED BY <1>1, <1>2, <1>3, <1>4 DEF RecordOK, RecordFits, Ref, RecordIs

LEMMA ContainerOK ==
  ASSUME NEW n \in Nat, NEW s \in 1..(n - 1), NEW g, NEW kind \in {"vector", "table"}, NEW p \in Old(n), NEW q,
         q = OfParent(s, kind, p)
  PROVE  RecordIs(q, n, g, s, p, {})
<1>1. RecordFits(q, n) /\ q.properties = Nothing /\ q.owned = Nothing /\ q.elements = Nothing /\ q.kind = kind
      /\ q.born = s /\ q.parent = p /\ q.children = {}
  <2>2. /\ q.properties = Nothing /\ q.owned = Nothing /\ q.elements = Nothing /\ q.kind = kind /\ q.born = s
        /\ q.parent = p /\ q.children = {} /\ q.lifetime = "World" /\ q.capacity = 0 /\ q.prototypes = 0
    BY DEF Blank, OfParent
  <2>3. q \in [born : {q.born}, lifetime : {q.lifetime}, kind : {q.kind}, parent : {q.parent}, children : {q.children},
               properties : {q.properties}, owned : {q.owned}, elements : {q.elements},
               capacity : {q.capacity}, prototypes : {q.prototypes}]
    BY DEF Blank, OfParent
  <2> QED BY <2>2, <2>3 DEF RecordFits, Ref
<1>2. /\ IsFun(Nothing) /\ DOMAIN Nothing = {} /\ IsFiniteSet(DOMAIN Nothing)
      /\ Cardinality(DOMAIN Nothing) = 0 /\ ElementsOK(Nothing, kind, n, g)
  BY NothingFacts
<1> QED BY <1>1, <1>2 DEF RecordOK, RecordFits, RecordIs

(* What the record of a named object, and of a static container, are. *)
NamedIs(statics, s, n, g) ==
  LET q == StaticRecord(statics, s)
  IN  RecordIs(q, n, g, s, Nil, IF s \in Filled(statics) THEN {Container(statics, s)} ELSE {})
ContainerIs(statics, i, n, g) ==
  LET q == StaticRecord(statics, Place(statics, i))
  IN  RecordIs(q, n, g, Place(statics, i), NamedObject(i), {})

(* They are well formed. *)
LEMMA StaticRecordsAre ==
  ASSUME NEW g \in Games, NEW statics, statics = g.statics, NEW n,
         n = Len(statics) + 2 * Cardinality(Filled(statics)) + 1
  PROVE  /\ \A s \in 1..Len(statics) : NamedIs(statics, s, n, g)
         /\ \A i \in Filled(statics) : ContainerIs(statics, i, n, g)
<1>1. statics \in Seq({"none", "vector", "table"})
  BY GameTypes
<1>2. Len(statics) \in Nat /\ \A i \in 1..Len(statics) : statics[i] \in {"none", "vector", "table"}
  <2>1. statics \in [1..Len(statics) -> {"none", "vector", "table"}] BY <1>1
  <2> QED BY <1>1, <2>1
<1>3. /\ Cardinality(Filled(statics)) \in Nat
      /\ \A i \in Filled(statics) :
           Place(statics, i) \in Len(statics) + 2 .. Len(statics) + 2 * Cardinality(Filled(statics))
      /\ \A i, j \in Filled(statics) : Place(statics, i) = Place(statics, j) => i = j
  BY <1>2, PlaceFacts
<1>4. \A i \in Filled(statics) : i \in 1..Len(statics) /\ statics[i] \in {"vector", "table"}
  BY <1>2 DEF Filled
<1>5. n \in Nat
  BY <1>2, <1>3
<1>6. ASSUME NEW i \in Filled(statics)
      PROVE  Place(statics, i) \in 1..(n - 1) /\ Container(statics, i) \in Old(n) /\ NamedObject(i) \in Old(n)
  <2>1. Place(statics, i) \in 1..(n - 1) /\ i \in 1..(n - 1)
    BY <1>2, <1>3, <1>4, <1>5
  <2> QED BY <2>1 DEF Container, NamedObject, Old
<1>7. ASSUME NEW s \in 1..Len(statics) PROVE NamedIs(statics, s, n, g)
  <2>1. s \in 1..(n - 1) BY <1>2, <1>3
  <2>2. CASE s \notin Filled(statics)
    <3>1. StaticRecord(statics, s) = Blank(s, "World")
      BY <2>2, <1>2 DEF StaticRecord
    <3> QED BY <3>1, <2>1, <2>2, <1>5, BlankOK DEF NamedIs
  <2>3. CASE s \in Filled(statics)
    <3>1. StaticRecord(statics, s) =
            [Blank(s, "World") EXCEPT !.children = {Container(statics, s)},
                                      !.properties = With(Nothing, Field, Container(statics, s)),
                                      !.owned = With(Nothing, Field, Container(statics, s))]
      BY <2>3, <1>2 DEF StaticRecord
    <3>2. Container(statics, s) \in Old(n) BY <2>3, <1>6
    <3> DEFINE q == StaticRecord(statics, s)
               c == Container(statics, s)
    <3>3. c \in Old(n) BY <3>2
    <3>4. q = WithField(s, c) BY <3>1 DEF WithField
    <3> HIDE DEF q, c
    <3>5. RecordIs(q, n, g, s, Nil, {c})
      BY ONLY <3>3, <3>4, <2>1, <1>5, FilledOK
    <3> QED BY <3>5, <2>3 DEF NamedIs, q, c
  <2> QED BY <2>2, <2>3
<1>8. ASSUME NEW i \in Filled(statics) PROVE ContainerIs(statics, i, n, g)
  <2> DEFINE s == Place(statics, i)
             j == CHOOSE x \in Filled(statics) : Place(statics, x) = s
  <2>1. ~(s <= Len(statics)) BY <1>2, <1>3
  <2>2. j \in Filled(statics) /\ Place(statics, j) = s OBVIOUS
  <2>3. j = i BY <2>2, <1>3
  <2>4. StaticRecord(statics, s) = [Blank(s, "World") EXCEPT !.kind = statics[j], !.parent = NamedObject(j)]
    BY <2>1 DEF StaticRecord
  <2> HIDE DEF j
  <2>5. StaticRecord(statics, s) = [Blank(s, "World") EXCEPT !.kind = statics[i], !.parent = NamedObject(i)]
    BY <2>3, <2>4
  <2> HIDE DEF s
  <2>6. s \in 1..(n - 1) /\ NamedObject(i) \in Old(n) BY <1>6 DEF s
  <2>7. statics[i] \in {"vector", "table"} BY <1>4
  <2> DEFINE q == StaticRecord(statics, s)
             p == NamedObject(i)
             kind == statics[i]
  <2>8. q = OfParent(s, kind, p) /\ p \in Old(n) /\ kind \in {"vector", "table"}
    BY <2>5, <2>6, <2>7 DEF OfParent
  <2> HIDE DEF q, p, kind
  <2>9. RecordIs(q, n, g, s, p, {})
    BY ONLY <2>8, <2>6, <1>5, ContainerOK
  <2> QED BY <2>9 DEF ContainerIs, s, q, p
<1> QED BY <1>7, <1>8

(* The heap a game starts with. *)
LEMMA StartedOK ==
  ASSUME NEW g \in Games, NEW h, h = Started(g.statics)
  PROVE  HeapOK(h, g) /\ Len(g.statics) < h.next_identity
<1>0. PICK statics : statics = g.statics
  OBVIOUS
<1> DEFINE l == Len(statics)
           F == Filled(statics)
           n == l + 2 * Cardinality(F) + 1
<1>1. /\ statics \in Seq({"none", "vector", "table"}) /\ l \in Nat
      /\ IsFiniteSet(F) /\ Cardinality(F) \in Nat
      /\ \A i \in F : Place(statics, i) \in l + 2 .. l + 2 * Cardinality(F)
      /\ F # {} => Cardinality(F) >= 1
  <2>1. statics \in Seq({"none", "vector", "table"}) BY <1>0, GameTypes
  <2>2. l \in Nat BY <2>1
  <2> QED BY <2>1, <2>2, PlaceFacts
<1>2. F \subseteq 1..l
  BY DEF Filled
<1>3. /\ h.records = StaticRecords(statics)
      /\ h \in [records : {h.records}, roots : {{NamedObject(i) : i \in 1..l}},
                free : {IF F = {} THEN {} ELSE {l + 1}},
                next_identity : {n}, charged : {Total([records |-> StaticRecords(statics)])}, status : {"live"}]
  BY <1>0, StartedIs
<1>4. n \in Nat /\ n = h.next_identity /\ l < n
  BY <1>1, <1>3
<1>5. /\ \A s \in 1..l : NamedIs(statics, s, n, g)
      /\ \A i \in F : ContainerIs(statics, i, n, g)
  BY <1>0, StaticRecordsAre
<1>6. DOMAIN h.records = 1..l \cup {Place(statics, i) : i \in F}
      /\ \A s \in DOMAIN h.records : h.records[s] = StaticRecord(statics, s)
  BY <1>3 DEF StaticRecords
<1>7. /\ h.roots = {NamedObject(i) : i \in 1..l} /\ h.free = (IF F = {} THEN {} ELSE {l + 1})
      /\ h.status = "live" /\ h.charged = Total([records |-> StaticRecords(statics)])
  BY <1>3
<1>8. Shaped(h)
  <2>1. IsFun(h.records) BY <1>3 DEF IsFun, StaticRecords
  <2>2. h \in [records : {h.records}, roots : {h.roots}, free : {h.free}, next_identity : {h.next_identity},
         charged : {h.charged}, status : {h.status}]
    BY ONLY <1>3
  <2> QED BY <2>1, <2>2 DEF Shaped
<1>9. \A s \in DOMAIN h.records : s \in 1..(n - 1)
  BY <1>1, <1>4, <1>6
<1> DEFINE R(s) == h.records[s]
<1>10. ASSUME NEW s \in 1..l
       PROVE  /\ s \in DOMAIN h.records /\ RecordOK(R(s), n, g) /\ R(s).born = s /\ R(s).parent = Nil
              /\ R(s).children = IF s \in F THEN {Container(statics, s)} ELSE {}
              /\ \A x \in DOMAIN R(s).owned : R(s).owned[x] \in R(s).children
  <2>1. s \in DOMAIN h.records /\ R(s) = StaticRecord(statics, s) BY <1>6
  <2>2. NamedIs(statics, s, n, g) BY <1>5
  <2> QED BY <2>1, <2>2 DEF NamedIs, RecordIs
<1>11. ASSUME NEW i \in F, NEW s, s = Place(statics, i)
       PROVE  /\ s \in DOMAIN h.records /\ RecordOK(R(s), n, g) /\ R(s).born = s /\ R(s).parent = NamedObject(i)
              /\ R(s).children = {} /\ \A x \in DOMAIN R(s).owned : R(s).owned[x] \in R(s).children
  <2>1. s \in DOMAIN h.records /\ R(s) = StaticRecord(statics, s) BY <1>6, <1>11
  <2>2. ContainerIs(statics, i, n, g) BY <1>5
  <2> QED BY <1>11, <2>1, <2>2 DEF ContainerIs, RecordIs
<1>12. /\ \A i \in 1..l : NamedObject(i) \in Old(n) /\ NamedObject(i) # Nil /\ NamedObject(i).slot = i /\ NamedObject(i).born = i
       /\ \A i \in F : /\ Container(statics, i) \in Old(n) /\ Container(statics, i) # Nil
                       /\ Container(statics, i).slot = Place(statics, i)
                       /\ Container(statics, i).born = Place(statics, i)
  <2>1. ASSUME NEW s \in 1..(n - 1), NEW o, o = [slot |-> s, born |-> s] PROVE o \in Old(n) /\ o # Nil
    <3>1. o \in [slot : Nat, born : Nat] BY <2>1, <1>4
    <3> QED BY <2>1, <3>1, NilIsNoHandle DEF Old
  <2>2. \A i \in 1..l : i \in 1..(n - 1) BY <1>1, <1>4
  <2>3. \A i \in F : Place(statics, i) \in 1..(n - 1) BY <1>1, <1>4
  <2> QED BY <2>1, <2>2, <2>3 DEF NamedObject, Container
<1> HIDE DEF n, R
<1>13. \A s \in DOMAIN h.records : RecordOK(h.records[s], n, g)
  <2> SUFFICES ASSUME NEW s \in DOMAIN h.records PROVE RecordOK(h.records[s], n, g)
    OBVIOUS
  <2>1. CASE s \in 1..l BY <2>1, <1>10 DEF R
  <2>2. CASE s \in {Place(statics, i) : i \in F} BY <2>2, <1>11 DEF R
  <2> QED BY <2>1, <2>2, <1>6
<1>14. TreeOK(h)
  <2>1. ASSUME NEW o \in h.roots PROVE Live(h, o) /\ Of(h, o).parent = Nil
    <3>1. PICK i \in 1..l : o = NamedObject(i) BY <1>7
    <3>2. i \in DOMAIN h.records /\ h.records[i].born = i /\ h.records[i].parent = Nil BY <1>10 DEF R
    <3>3. o # Nil /\ o.slot = i /\ o.born = i BY <3>1, <1>12
    <3> QED BY <3>2, <3>3 DEF Live, Of
  <2>2. ASSUME NEW s \in DOMAIN h.records, h.records[s].parent = Nil PROVE HandleAt(h, s) \in h.roots
    <3>1. CASE s \in 1..l
      <4>1. HandleAt(h, s) = NamedObject(s) BY <3>1, <1>10 DEF HandleAt, NamedObject, R
      <4> QED BY <3>1, <4>1, <1>7
    <3>2. CASE \E i \in F : s = Place(statics, i)
      BY <3>2, <2>2, <1>2, <1>11, <1>12 DEF R
    <3> QED BY <3>1, <3>2, <1>6
  <2>3. ASSUME NEW s \in DOMAIN h.records, NEW p, p = h.records[s].parent, p # Nil
        PROVE  Live(h, p) /\ HandleAt(h, s) \in Of(h, p).children /\ p.born < h.records[s].born
    <3>1. CASE s \in 1..l BY <3>1, <2>3, <1>10 DEF R
    <3>2. CASE \E i \in F : s = Place(statics, i)
      <4>1. PICK i \in F : s = Place(statics, i) BY <3>2
      <4>2. i \in 1..l /\ i \in DOMAIN h.records BY <1>2, <1>10
      <4>3. p = NamedObject(i) /\ R(s).born = s BY <2>3, <4>1, <1>11 DEF R
      <4>4. Live(h, p) /\ Of(h, p) = R(i) BY <4>2, <4>3, <1>10, <1>12 DEF Live, Of, R
      <4>5. HandleAt(h, s) = Container(statics, i) BY <4>1, <4>3 DEF HandleAt, Container, R
      <4>6. i < s BY <1>1, <1>2, <4>1
      <4> QED BY <4>2, <4>3, <4>4, <4>5, <4>6, <1>10, <1>12 DEF R
    <3> QED BY <3>1, <3>2, <1>6
  <2>4. ASSUME NEW s \in DOMAIN h.records, NEW c \in h.records[s].children
        PROVE  Live(h, c) /\ Of(h, c).parent = HandleAt(h, s)
    <3>1. CASE s \in 1..l
      <4>1. h.records[s].children = IF s \in F THEN {Container(statics, s)} ELSE {}
        BY <3>1, <1>10 DEF R
      <4>5. s \in F /\ c = Container(statics, s)
        <5>1. CASE s \in F BY <5>1, <4>1, <2>4
        <5>2. CASE s \notin F BY <5>2, <4>1, <2>4
        <5> QED BY <5>1, <5>2
      <4>2. Live(h, c) /\ Of(h, c).parent = NamedObject(s) BY <4>5, <1>11, <1>12 DEF Live, Of, R
      <4>3. HandleAt(h, s) = NamedObject(s) BY <3>1, <1>10 DEF HandleAt, NamedObject, R
      <4> QED BY <4>2, <4>3
    <3>2. CASE \E i \in F : s = Place(statics, i)
      BY <3>2, <2>4, <1>11 DEF R
    <3> QED BY <3>1, <3>2, <1>6
  <2> QED BY <2>1, <2>2, <2>3, <2>4 DEF TreeOK
<1>15. h.charged = Total(h)
  <2>1. IsFiniteSet(DOMAIN h.records)
    <3>1. IsFiniteSet(1..(n - 1)) BY <1>4, LengthOf
    <3> QED BY <3>1, <1>9, FS_Subset DEF n
  <2>2. PICK k : k = [records |-> StaticRecords(statics)] OBVIOUS
  <2>3. k.records = h.records BY <2>2, <1>3
  <2>4. Total(k) = Total(h) BY <2>3 DEF Total
  <2> QED BY <2>2, <2>4, <1>7
<1>16. DOMAIN h.records \cup h.free \subseteq 1..(n - 1) /\ DOMAIN h.records \cap h.free = {}
  <2>1. ASSUME NEW x \in h.free PROVE x = l + 1 /\ Cardinality(F) >= 1
    BY <2>1, <1>1, <1>7
  <2>2. \A x \in h.free : x \in 1..(n - 1) /\ x \notin 1..l BY <2>1, <1>1, <1>4 DEF n
  <2>3. \A x \in h.free : x \notin {Place(statics, i) : i \in F} BY <2>1, <1>1
  <2> QED BY <2>2, <2>3, <1>6, <1>9 DEF n
<1>17. h.next_identity \in 1..g.identities /\ h.charged <= g.properties
       /\ Cardinality(DOMAIN h.records) <= g.objects
  BY StaticsFit, GameTypes, <1>4
<1>18. h.roots \subseteq Old(n)
  BY <1>7, <1>12
<1>19. OwnsOK(h)
  <2>1. SUFFICES ASSUME NEW s \in DOMAIN h.records, NEW x \in DOMAIN h.records[s].owned,
                        NEW c, c = h.records[s].owned[x], Live(h, c)
                 PROVE  h.records[c.slot].parent = HandleAt(h, s)
    BY DEF OwnsOK
  <2>2. c \in h.records[s].children
    <3>1. CASE s \in 1..l BY <3>1, <2>1, <1>10 DEF R
    <3>2. CASE s \in {Place(statics, i) : i \in F} BY <3>2, <2>1, <1>11 DEF R
    <3> QED BY <3>1, <3>2, <1>6
  <2> QED BY <2>2, <1>14 DEF TreeOK, Of
<1> QED BY <1>0, <1>4, <1>7, <1>8, <1>13, <1>14, <1>15, <1>16, <1>17, <1>18, <1>19 DEF HeapOK

(* The invariant holds when a game starts. *)
LEMMA StartOK ==
  ASSUME Init PROVE AllOK
<1>1. /\ game \in Games /\ heap = Started(game.statics)
      /\ journal = <<>> /\ containers = <<>> /\ journalling = FALSE /\ history = <<>>
      /\ default_lifetime = "World" /\ constructions = <<>> /\ exceptions = {}
      /\ phase = "startup" /\ past = <<>> /\ despawned = {} /\ calls = 0
  BY DEF Init, Begun, Statics
<1>2. HeapOK(heap, game) /\ Len(Statics) < heap.next_identity
  BY <1>1, StartedOK DEF Statics
<1>3. /\ Listed(journal) /\ Len(journal) = 0 /\ DOMAIN journal = {}
      /\ Listed(containers) /\ Len(containers) = 0 /\ DOMAIN containers = {}
      /\ Listed(history) /\ Len(history) = 0 /\ DOMAIN history = {}
      /\ Listed(past) /\ Len(past) = 0
      /\ Listed(constructions) /\ DOMAIN constructions = {}
  BY <1>1, ListEmpty
<1>4. game.properties \in Nat /\ game.objects \in Nat /\ game.depth \in Nat /\ game.most_calls \in Nat
  BY <1>1, GameTypes
<1>5. JournalsOK(heap, game, journal, containers, history)
  BY <1>3, <1>4 DEF JournalsOK, ContainersOK
<1>6. FramesWell(heap, Len(Statics), constructions, exceptions, despawned)
  BY <1>1, <1>2, <1>3 DEF FramesWell, FrameTypes, FramesOK
<1>7. OtherTypes
  <2>1. calls \in 0..MaxCalls BY <1>1, <1>4 DEF MaxCalls
  <2>2. journalling \in BOOLEAN /\ default_lifetime \in {"World", "Turn"}
        /\ phase \in {"startup", "between", "open", "failed"}
    BY <1>1
  <2> QED BY <2>1, <2>2, <1>3 DEF OtherTypes
<1> QED BY <1>2, <1>5, <1>6, <1>7 DEF AllOK

(***************************************************************************)
(* Theorems                                                                *)
(***************************************************************************)
(* The invariant holds in every state of every game: heaps are forests whose *)
(* counter is the sum of the charges, what the journals hold can be put back *)
(* in its order, and constructors and exceptions have their objects        *)
(* (objects.rs create, adopt, destroy, charge; objects/history.rs).        *)
THEOREM StoreInvariant == Spec => []AllOK
<1>1. Init => AllOK
  BY StartOK
<1>2. AllOK /\ [Next]_vars => AllOK'
  BY StepOK, StutterOK
<1> QED BY <1>1, <1>2, PTL DEF Spec

(* A handle that is held has been given out, so it is not given out again. *)
LEMMA RevivalOK ==
  ASSUME AllOK, [Next]_vars
  PROVE  \A r \in Range(heap.records) : \A o \in Held(r) \ LiveHandles(heap) :
           o \notin LiveHandles(heap)'
<1>1. AllOK' /\ Descends(heap, heap')
  BY StepOK, StutterOK
<1>2. HeapOK(heap, game)
  BY DEF AllOK
<1>3. SUFFICES ASSUME NEW r \in Range(heap.records), NEW o \in Held(r), o \in LiveHandles(heap)'
               PROVE  o \in LiveHandles(heap)
  OBVIOUS
<1>4. o \in Old(heap.next_identity)
  <2>1. PICK s \in DOMAIN heap.records : r = heap.records[s] BY DEF Range
  <2>2. RecordOK(r, heap.next_identity, game) BY <1>2, <2>1 DEF HeapOK
  <2> QED BY <2>2, HeldOld
<1>5. Live(heap', o)
  <2>1. PICK s \in DOMAIN heap'.records : o = [slot |-> s, born |-> heap'.records[s].born]
    BY <1>3 DEF LiveHandles, HandleAt
  <2>2. o # Nil BY <1>2, <1>4, HandleFacts
  <2> QED BY <2>1, <2>2 DEF Live
<1>6. Live(heap, o) BY <1>1, <1>2, <1>4, <1>5, LiveBefore
<1>7. HandleAt(heap, o.slot) = o /\ o.slot \in DOMAIN heap.records
  BY <1>2, <1>4, <1>6, HandleFacts DEF Live
<1> QED BY <1>7 DEF LiveHandles

(* No handle that a record still holds is live again once it has gone, in any *)
(* game: slots are used again, identities are not (objects.rs create, Handle). *)
THEOREM NothingRevives == Spec => NoRevival
<1>1. AllOK /\ [Next]_vars =>
        \A r \in Range(heap.records) : \A o \in Held(r) \ LiveHandles(heap) :
          o \notin LiveHandles(heap)'
  BY RevivalOK
<1>2. AllOK /\ [Next]_vars =>
        [\A r \in Range(heap.records) : \A o \in Held(r) \ LiveHandles(heap) :
          o \notin LiveHandles(heap)']_vars
  BY <1>1
<1> QED BY <1>2, StoreInvariant, PTL DEF NoRevival, Spec

(* The frames say it. *)
LEMMA HandledOK ==
  ASSUME AllOK PROVE HandledLives
<1>1. SUFFICES ASSUME heap.status = "live", NEW e \in exceptions, e.claimed
               PROVE  Live(heap, e.activation) /\ (Live(heap, e.object) \/ e.object \in despawned)
  BY DEF HandledLives
<1>2. FramesOK(heap, Len(Statics), constructions, exceptions, despawned)
  BY <1>1 DEF AllOK, FramesWell
<1>3. Live(heap, e.activation) BY <1>1, <1>2 DEF FramesOK
<1>4. FrameOK(e, heap, Len(Statics), despawned) BY <1>2, <1>3 DEF FramesOK
<1> QED BY <1>3, <1>4 DEF FrameOK

(* A claimed exception has its activation, and its object unless a game    *)
(* despawned that, whatever else is thrown, handled or released meanwhile  *)
(* (native_objects.rs ops 43, 65, 76, 78 and 79).                          *)
THEOREM HandledAlwaysLives == Spec => []HandledLives
<1>1. AllOK => HandledLives BY HandledOK
<1> QED BY <1>1, StoreInvariant, PTL

(* The forest has no cycle: every record is below a root, by induction on  *)
(* its identity.                                                           *)
LEMMA ForestFollows ==
  ASSUME HeapOK(heap, game) PROVE ForestOK
<1> DEFINE D == DOMAIN heap.records
           slots == {o.slot : o \in heap.roots}
           S == Subtree(heap, slots)
           n == heap.next_identity
<1>1. TreeOK(heap) /\ D \cap heap.free = {} /\ heap.roots \subseteq Old(n)
  BY DEF HeapOK
<1>2. IsFiniteSet(D) /\ Cardinality(D) \in Nat /\ Closed(heap, D)
  BY HeapFinite
<1>3. \A o \in heap.roots : Live(heap, o) /\ o.slot \in D
  BY <1>1 DEF TreeOK, Live
<1>4. Rooted(heap, slots)
  BY <1>2, <1>3 DEF Rooted
<1>5. slots \subseteq S /\ Closed(heap, S) /\ S \subseteq D
  <2> HIDE DEF slots
  <2> QED BY <1>4, SubtreeClosed
<1>6. \A s \in D : heap.records[s].born \in Nat \ {0}
  <2>1. \A s \in D : RecordOK(heap.records[s], n, game) BY DEF HeapOK
  <2>2. n \in Nat BY GameTypes DEF HeapOK
  <2> QED BY <2>1, <2>2 DEF RecordOK
<1> DEFINE A == {m \in Nat : \A s \in D : heap.records[s].born <= m => s \in S}
<1> HIDE DEF S
<1>7. A = Nat
  <2>1. 0 \in A BY <1>6
  <2>2. ASSUME NEW m \in A PROVE m + 1 \in A
    <3>1. SUFFICES ASSUME NEW s \in D, heap.records[s].born <= m + 1 PROVE s \in S
      OBVIOUS
    <3>2. \A t \in D : heap.records[t].born <= m => t \in S OBVIOUS
    <3>3. PICK p : p = heap.records[s].parent OBVIOUS
    <3>4. CASE p = Nil
      <4>1. HandleAt(heap, s) \in heap.roots BY <3>3, <3>4, <1>1 DEF TreeOK
      <4>2. HandleAt(heap, s).slot = s BY DEF HandleAt
      <4>3. s \in slots BY <4>1, <4>2
      <4> QED BY <4>3, <1>5
    <3>5. CASE p # Nil
      <4>1. Live(heap, p) /\ HandleAt(heap, s) \in heap.records[p.slot].children
            /\ p.born < heap.records[s].born
        BY <3>3, <3>5, <1>1 DEF TreeOK, Of
      <4>2. p.slot \in D /\ heap.records[p.slot].born = p.born BY <4>1 DEF Live
      <4>3. p.born \in Nat /\ heap.records[s].born \in Nat BY <4>2, <1>6
      <4>4. p.slot \in S BY <3>1, <3>2, <4>1, <4>2, <4>3
      <4>5. HandleAt(heap, s).slot \in S BY <4>1, <4>4, <1>5 DEF Closed
      <4> QED BY <4>5 DEF HandleAt
    <3> QED BY <3>4, <3>5
  <2>3. A \in SUBSET Nat OBVIOUS
  <2> HIDE DEF A
  <2> QED BY <2>1, <2>2, <2>3, SetInduction
<1>8. D = S
  <2>1. ASSUME NEW s \in D PROVE s \in S
    <3>1. heap.records[s].born \in A /\ heap.records[s].born <= heap.records[s].born
      <4> HIDE DEF A
      <4> QED BY <1>6, <1>7
    <3> QED BY <3>1
  <2> QED BY <2>1, <1>5
<1>9. \A o \in LiveHandles(heap) : o \in Old(n) /\ Live(heap, o) /\ o.slot \in D /\ o = HandleAt(heap, o.slot)
                                   /\ Of(heap, o) = heap.records[o.slot]
  BY HandleFacts DEF LiveHandles, Of
<1>10. heap.roots \subseteq LiveHandles(heap)
  BY <1>1, <1>3, HandleFacts DEF LiveHandles
<1>11. ASSUME NEW o \in LiveHandles(heap)
       PROVE  /\ Of(heap, o).parent = Nil <=> o \in heap.roots
              /\ Of(heap, o).parent # Nil =>
                   Live(heap, Of(heap, o).parent) /\ o \in Of(heap, Of(heap, o).parent).children
              /\ \A c \in Of(heap, o).children : Live(heap, c) /\ Of(heap, c).parent = o
  BY <1>1, <1>9 DEF TreeOK
<1> QED BY <1>1, <1>8, <1>10, <1>11 DEF ForestOK, S

(* The counter. *)
LEMMA CountedFollows ==
  ASSUME HeapOK(heap, game) PROVE Counted /\ heap.charged \in Nat
<1>1. heap.charged = Total(heap) /\ heap.charged <= PropertyLimit
  BY DEF HeapOK, PropertyLimit
<1>2. IsFiniteSet(DOMAIN heap.records) /\ Counts(heap, DOMAIN heap.records)
      /\ Total(heap) = Sum(heap, DOMAIN heap.records)
  BY HeapFinite
<1>3. DOMAIN heap.records \in SUBSET DOMAIN heap.records OBVIOUS
<1>4. Sum(heap, DOMAIN heap.records) \in Nat BY <1>2, <1>3, SumFacts
<1> QED BY <1>1, <1>2, <1>4 DEF Counted

(* The types. *)
LEMMA TypesFollow ==
  ASSUME AllOK PROVE TypeOK
<1> DEFINE n == heap.next_identity
<1>1. HeapOK(heap, game) /\ game \in Games
  BY DEF AllOK, HeapOK
<1>2. n \in 1..MaxIdentity /\ MaxIdentity \in Nat
  BY <1>1, GameTypes DEF HeapOK, MaxIdentity
<1>3. Old(n) \subseteq Handles /\ Ref(n) \subseteq Data
  BY <1>2 DEF Old, Ref, Handles, Data
<1>4. DOMAIN heap.records \subseteq 1..MaxIdentity /\ heap.free \subseteq 1..MaxIdentity
      /\ heap.roots \subseteq Handles /\ heap.status \in {"live", "terminal", "aborted"}
  BY <1>1, <1>2, <1>3 DEF HeapOK
<1>5. ASSUME NEW r \in Range(heap.records)
      PROVE  /\ r.born \in 1..MaxIdentity /\ r.lifetime \in {"World", "Turn"}
             /\ r.kind \in {"plain", "vector", "table"}
             /\ r.parent \in Data /\ r.children \subseteq Handles
             /\ DOMAIN r.properties \subseteq Props \cup {Field} /\ Range(r.properties) \subseteq Data
             /\ DOMAIN r.owned \subseteq DOMAIN r.properties /\ Range(r.owned) \subseteq Handles
             /\ Range(r.elements) \subseteq Data
             /\ r.kind = "vector" => DOMAIN r.elements = 1..Cardinality(DOMAIN r.elements)
             /\ r.capacity \in Nat /\ r.prototypes \in 0..1
  <2>1. PICK s \in DOMAIN heap.records : r = heap.records[s] BY DEF Range
  <2>2. RecordOK(r, n, game) BY <1>1, <2>1 DEF HeapOK
  <2>3. /\ r.born \in 1..(n - 1) /\ r.lifetime \in {"World", "Turn"}
        /\ r.kind \in {"plain", "vector", "table"}
        /\ r.parent \in Ref(n) /\ r.children \subseteq Old(n)
        /\ r.capacity \in Nat /\ r.prototypes \in 0..1
    BY <2>2 DEF RecordOK
  <2>4. /\ DOMAIN r.properties \subseteq Props \cup {Field}
        /\ \A p \in DOMAIN r.properties : r.properties[p] \in Ref(n)
        /\ DOMAIN r.owned \subseteq DOMAIN r.properties
        /\ \A p \in DOMAIN r.owned : r.owned[p] \in Old(n)
    BY <2>2 DEF RecordOK, Props
  <2>5. /\ \A p \in DOMAIN r.elements : r.elements[p] \in Ref(n)
        /\ r.kind = "vector" => DOMAIN r.elements = 1..Cardinality(DOMAIN r.elements)
    BY <2>2 DEF RecordOK, ElementsOK
  <2>6. r.born \in 1..MaxIdentity BY <2>3, <1>2
  <2> HIDE DEF n
  <2>7. Range(r.properties) \subseteq Data /\ Range(r.owned) \subseteq Handles /\ Range(r.elements) \subseteq Data
    BY <2>4, <2>5, <1>3 DEF Range
  <2> QED BY <2>3, <2>4, <2>5, <2>6, <2>7, <1>3
<1>6. JournalsOK(heap, game, journal, containers, history)
  BY DEF AllOK
<1>7. /\ \A i \in DOMAIN journal :
           /\ journal[i].object \in Handles /\ journal[i].property \in Props \cup {Field}
           /\ journal[i].previous \in Data \cup {Absent}
      /\ Len(journal) <= PropertyLimit /\ Len(containers) <= ObjectLimit /\ Len(history) <= UndoDepth
  <2>1. \A i \in DOMAIN journal : PropertyOK(journal[i], heap, game) BY <1>6 DEF JournalsOK
  <2>2. Len(journal) <= PropertyLimit /\ Len(containers) <= ObjectLimit /\ Len(history) <= UndoDepth
    BY <1>6 DEF JournalsOK, PropertyLimit, ObjectLimit, UndoDepth
  <2> QED BY <2>1, <2>2, <1>3 DEF PropertyOK, Props
<1>8. FrameTypes(n, constructions, exceptions) /\ despawned \subseteq Old(n)
  BY DEF AllOK, FramesWell
<1>9. /\ \A i \in DOMAIN constructions : constructions[i].owner \in {"Published", "Owned"}
      /\ \A e \in exceptions : e.activation \in Handles /\ e.claimed \in BOOLEAN
      /\ despawned \subseteq Handles
  BY <1>3, <1>8 DEF FrameTypes
<1>10. /\ journalling \in BOOLEAN /\ default_lifetime \in {"World", "Turn"} /\ Len(past) = Len(history)
       /\ phase \in {"startup", "between", "open", "failed"} /\ calls \in 0..MaxCalls
  BY DEF AllOK, OtherTypes
<1>11. heap.charged \in Nat
  BY <1>1, CountedFollows
<1> QED BY <1>1, <1>2, <1>4, <1>5, <1>7, <1>9, <1>10, <1>11 DEF TypeOK

(* The types, the forest of owners and the counter of properties hold in   *)
(* every state, after failures in the middle of operations, rollbacks and  *)
(* undos included (objects.rs ready, charge, destroy, resource_failure).   *)
THEOREM StoreAlwaysOK == Spec => []StoreOK
<1>1. AllOK => StoreOK
  BY TypesFollow, ForestFollows, CountedFollows DEF StoreOK, AllOK
<1> QED BY <1>1, StoreInvariant, PTL
=============================================================================
