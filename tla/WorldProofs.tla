---------------------------- MODULE WorldProofs ----------------------------
(***************************************************************************)
(* Proofs about Objects, continued.  Nothing that ends with the turn can   *)
(* be reached from a World record: promote takes in what a Turn value      *)
(* leads to, and what comes back from a snapshot or from a journalled      *)
(* write was World when it was saved, or is promoted when it is put back.  *)
(* And a turn that fails, or is undone, leaves what was there when it      *)
(* began: its journal notes what every write found first.                  *)
(***************************************************************************)
EXTENDS ObjectsProofs

(***************************************************************************)
(* What promote reaches                                                    *)
(***************************************************************************)
(* The function that defines a subtree ends in a closed set. *)
LEMMA GrowthClosed ==
  ASSUME NEW h, NEW slots, Rooted(h, slots), NEW N, N = Cardinality(DOMAIN h.records), NEW f, Grows(h, f, slots, N)
  PROVE  slots \subseteq f[N] /\ Closed(h, f[N]) /\ f[N] \subseteq DOMAIN h.records
<1> DEFINE D == DOMAIN h.records
<1>0. N \in Nat /\ IsFiniteSet(D) /\ N = Cardinality(D)
  BY FS_CardinalityType DEF Rooted
<1>2. \A n \in 0..N : f[n] = IF n = 0 THEN slots ELSE f[n - 1] \cup Kids(h, f[n - 1])
  BY DEF Grows
<1> DEFINE A == {n \in Nat : n \in 0..N =>
                   /\ slots \subseteq f[n] /\ f[n] \subseteq D
                   /\ Closed(h, f[n]) \/ Cardinality(f[n]) >= n}
<1>3. 0 \in A
  <2>1. f[0] = slots
    <3>1. 0 \in 0..N
      BY <1>0
    <3> QED BY <3>1, <1>2
  <2>2. slots \subseteq D
    BY DEF Rooted
  <2>3. Cardinality(slots) \in Nat
    BY <2>2, <1>0, FS_Subset, FS_CardinalityType
  <2> HIDE DEF D
  <2> QED BY <2>1, <2>2, <2>3
<1>4. \A n \in A : n + 1 \in A
  <2>1. SUFFICES ASSUME NEW n \in A, n + 1 \in 0..N
                 PROVE  /\ slots \subseteq f[n + 1] /\ f[n + 1] \subseteq D
                        /\ Closed(h, f[n + 1]) \/ Cardinality(f[n + 1]) >= n + 1
    <3> HIDE DEF D
    <3> QED OBVIOUS
  <2>2. n \in Nat /\ n \in 0..N
    BY <2>1, <1>0
  <2>3. f[n + 1] = f[n] \cup Kids(h, f[n])
    <3>1. (n + 1) - 1 = n /\ n + 1 # 0
      BY <2>2
    <3> QED BY <2>1, <3>1, <1>2
  <2>4. slots \subseteq f[n] /\ f[n] \subseteq D /\ (Closed(h, f[n]) \/ Cardinality(f[n]) >= n)
    <3> HIDE DEF D
    <3> QED BY <2>2
  <2>5. Kids(h, f[n]) \subseteq D
    BY <2>4 DEF Kids, Closed, Rooted
  <2>6. f[n + 1] \subseteq D
    <3> HIDE DEF D
    <3> QED BY <2>3, <2>4, <2>5
  <2>7. CASE Closed(h, f[n])
    <3>1. f[n + 1] = f[n]
      BY <2>7, <2>3 DEF Closed, Kids
    <3> HIDE DEF D
    <3> QED BY <3>1, <2>4, <2>7, <2>6
  <2>8. CASE ~Closed(h, f[n])
    <3>1. f[n + 1] # f[n]
      BY <2>8, <2>3 DEF Closed, Kids
    <3>2. IsFiniteSet(f[n + 1]) /\ Cardinality(f[n + 1]) \in Nat
      BY <2>6, <1>0, FS_Subset, FS_CardinalityType
    <3>3. f[n] \in SUBSET f[n + 1]
      BY <2>3
    <3>4. Cardinality(f[n]) <= Cardinality(f[n + 1]) /\ Cardinality(f[n]) # Cardinality(f[n + 1])
      BY <3>1, <3>2, <3>3, FS_Subset
    <3>5. Cardinality(f[n]) \in Nat /\ Cardinality(f[n]) >= n
      <4>1. IsFiniteSet(f[n])
        BY <3>2, <3>3, FS_Subset
      <4> QED BY <4>1, FS_CardinalityType, <2>4, <2>8
    <3>6. Cardinality(f[n + 1]) >= n + 1
      BY ONLY <3>2, <3>4, <3>5, <2>2
    <3> HIDE DEF D
    <3> QED BY <3>6, <2>6, <2>4, <2>3
  <2> QED BY <2>7, <2>8
<1>5. A = Nat
  <2>1. A \in SUBSET Nat
    OBVIOUS
  <2> HIDE DEF A
  <2> QED BY <1>3, <1>4, <2>1, SetInduction
<1>6. slots \subseteq f[N] /\ f[N] \subseteq D /\ (Closed(h, f[N]) \/ Cardinality(f[N]) >= N)
  <2>1. N \in A /\ N \in 0..N
    <3> HIDE DEF A
    <3> QED BY <1>5, <1>0
  <2> HIDE DEF D
  <2> QED BY <2>1
<1>7. Closed(h, f[N])
  <2>1. CASE Cardinality(f[N]) >= N
    <3>1. Cardinality(f[N]) <= N /\ (N = Cardinality(f[N]) => D = f[N])
      BY <1>0, <1>6, FS_Subset
    <3>2. Cardinality(f[N]) \in Nat
      BY <1>0, <1>6, FS_Subset, FS_CardinalityType
    <3>3. N = Cardinality(f[N])
      BY <1>0, <3>1, <3>2, <2>1
    <3>4. D = f[N]
      BY <3>1, <3>3
    <3> QED BY <3>4 DEF Rooted
  <2> QED BY <1>6, <2>1
<1> QED BY <1>6, <1>7

(* The Turn records among some, and what a record leads promote to. *)
Turns(h, S) == {o \in S : Live(h, o) /\ Of(h, o).lifetime = "Turn"}
(* What promote visits from a record. *)
Visited(r) ==
  Range(r.properties) \cup r.children
  \cup (IF r.kind \in {"vector"} THEN Range(r.elements) ELSE {})

(* The function by which Reached is defined. *)
Spreads(h, f, v, N) ==
  f = [n \in 0..N |-> IF n = 0 THEN Turns(h, {v})
                      ELSE f[n - 1] \cup Turns(h, UNION {Visited(Of(h, o)) : o \in f[n - 1]})]

(* It exists, so Reached is its last value. *)
LEMMA SpreadExists ==
  ASSUME NEW h, NEW v, NEW N \in Nat
  PROVE  \E f : Spreads(h, f, v, N)
<1> DEFINE first == Turns(h, {v})
           After(S) == S \cup Turns(h, UNION {Visited(Of(h, o)) : o \in S})
           Fits1(f, m) == f = [n \in 0..m |-> IF n = 0 THEN first ELSE After(f[n - 1])]
           A == {m \in Nat : \E f : Fits1(f, m)}
<1>1. 0 \in A
  <2> DEFINE f == [n \in 0..0 |-> first]
  <2>1. Fits1(f, 0)
    <3> HIDE DEF first, After
    <3> QED OBVIOUS
  <2> HIDE DEF f, Fits1
  <2> QED BY <2>1
<1>2. \A m \in A : m + 1 \in A
  <2>1. SUFFICES ASSUME NEW m \in A PROVE \E g : Fits1(g, m + 1)
    <3> HIDE DEF Fits1
    <3> QED OBVIOUS
  <2>2. PICK f : Fits1(f, m)
    <3> HIDE DEF Fits1
    <3> QED OBVIOUS
  <2> HIDE DEF first, After
  <2> DEFINE g == [n \in 0..(m + 1) |-> IF n = m + 1 THEN After(f[m]) ELSE f[n]]
  <2>3. m \in Nat
    OBVIOUS
  <2>4. \A n \in 0..m : f[n] = IF n = 0 THEN first ELSE After(f[n - 1])
    BY <2>2
  <2>5. \A n \in 0..(m + 1) : g[n] = IF n = 0 THEN first ELSE After(g[n - 1])
    <3>1. SUFFICES ASSUME NEW n \in 0..(m + 1)
                   PROVE  g[n] = IF n = 0 THEN first ELSE After(g[n - 1])
      OBVIOUS
    <3>2. CASE n = 0
      <4>1. g[0] = f[0] /\ f[0] = first
        <5>1. 0 \in 0..(m + 1) /\ 0 # m + 1 /\ 0 \in 0..m
          BY <2>3
        <5>2. g[0] = f[0]
          BY <5>1
        <5>3. f[0] = first
          BY <5>1, <2>4
        <5> QED BY <5>2, <5>3
      <4> QED BY <4>1, <3>2
    <3>3. CASE n \in 1..m
      <4>1. g[n] = f[n] /\ g[n - 1] = f[n - 1] /\ n \in 0..m /\ n # 0
        BY <3>3, <2>3
      <4> QED BY <4>1, <2>4
    <3>4. CASE n = m + 1
      <4>1. g[n] = After(f[m]) /\ g[n - 1] = f[m] /\ n # 0
        BY <3>4, <2>3
      <4> QED BY <4>1
    <3> QED BY <3>2, <3>3, <3>4, <2>3
  <2>6. g = [n \in 0..(m + 1) |-> g[n]]
    OBVIOUS
  <2> HIDE DEF g
  <2>7. Fits1(g, m + 1)
    BY <2>5, <2>6
  <2> HIDE DEF Fits1
  <2> QED BY <2>7
<1>3. A = Nat
  <2>1. A \in SUBSET Nat
    OBVIOUS
  <2> HIDE DEF A
  <2> QED BY <1>1, <1>2, <2>1, SetInduction
<1>4. PICK f : Fits1(f, N)
  <2> HIDE DEF Fits1
  <2> QED BY <1>3
<1>5. Spreads(h, f, v, N)
  BY <1>4 DEF Spreads
<1> QED BY <1>5

(* The records as a tree whose children are what promote visits next. *)
Web(h) == [records |-> [s \in DOMAIN h.records |-> [children |-> Turns(h, Visited(h.records[s]))]]]

(* The slots of some handles. *)
Slotted(S) == {o.slot : o \in S}

(* Such a function is a growth of the web, slot by slot. *)
LEMMA SpreadGrows ==
  ASSUME NEW h, NEW v, NEW N \in Nat, NEW f, Spreads(h, f, v, N),
         NEW F, F = [n \in 0..N |-> Slotted(f[n])]
  PROVE  Grows(Web(h), F, Slotted(Turns(h, {v})), N)
<1>1. \A n \in 0..N : f[n] = IF n = 0 THEN Turns(h, {v})
                      ELSE f[n - 1] \cup Turns(h, UNION {Visited(Of(h, o)) : o \in f[n - 1]})
  BY DEF Spreads
<1> DEFINE A == {n \in Nat : n \in 0..N => \A o \in f[n] : Live(h, o)}
<1>2. 0 \in A
  BY <1>1 DEF Turns
<1>3. \A n \in A : n + 1 \in A
  <2>1. SUFFICES ASSUME NEW n \in A, n + 1 \in 0..N PROVE \A o \in f[n + 1] : Live(h, o)
    OBVIOUS
  <2>2. n \in Nat /\ n \in 0..N /\ (n + 1) - 1 = n /\ n + 1 # 0
    BY <2>1
  <2>3. f[n + 1] = f[n] \cup Turns(h, UNION {Visited(Of(h, o)) : o \in f[n]})
    BY <2>1, <2>2, <1>1
  <2>4. \A o \in f[n] : Live(h, o)
    BY <2>2
  <2> QED BY <2>3, <2>4 DEF Turns
<1>4. A = Nat
  <2>1. A \in SUBSET Nat
    OBVIOUS
  <2> HIDE DEF A
  <2> QED BY <1>2, <1>3, <2>1, SetInduction
<1>5. \A n \in 0..N : \A o \in f[n] : Live(h, o)
  BY <1>4
<1> HIDE DEF A
<1>6. ASSUME NEW n \in 0..N
      PROVE  F[n] = IF n = 0 THEN Slotted(Turns(h, {v})) ELSE F[n - 1] \cup Kids(Web(h), F[n - 1])
  <2>1. CASE n = 0
    BY <2>1, <1>1
  <2>2. CASE n # 0
    <3>1. n - 1 \in 0..N
      BY <2>2
    <3>2. f[n] = f[n - 1] \cup Turns(h, UNION {Visited(Of(h, o)) : o \in f[n - 1]})
      BY <2>2, <1>1
    <3> DEFINE P == f[n - 1]
    <3>3. \A o \in P : o.slot \in DOMAIN h.records
      BY <3>1, <1>5 DEF Live
    <3>4. F[n] = Slotted(f[n]) /\ F[n - 1] = Slotted(P)
      BY <3>1
    <3> HIDE DEF P
    <3>5. Slotted(Turns(h, UNION {Visited(Of(h, o)) : o \in P})) = Kids(Web(h), Slotted(P))
      <4>1. \A o \in P : Web(h).records[o.slot].children = Turns(h, Visited(Of(h, o)))
        BY <3>3 DEF Web, Of
      <4>2. UNION {Web(h).records[s].children : s \in Slotted(P)} = Turns(h, UNION {Visited(Of(h, o)) : o \in P})
        <5>1. \A x \in UNION {Web(h).records[s].children : s \in Slotted(P)} :
                x \in Turns(h, UNION {Visited(Of(h, o)) : o \in P})
          BY <4>1 DEF Slotted, Turns
        <5>2. \A x \in Turns(h, UNION {Visited(Of(h, o)) : o \in P}) :
                x \in UNION {Web(h).records[s].children : s \in Slotted(P)}
          BY <4>1 DEF Slotted, Turns
        <5> QED BY <5>1, <5>2
      <4> QED BY <4>2 DEF Kids, Slotted
    <3>6. Slotted(f[n]) = Slotted(P) \cup Slotted(Turns(h, UNION {Visited(Of(h, o)) : o \in P}))
      BY <3>2 DEF P, Slotted
    <3> QED BY <2>2, <3>4, <3>5, <3>6
  <2> QED BY <2>1, <2>2
<1>7. F = [n \in 0..N |-> F[n]]
  OBVIOUS
<1> QED BY <1>6, <1>7 DEF Grows

(* promote takes in everything a Turn value leads to. *)
LEMMA ReachedClosed ==
  ASSUME NEW h, HeapOK(h, game), NEW v, NEW S, S = Slotted(Reached(h, v, {"vector"}))
  PROVE  /\ Live(h, v) /\ Of(h, v).lifetime = "Turn" => v.slot \in S
         /\ \A s \in S : s \in DOMAIN h.records /\ \A w \in Turns(h, Visited(h.records[s])) : w.slot \in S
<1> DEFINE N == Cardinality(DOMAIN h.records)
           f == CHOOSE f : Spreads(h, f, v, N)
           slots == Slotted(Turns(h, {v}))
<1>1. N \in Nat /\ IsFiniteSet(DOMAIN h.records)
  BY HeapFinite
<1>2. Reached(h, v, {"vector"}) = f[N]
  BY DEF Reached, Spreads, Turns, Visited
<1>3. Spreads(h, f, v, N)
  <2> HIDE DEF N
  <2> QED BY <1>1, SpreadExists
<1> DEFINE F == [n \in 0..N |-> Slotted(f[n])]
<1> HIDE DEF f
<1>4. Grows(Web(h), F, slots, N)
  <2> HIDE DEF N, slots
  <2>1. \A G : G = F => Grows(Web(h), G, Slotted(Turns(h, {v})), N)
    <3> HIDE DEF F
    <3>1. SUFFICES ASSUME NEW G, G = F PROVE Grows(Web(h), G, Slotted(Turns(h, {v})), N)
      OBVIOUS
    <3>2. G = [n \in 0..N |-> Slotted(f[n])]
      BY <3>1 DEF F
    <3> QED BY <1>1, <1>3, <3>2, SpreadGrows
  <2> QED BY <2>1 DEF slots
<1>5. DOMAIN Web(h).records = DOMAIN h.records
  BY DEF Web
<1>6. Rooted(Web(h), slots)
  <2>1. slots \subseteq DOMAIN h.records
    BY DEF Slotted, Turns, Live
  <2>2. Closed(Web(h), DOMAIN h.records)
    BY DEF Closed, Web, Turns, Live
  <2> HIDE DEF slots
  <2> QED BY <2>1, <2>2, <1>1, <1>5 DEF Rooted
<1>7. slots \subseteq F[N] /\ Closed(Web(h), F[N]) /\ F[N] \subseteq DOMAIN Web(h).records
  <2>1. N = Cardinality(DOMAIN Web(h).records)
    BY <1>5
  <2> HIDE DEF N, F, slots
  <2> QED BY <2>1, <1>4, <1>6, GrowthClosed
<1>8. F[N] = S
  <2>1. N \in 0..N
    BY <1>1
  <2> HIDE DEF N
  <2> QED BY <2>1, <1>2
<1>9. Live(h, v) /\ Of(h, v).lifetime = "Turn" => v.slot \in S
  BY <1>7, <1>8 DEF Slotted, Turns
<1>10. ASSUME NEW s \in S
       PROVE  s \in DOMAIN h.records /\ \A w \in Turns(h, Visited(h.records[s])) : w.slot \in S
  <2>1. s \in DOMAIN h.records
    BY <1>5, <1>7, <1>8
  <2>2. Closed(Web(h), S)
    BY <1>7, <1>8
  <2> QED BY <2>1, <2>2 DEF Closed, Web
<1> QED BY <1>9, <1>10

(***************************************************************************)
(* A closed World                                                          *)
(***************************************************************************)
(* What is gone or World. *)
Safe(h, v) == Live(h, v) => World(h, v)

(* The references among the elements of a container of a kind. *)
ElementRefs(e, kind, g) ==
  (Range(e) \cup (IF kind = "table" THEN DOMAIN e \ g.keys ELSE {})) \ {Nil}

(* What a record of the game g refers to and owns. *)
LeadsTo(r, g) == (Range(r.properties) \ {Nil}) \cup ElementRefs(r.elements, r.kind, g) \cup r.children

(* A World record leads to World records, and every table is World. *)
RecordClosed(r, h, g) ==
  /\ r.kind = "table" => r.lifetime = "World"
  /\ r.lifetime = "World" => \A v \in LeadsTo(r, g) : Safe(h, v)
Closes(h, g) == \A s \in DOMAIN h.records : RecordClosed(h.records[s], h, g)

(* A record keeps its identity, and being World. *)
Lasting(r, q) ==
  q.born = r.born /\ q.kind = r.kind /\ (r.lifetime = "World" => q.lifetime = "World")
Lasts(h, k) ==
  /\ h.next_identity <= k.next_identity
  /\ \A s \in DOMAIN k.records :
       \/ k.records[s].born >= h.next_identity
       \/ s \in DOMAIN h.records /\ Lasting(h.records[s], k.records[s])

(* It keeps its fields and elements too, and owns no more through them. *)
Same(r, q) ==
  /\ q.properties = r.properties /\ q.elements = r.elements
  /\ \A p \in DOMAIN q.owned : p \in DOMAIN r.owned /\ q.owned[p] = r.owned[p]
Still(h, k) ==
  /\ h.next_identity <= k.next_identity
  /\ \A s \in DOMAIN k.records :
       \/ k.records[s].born >= h.next_identity /\ DOMAIN k.records[s].owned = {}
       \/ /\ s \in DOMAIN h.records /\ Lasting(h.records[s], k.records[s])
          /\ Same(h.records[s], k.records[s])

(* What a record leads to are handles that have been given out. *)
LEMMA LeadsOld ==
  ASSUME NEW r, NEW n, RecordOK(r, n, game)
  PROVE  LeadsTo(r, game) \subseteq Old(n)
<1>1. Held(r) \subseteq Old(n)
  BY HeldOld
<1>2. r.children \subseteq Old(n)
  BY DEF RecordOK
<1>3. LeadsTo(r, game) = Held(r) \cup r.children
  BY DEF LeadsTo, Held, ElementRefs, Keys
<1> QED BY <1>1, <1>2, <1>3

(* Nothing changes. *)
LEMMA LastsSelf ==
  ASSUME NEW h, HeapOK(h, game) PROVE Lasts(h, h)
BY DEF Lasts, Lasting, HeapOK

(* What is safe stays safe. *)
LEMMA SafeLater ==
  ASSUME NEW h, HeapOK(h, game), NEW k, Lasts(h, k), NEW v \in Old(h.next_identity), Safe(h, v)
  PROVE  Safe(k, v)
<1>1. h.next_identity \in Int /\ v.born \in Int /\ v.born < h.next_identity
  <2>1. game.identities \in Int
    BY GameTypes DEF HeapOK
  <2> QED BY <2>1 DEF HeapOK, Old
<1>2. SUFFICES ASSUME Live(k, v) PROVE World(k, v)
  BY DEF Safe
<1>3. v # Nil /\ v.slot \in DOMAIN k.records /\ k.records[v.slot].born = v.born
  BY <1>2 DEF Live
<1>4. v.slot \in DOMAIN h.records /\ Lasting(h.records[v.slot], k.records[v.slot])
  BY <1>1, <1>3 DEF Lasts
<1>5. World(h, v)
  BY <1>3, <1>4 DEF Safe, Live, Lasting
<1> QED BY <1>2, <1>4, <1>5 DEF World, Of, Lasting

(* This holds across two operations. *)
LEMMA LastsJoin ==
  ASSUME NEW h, NEW k, NEW m, HeapOK(h, game), HeapOK(k, game), HeapOK(m, game), Lasts(h, k), Lasts(k, m)
  PROVE  Lasts(h, m)
<1>1. h.next_identity \in Int /\ k.next_identity \in Int /\ m.next_identity \in Int
  <2>1. game.identities \in Int
    BY GameTypes DEF HeapOK
  <2> QED BY <2>1 DEF HeapOK
<1>2. h.next_identity <= m.next_identity
  BY <1>1 DEF Lasts
<1>3. ASSUME NEW s \in DOMAIN m.records
      PROVE  \/ m.records[s].born >= h.next_identity
             \/ s \in DOMAIN h.records /\ Lasting(h.records[s], m.records[s])
  <2>1. m.records[s].born \in Int
    <3>1. RecordOK(m.records[s], m.next_identity, game)
      BY DEF HeapOK
    <3> QED BY <3>1, <1>1 DEF RecordOK
  <2>2. CASE m.records[s].born >= k.next_identity
    BY <2>1, <2>2, <1>1 DEF Lasts
  <2>3. CASE s \in DOMAIN k.records /\ Lasting(k.records[s], m.records[s])
    <3>1. \/ k.records[s].born >= h.next_identity
          \/ s \in DOMAIN h.records /\ Lasting(h.records[s], k.records[s])
      BY <2>3 DEF Lasts
    <3> QED BY <2>3, <3>1 DEF Lasting
  <2> QED BY <2>2, <2>3 DEF Lasts
<1> QED BY <1>2, <1>3 DEF Lasts

(* Records whose references are safe in the heap before keep it closed. *)
RecordSafe(r, h, g) ==
  /\ r.kind = "table" => r.lifetime = "World"
  /\ r.lifetime = "World" => \A v \in LeadsTo(r, g) : v \in Old(h.next_identity) /\ Safe(h, v)

(* A heap whose records lead to what was safe before, or is safe now, is   *)
(* closed.                                                                 *)
LEMMA ClosesLater ==
  ASSUME NEW h, HeapOK(h, game), NEW k, Lasts(h, k),
         \A s \in DOMAIN k.records : RecordSafe(k.records[s], h, game) \/ RecordClosed(k.records[s], k, game)
  PROVE  Closes(k, game)
<1>1. SUFFICES ASSUME NEW s \in DOMAIN k.records PROVE RecordClosed(k.records[s], k, game)
  BY DEF Closes
<1>2. SUFFICES ASSUME RecordSafe(k.records[s], h, game) PROVE RecordClosed(k.records[s], k, game)
  OBVIOUS
<1>3. ASSUME k.records[s].lifetime = "World", NEW v \in LeadsTo(k.records[s], game) PROVE Safe(k, v)
  <2>1. v \in Old(h.next_identity) /\ Safe(h, v)
    BY <1>2, <1>3 DEF RecordSafe
  <2> QED BY <2>1, SafeLater
<1> QED BY <1>2, <1>3 DEF RecordSafe, RecordClosed

(* The records of a closed heap are safe. *)
LEMMA ClosedSafe ==
  ASSUME NEW h, HeapOK(h, game), Closes(h, game), NEW s \in DOMAIN h.records
  PROVE  RecordSafe(h.records[s], h, game)
<1>1. RecordOK(h.records[s], h.next_identity, game) /\ RecordClosed(h.records[s], h, game)
  BY DEF HeapOK, Closes
<1>2. LeadsTo(h.records[s], game) \subseteq Old(h.next_identity)
  BY <1>1, LeadsOld
<1> QED BY <1>1, <1>2 DEF RecordSafe, RecordClosed

(* What an operation does to a closed heap. *)
Firm(h, k) == HeapOK(k, game) /\ Lasts(h, k) /\ (Closes(h, game) => Closes(k, game))

(* This too holds across two operations. *)
LEMMA FirmJoin ==
  ASSUME NEW h, HeapOK(h, game), NEW k, NEW m, Firm(h, k), Firm(k, m)
  PROVE  Firm(h, m)
BY LastsJoin DEF Firm

(* Nothing changes. *)
LEMMA FirmSelf ==
  ASSUME NEW h, HeapOK(h, game) PROVE Firm(h, h)
BY LastsSelf DEF Firm

(* Nothing changes. *)
LEMMA StillSelf ==
  ASSUME NEW h, HeapOK(h, game) PROVE Still(h, h)
BY DEF Still, Lasting, Same, HeapOK

(* Both hold across two operations. *)
LEMMA StillJoin ==
  ASSUME NEW h, HeapOK(h, game), NEW k, NEW m, Firm(h, k), Firm(k, m), Still(h, k), Still(k, m)
  PROVE  Firm(h, m) /\ Still(h, m)
<1>1. h.next_identity \in Int /\ k.next_identity \in Int /\ m.next_identity \in Int
      /\ \A s \in DOMAIN m.records : m.records[s].born \in Int
  <2>1. game.identities \in Int
    BY GameTypes DEF HeapOK
  <2>2. h.next_identity \in Int /\ k.next_identity \in Int /\ m.next_identity \in Int
    BY <2>1 DEF HeapOK, Firm
  <2> QED BY <2>2 DEF HeapOK, Firm, RecordOK
<1>2. h.next_identity <= m.next_identity
  BY <1>1 DEF Still
<1>3. ASSUME NEW s \in DOMAIN m.records
      PROVE  \/ m.records[s].born >= h.next_identity /\ DOMAIN m.records[s].owned = {}
             \/ /\ s \in DOMAIN h.records /\ Lasting(h.records[s], m.records[s])
                /\ Same(h.records[s], m.records[s])
  <2>1. CASE m.records[s].born >= k.next_identity /\ DOMAIN m.records[s].owned = {}
    BY <2>1, <1>1 DEF Still
  <2>2. CASE s \in DOMAIN k.records /\ Lasting(k.records[s], m.records[s]) /\ Same(k.records[s], m.records[s])
    <3>1. CASE k.records[s].born >= h.next_identity /\ DOMAIN k.records[s].owned = {}
      <4>1. DOMAIN m.records[s].owned = {}
        BY <2>2, <3>1 DEF Same
      <4> QED BY <2>2, <3>1, <4>1 DEF Lasting
    <3>2. CASE s \in DOMAIN h.records /\ Lasting(h.records[s], k.records[s]) /\ Same(h.records[s], k.records[s])
      <4>1. Lasting(h.records[s], m.records[s])
        BY <2>2, <3>2 DEF Lasting
      <4>2. Same(h.records[s], m.records[s])
        BY <2>2, <3>2 DEF Same
      <4> QED BY <3>2, <4>1, <4>2
    <3> QED BY <2>2, <3>1, <3>2 DEF Still
  <2> QED BY <2>1, <2>2 DEF Still
<1> QED BY <1>2, <1>3, FirmJoin DEF Still

(***************************************************************************)
(* Records that go                                                         *)
(***************************************************************************)
(* A record with the same contents and, maybe, fewer children. *)
Lesser(r, q) ==
  /\ q.born = r.born /\ q.kind = r.kind /\ q.lifetime = r.lifetime
  /\ q.properties = r.properties /\ q.elements = r.elements /\ q.children \subseteq r.children
  /\ \A p \in DOMAIN q.owned : p \in DOMAIN r.owned /\ q.owned[p] = r.owned[p]
(* Some records go. *)
Fewer(h, k) ==
  /\ k.next_identity = h.next_identity /\ DOMAIN k.records \subseteq DOMAIN h.records
  /\ \A s \in DOMAIN k.records : Lesser(h.records[s], k.records[s])

(* This holds across two operations. *)
LEMMA FewerJoin ==
  ASSUME NEW h, NEW k, NEW m, Fewer(h, k), Fewer(k, m) PROVE Fewer(h, m)
BY DEF Fewer, Lesser

(* A closed heap stays closed when records go. *)
LEMMA FewerFirm ==
  ASSUME NEW h, HeapOK(h, game), NEW k, HeapOK(k, game), Fewer(h, k)
  PROVE  Firm(h, k) /\ Still(h, k)
<1>1. Lasts(h, k)
  <2>1. h.next_identity <= k.next_identity
    BY DEF Fewer, HeapOK
  <2> QED BY <2>1 DEF Lasts, Fewer, Lasting, Lesser
<1>2. ASSUME Closes(h, game), NEW s \in DOMAIN k.records PROVE RecordSafe(k.records[s], h, game)
  <2>1. s \in DOMAIN h.records /\ Lesser(h.records[s], k.records[s])
    BY DEF Fewer
  <2>2. RecordSafe(h.records[s], h, game)
    BY <2>1, <1>2, ClosedSafe
  <2>3. LeadsTo(k.records[s], game) \subseteq LeadsTo(h.records[s], game)
    BY <2>1 DEF Lesser, LeadsTo
  <2> QED BY <2>1, <2>2, <2>3 DEF RecordSafe, Lesser
<1>3. Closes(h, game) => Closes(k, game)
  BY <1>1, <1>2, ClosesLater
<1>4. Still(h, k)
  BY <1>1 DEF Still, Lasts, Fewer, Lasting, Lesser, Same
<1> QED BY <1>1, <1>3, <1>4 DEF Firm

(* destroy. *)
LEMMA DestroyedFewer ==
  ASSUME NEW h, Shaped(h), NEW slots, NEW k, k = Destroyed(h, slots)
  PROVE  Fewer(h, k)
<1> DEFINE S == Subtree(h, slots)
<1>1. Destroys(h, k, S)
  <2> HIDE DEF S
  <2>1. \A T : T = Subtree(h, slots) => Destroys(h, k, T)
    BY DestroyedIs
  <2> QED BY <2>1 DEF S
<1> HIDE DEF S
<1> QED BY <1>1 DEF Destroys, Fewer, Lesser

(* resource_failure. *)
LEMMA FailedFirm ==
  ASSUME NEW h, HeapOK(h, game), NEW k, k = Failed(h)
  PROVE  Firm(h, k) /\ Still(h, k)
<1>1. HeapOK(k, game)
  BY FailedOK
<1> DEFINE d == Destroyed(h, {o.slot : o \in h.roots})
<1>2. Fewer(h, d)
  <2>1. Shaped(h)
    BY DEF HeapOK
  <2> HIDE DEF d
  <2>2. \A x : x = Destroyed(h, {o.slot : o \in h.roots}) => Fewer(h, x)
    BY <2>1, DestroyedFewer
  <2> QED BY <2>2 DEF d
<1>3. k.records = d.records /\ k.next_identity = d.next_identity
  BY DEF Failed, Destroyed
<1> HIDE DEF d
<1>4. Fewer(h, k)
  BY <1>2, <1>3 DEF Fewer
<1> QED BY <1>1, <1>4, FewerFirm

(* A root goes, with what it owns. *)
LEMMA DestroyedRootFirm ==
  ASSUME NEW h, HeapOK(h, game), NEW o \in h.roots, NEW k, k = DestroyedRoot(h, o)
  PROVE  Firm(h, k) /\ Still(h, k) /\ Fewer(h, k)
<1>1. HeapOK(k, game)
  BY DestroyedRootOK
<1> DEFINE d == Destroyed(h, {o.slot})
<1>2. Fewer(h, d)
  <2>1. Shaped(h)
    BY DEF HeapOK
  <2> HIDE DEF d
  <2>2. \A x : x = Destroyed(h, {o.slot}) => Fewer(h, x)
    BY <2>1, DestroyedFewer
  <2> QED BY <2>2 DEF d
<1>3. k.records = d.records /\ k.next_identity = d.next_identity
  BY DEF DestroyedRoot, Destroyed
<1> HIDE DEF d
<1>4. Fewer(h, k)
  BY <1>2, <1>3 DEF Fewer
<1> QED BY <1>1, <1>4, FewerFirm

(* The record a field owns goes. *)
LEMMA DisownedFirm ==
  ASSUME NEW h, HeapOK(h, game), NEW o \in Old(h.next_identity), Live(h, o),
         NEW p \in DOMAIN Of(h, o).owned, Of(h, o).owned[p] \in Of(h, o).children,
         NEW k, k = Disowned(h, o, p)
  PROVE  Firm(h, k) /\ Fewer(h, k) /\ Still(h, k)
<1>1. HeapOK(k, game)
  BY DisownedKeeps DEF Keeps
<1> DEFINE c == Of(h, o).owned[p]
           m == [h EXCEPT !.records[o.slot].owned = Restrict(@, DOMAIN @ \ {p}),
                          !.records[o.slot].children = @ \ {c}]
<1>2. k = Destroyed(m, {c.slot})
  BY DEF Disowned
<1>3. Shaped(m) /\ Fewer(h, m)
  <2>1. Shaped(h) /\ o.slot \in DOMAIN h.records
    BY DEF HeapOK, Live
  <2>2. RecordOK(h.records[o.slot], h.next_identity, game)
    BY <2>1 DEF HeapOK
  <2>3. Shaped(m)
    BY <2>1 DEF Shaped, IsFun
  <2>4. /\ DOMAIN m.records = DOMAIN h.records /\ m.next_identity = h.next_identity
        /\ \A s \in DOMAIN h.records : s # o.slot => m.records[s] = h.records[s]
    BY <2>1 DEF Shaped, IsFun
  <2>5. m.records[o.slot] = [h.records[o.slot] EXCEPT !.owned = Restrict(@, DOMAIN @ \ {p}), !.children = @ \ {c}]
    BY <2>1 DEF Shaped, IsFun
  <2> HIDE DEF m, c
  <2>6. Lesser(h.records[o.slot], m.records[o.slot])
    <3> DEFINE r == h.records[o.slot]
               q == m.records[o.slot]
               left == Restrict(r.owned, (DOMAIN r.owned) \ {p})
    <3>1. q = [r EXCEPT !.owned = left, !.children = @ \ {c}] /\ RecordOK(r, h.next_identity, game)
      BY <2>2, <2>5
    <3>2. \A x \in DOMAIN left : x \in DOMAIN r.owned /\ left[x] = r.owned[x]
      BY DEF Restrict
    <3> HIDE DEF r, q, left
    <3>3. q.owned = left
      BY <3>1 DEF RecordOK
    <3>4. /\ q.born = r.born /\ q.kind = r.kind /\ q.lifetime = r.lifetime
          /\ q.properties = r.properties /\ q.elements = r.elements /\ q.children \subseteq r.children
      BY <3>1 DEF RecordOK
    <3>5. Lesser(r, q)
      BY <3>2, <3>3, <3>4 DEF Lesser
    <3> QED BY <3>5 DEF r, q
  <2>7. \A s \in DOMAIN m.records : Lesser(h.records[s], m.records[s])
    BY <2>4, <2>6 DEF Lesser
  <2> QED BY <2>3, <2>4, <2>7 DEF Fewer
<1> HIDE DEF m, c
<1>4. Fewer(m, k)
  BY <1>2, <1>3, DestroyedFewer
<1>5. Fewer(h, k)
  BY <1>3, <1>4, FewerJoin
<1> QED BY <1>1, <1>5, FewerFirm

(***************************************************************************)
(* Promotion                                                               *)
(***************************************************************************)
(* promote: the value is safe, and a closed heap stays closed: everything  *)
(* the value leads to is promoted with it, and a record that was World led *)
(* to World records already.                                               *)
LEMMA PromotedFirm ==
  ASSUME NEW h, HeapOK(h, game), NEW v, NEW k, k = Promoted(h, v)
  PROVE  Firm(h, k) /\ Still(h, k) /\ Safe(k, v)
<1> DEFINE S == Slotted(Reached(h, v, {"vector"}))
<1>1. Alike(h, k) /\ HeapOK(k, game) /\ \A o : Live(k, o) <=> Live(h, o)
  <2>1. k = InWorld(h, Reached(h, v, {"vector"}))
    BY DEF Promoted
  <2>2. Alike(h, k)
    BY <2>1, InWorldAlike
  <2> QED BY <2>2, AlikeKeeps DEF Alike
<1>2. /\ k.records = [s \in DOMAIN h.records |->
           IF s \in S THEN [h.records[s] EXCEPT !.lifetime = "World"] ELSE h.records[s]]
  <2>1. Shaped(h)
    BY DEF HeapOK
  <2> QED BY <2>1 DEF Promoted, InWorld, Shaped, Slotted
<1>3. /\ Live(h, v) /\ Of(h, v).lifetime = "Turn" => v.slot \in S
      /\ \A s \in S : s \in DOMAIN h.records /\ \A w \in Turns(h, Visited(h.records[s])) : w.slot \in S
  BY ReachedClosed
<1> HIDE DEF S
<1>4. ASSUME NEW s \in DOMAIN h.records
      PROVE  /\ RecordOK(h.records[s], h.next_identity, game)
             /\ SameButLife(h.records[s], k.records[s])
             /\ k.records[s].lifetime = IF s \in S THEN "World" ELSE h.records[s].lifetime
             /\ h.records[s].lifetime \in {"World", "Turn"}
  <2>1. RecordOK(h.records[s], h.next_identity, game) /\ SameButLife(h.records[s], k.records[s])
    BY <1>1 DEF HeapOK, Alike
  <2>2. h.records[s].lifetime \in {"World", "Turn"} /\ k.records[s].lifetime = IF s \in S THEN "World" ELSE h.records[s].lifetime
    BY <2>1, <1>2 DEF RecordOK
  <2> QED BY <2>1, <2>2
<1>5. DOMAIN k.records = DOMAIN h.records /\ k.next_identity = h.next_identity
  BY <1>1 DEF Alike
<1>6. Lasts(h, k)
  <2>1. h.next_identity <= k.next_identity
    BY <1>5 DEF HeapOK
  <2> QED BY <1>4, <1>5, <2>1 DEF Lasts, Lasting, SameButLife
<1>7. ASSUME NEW w, Live(h, w), Of(h, w).lifetime = "World" \/ w.slot \in S PROVE World(k, w)
  <2>1. w.slot \in DOMAIN h.records
    BY <1>7 DEF Live
  <2>2. k.records[w.slot].lifetime = "World"
    BY <1>4, <1>7, <2>1 DEF Of
  <2> QED BY <1>1, <1>7, <2>2 DEF World, Of
<1>8. Safe(k, v)
  <2>1. SUFFICES ASSUME Live(k, v) PROVE World(k, v)
    BY DEF Safe
  <2>2. Live(h, v) /\ v.slot \in DOMAIN h.records
    BY <1>1, <2>1 DEF Live
  <2> QED BY <1>3, <1>4, <1>7, <2>2 DEF Of
<1>9. ASSUME Closes(h, game), NEW s \in DOMAIN k.records PROVE RecordClosed(k.records[s], k, game)
  <2> DEFINE r == h.records[s]
             q == k.records[s]
  <2>1. RecordClosed(r, h, game) /\ RecordOK(r, h.next_identity, game) /\ SameButLife(r, q)
        /\ q.lifetime = (IF s \in S THEN "World" ELSE r.lifetime) /\ r.lifetime \in {"World", "Turn"}
    BY <1>4, <1>5, <1>9 DEF Closes
  <2>2. q.kind = "table" => q.lifetime = "World"
    BY <2>1 DEF RecordClosed, SameButLife
  <2>3. LeadsTo(q, game) = LeadsTo(r, game)
    BY <2>1 DEF SameButLife, LeadsTo
  <2>4. ASSUME q.lifetime = "World", NEW w \in LeadsTo(r, game) PROVE Safe(k, w)
    <3>1. SUFFICES ASSUME Live(h, w) PROVE World(k, w)
      BY <1>1 DEF Safe
    <3>2. Of(h, w).lifetime \in {"World", "Turn"} /\ w \in Old(h.next_identity)
      <4>1. w.slot \in DOMAIN h.records
        BY <3>1 DEF Live
      <4> QED BY <4>1, <1>4, <2>1, <2>4, LeadsOld DEF Of
    <3>3. CASE r.lifetime = "World"
      <4>1. Safe(h, w)
        BY <2>1, <2>4, <3>3 DEF RecordClosed
      <4> QED BY <4>1, <3>1, <1>7 DEF Safe, World
    <3>4. CASE r.lifetime = "Turn"
      <4>1. s \in S /\ r.kind # "table" /\ r.kind \in {"plain", "vector", "table"}
        BY <2>1, <2>4, <3>4 DEF RecordClosed, RecordOK
      <4>2. w \in Visited(r)
        <5>1. r.kind = "plain" => Range(r.elements) = {}
          BY <2>1 DEF RecordOK, ElementsOK, Range
        <5> HIDE DEF r
        <5> QED BY <2>4, <4>1, <5>1 DEF LeadsTo, ElementRefs, Visited
      <4>3. CASE Of(h, w).lifetime = "Turn"
        <5>1. w \in Turns(h, Visited(r))
          BY <3>1, <4>2, <4>3 DEF Turns
        <5> QED BY <5>1, <4>1, <1>3, <1>7, <3>1
      <4> QED BY <4>3, <3>1, <3>2, <1>7
    <3> QED BY <3>3, <3>4, <2>1
  <2> HIDE DEF r, q
  <2>5. RecordClosed(q, k, game)
    BY <2>2, <2>3, <2>4 DEF RecordClosed
  <2> QED BY <2>5 DEF q
<1>10. Closes(h, game) => Closes(k, game)
  BY <1>9 DEF Closes
<1>11. Still(h, k)
  <2>1. h.next_identity <= k.next_identity
    BY <1>5 DEF HeapOK
  <2> QED BY <1>4, <1>5, <2>1 DEF Still, Lasting, Same, SameButLife
<1> QED BY <1>1, <1>6, <1>8, <1>10, <1>11 DEF Firm

(* What is stored into a World record is safe. *)
LEMMA StoredFirm ==
  ASSUME NEW h, HeapOK(h, game), NEW o, NEW v, NEW k, k = Stored(h, o, v)
  PROVE  Firm(h, k) /\ Still(h, k) /\ (World(k, o) => World(h, o) /\ Safe(k, v))
<1>1. CASE World(h, o)
  <2>1. k = Promoted(h, v)
    BY <1>1 DEF Stored
  <2> QED BY <1>1, <2>1, PromotedFirm
<1>2. CASE ~World(h, o)
  <2>1. k = h
    BY <1>2 DEF Stored
  <2> QED BY <1>2, <2>1, FirmSelf, StillSelf
<1> QED BY <1>1, <1>2

(***************************************************************************)
(* Records that change                                                     *)
(***************************************************************************)
(* One record gets other contents, which are safe if it is World. *)
Altered(h, k, s, q) ==
  /\ s \in DOMAIN h.records /\ k.next_identity = h.next_identity
  /\ DOMAIN k.records = DOMAIN h.records
  /\ \A t \in DOMAIN h.records : k.records[t] = IF t = s THEN q ELSE h.records[t]
  /\ q.born = h.records[s].born /\ q.kind = h.records[s].kind /\ q.lifetime = h.records[s].lifetime

(* A heap stays closed when the new record is safe. *)
LEMMA AlteredFirm ==
  ASSUME NEW h, HeapOK(h, game), NEW k, HeapOK(k, game), NEW s, NEW q, Altered(h, k, s, q),
         Closes(h, game) => RecordSafe(q, h, game)
  PROVE  Firm(h, k)
<1>1. Lasts(h, k)
  <2>1. h.next_identity <= k.next_identity
    BY DEF Altered, HeapOK
  <2> QED BY <2>1 DEF Lasts, Altered, Lasting
<1>2. ASSUME Closes(h, game), NEW t \in DOMAIN k.records PROVE RecordSafe(k.records[t], h, game)
  <2>1. CASE t = s
    <3>1. k.records[t] = q
      BY <2>1 DEF Altered
    <3> QED BY <3>1, <1>2
  <2>2. CASE t # s
    <3>1. t \in DOMAIN h.records /\ k.records[t] = h.records[t]
      BY <2>2 DEF Altered
    <3>2. RecordSafe(h.records[t], h, game)
      BY <3>1, <1>2, ClosedSafe
    <3> QED BY <3>1, <3>2
  <2> QED BY <2>1, <2>2
<1>3. Closes(h, game) => Closes(k, game)
  BY <1>1, <1>2, ClosesLater
<1> QED BY <1>1, <1>3 DEF Firm

(* What a record leads to once a field is set. *)
LEMMA FieldSafe ==
  ASSUME NEW h, HeapOK(h, game), Closes(h, game), NEW s \in DOMAIN h.records, NEW p,
         NEW v \in Ref(h.next_identity), h.records[s].lifetime = "World" => Safe(h, v),
         NEW q, q = [h.records[s] EXCEPT !.properties = With(h.records[s].properties, p, v)]
  PROVE  RecordSafe(q, h, game)
<1> DEFINE r == h.records[s]
<1>1. RecordSafe(r, h, game) /\ RecordOK(r, h.next_identity, game)
  BY ClosedSafe DEF HeapOK
<1>2. /\ q.kind = r.kind /\ q.lifetime = r.lifetime /\ q.elements = r.elements /\ q.children = r.children
      /\ q.properties = With(r.properties, p, v)
  <2> HIDE DEF r
  <2> QED BY <1>1 DEF RecordOK, r
<1> HIDE DEF r
<1>3. Range(q.properties) \subseteq Range(r.properties) \cup {v}
  BY <1>2 DEF Range, With
<1>4. LeadsTo(q, game) \subseteq LeadsTo(r, game) \cup ({v} \ {Nil})
  BY <1>2, <1>3 DEF LeadsTo
<1>5. v \in Old(h.next_identity) \/ v = Nil
  BY DEF Ref
<1>6. r.lifetime = "World" => Safe(h, v)
  BY DEF r
<1> QED BY <1>1, <1>2, <1>4, <1>5, <1>6 DEF RecordSafe

(* set. *)
LEMMA AssignedFirm ==
  ASSUME NEW h, HeapOK(h, game), NEW o \in Old(h.next_identity), Live(h, o),
         NEW p \in game.props \cup {Field}, NEW v \in Ref(h.next_identity), NEW k, k = Assigned(h, o, p, v)
  PROVE  Firm(h, k)
<1> DEFINE r == Of(h, o)
           stored == Stored(h, o, v)
           new == p \notin DOMAIN r.properties
           owns == p \in DOMAIN r.owned
<1>1. /\ Alike(h, stored) /\ HeapOK(stored, game) /\ Live(stored, o) /\ stored.next_identity = h.next_identity
      /\ Firm(h, stored) /\ (World(stored, o) => Safe(stored, v))
  <2>1. Alike(h, stored)
    BY StoredAlike
  <2>2. \A x : x = Stored(h, o, v) => Firm(h, x) /\ (World(x, o) => Safe(x, v))
    BY StoredFirm
  <2>3. Firm(h, stored) /\ (World(stored, o) => Safe(stored, v))
    <3> HIDE DEF stored
    <3> QED BY <2>2 DEF stored
  <2> HIDE DEF stored
  <2> QED BY <2>1, <2>3, AlikeKeeps DEF Alike
<1>2. SameButLife(r, stored.records[o.slot]) /\ o.slot \in DOMAIN stored.records
  <2> HIDE DEF stored
  <2> QED BY <1>1 DEF Alike, Of, Live
<1>3. HeapOK(k, game)
  BY AssignedKeeps DEF Keeps
<1>4. SUFFICES ASSUME TRUE PROVE Firm(stored, k)
  <2> HIDE DEF stored
  <2> QED BY <1>1, FirmJoin
<1>5. CASE new /\ stored.charged >= PropertyLimit
  <2>1. k = Failed(stored)
    BY <1>5 DEF Assigned
  <2> HIDE DEF stored
  <2> QED BY <2>1, <1>1, FailedFirm
<1>6. CASE ~(new /\ stored.charged >= PropertyLimit) /\ owns /\ v = r.owned[p]
  <2>1. k = stored
    BY <1>6 DEF Assigned
  <2> HIDE DEF stored
  <2> QED BY <2>1, <1>1, FirmSelf
<1>7. CASE ~(new /\ stored.charged >= PropertyLimit) /\ owns /\ v # r.owned[p] /\ r.owned[p] \notin r.children
  <2>1. k = [stored EXCEPT !.status = "aborted"]
    BY <1>7 DEF Assigned
  <2> HIDE DEF stored
  <2>2. k.records = stored.records /\ k.next_identity = stored.next_identity
    BY <2>1, <1>1 DEF HeapOK, Shaped
  <2>3. Fewer(stored, k)
    BY <2>2 DEF Fewer, Lesser
  <2> QED BY <2>3, <1>1, <1>3, FewerFirm
<1>8. CASE ~(new /\ stored.charged >= PropertyLimit) /\ (owns => v # r.owned[p] /\ r.owned[p] \in r.children)
  <2> DEFINE m == IF owns THEN Disowned(stored, o, p) ELSE stored
             t == m.records[o.slot]
             q == [t EXCEPT !.properties = With(t.properties, p, v)]
  <2>1. k = [m EXCEPT !.records[o.slot].properties = With(@, p, v), !.charged = @ + (IF new THEN 1 ELSE 0)]
    BY <1>8 DEF Assigned
  <2>2. /\ Firm(stored, m) /\ Fewer(stored, m) /\ HeapOK(m, game)
        /\ Live(m, o)
    <3>1. CASE owns
      <4>1. m = Disowned(stored, o, p)
        BY <3>1
      <4>2. p \in DOMAIN Of(stored, o).owned /\ Of(stored, o).owned[p] \in Of(stored, o).children
        BY <1>2, <1>8, <3>1 DEF SameButLife, Of
      <4>3. o \in Old(stored.next_identity)
        BY <1>1
      <4> HIDE DEF stored, m, owns
      <4> QED BY <4>1, <4>2, <4>3, <1>1, DisownedKeeps, DisownedFirm DEF Firm
    <3>2. CASE ~owns
      <4>1. m = stored
        BY <3>2
      <4> HIDE DEF stored, m
      <4>2. Fewer(stored, stored)
        BY DEF Fewer, Lesser
      <4> QED BY <4>1, <4>2, <1>1, FirmSelf
    <3> QED BY <3>1, <3>2
  <2> HIDE DEF m
  <2>3. o.slot \in DOMAIN m.records /\ Shaped(m) /\ RecordOK(t, m.next_identity, game)
    BY <2>2 DEF HeapOK, Live
  <2>4. Altered(m, k, o.slot, q)
    <3>1. k.records = [m.records EXCEPT ![o.slot] = q] /\ k.next_identity = m.next_identity /\ IsFun(m.records)
      <4> HIDE DEF r
      <4> QED BY <2>1, <2>3 DEF Shaped
    <3>2. q.born = t.born /\ q.kind = t.kind /\ q.lifetime = t.lifetime
      <4> HIDE DEF t
      <4> QED BY <2>3 DEF RecordOK
    <3> HIDE DEF q
    <3> QED BY <3>1, <3>2, <2>3 DEF Altered, IsFun
  <2>5. v \in Ref(m.next_identity)
    <3> HIDE DEF stored
    <3> QED BY <1>1, <2>2 DEF Fewer
  <2>6. t.lifetime = "World" => Safe(m, v)
    <3> HIDE DEF stored
    <3>1. SUFFICES ASSUME t.lifetime = "World" PROVE Safe(m, v)
      OBVIOUS
    <3>2. World(stored, o)
      BY <3>1, <2>2, <2>3, <1>1 DEF Fewer, Lesser, World, Of, Live
    <3>3. Safe(stored, v) /\ stored.next_identity = m.next_identity
      BY <3>2, <1>1, <2>2 DEF Fewer
    <3>4. CASE v = Nil
      BY <3>4 DEF Safe, Live
    <3>5. CASE v \in Old(stored.next_identity)
      BY <3>3, <3>5, <1>1, <2>2, SafeLater DEF Firm
    <3> QED BY <3>3, <3>4, <3>5, <2>5 DEF Ref
  <2>7. Closes(m, game) => RecordSafe(q, m, game)
    <3> DEFINE l == t.lifetime
    <3> HIDE DEF q
    <3>1. q = [m.records[o.slot] EXCEPT !.properties = With(m.records[o.slot].properties, p, v)]
      BY DEF q
    <3> QED BY <3>1, <2>2, <2>3, <2>5, <2>6, FieldSafe
  <2> HIDE DEF q, t, stored
  <2>8. Firm(m, k)
    BY <2>2, <2>4, <2>7, <1>3, AlteredFirm
  <2> QED BY <2>2, <2>8, <1>1, FirmJoin
<1> QED BY <1>5, <1>6, <1>7, <1>8

(* clear_property. *)
LEMMA ClearedFirm ==
  ASSUME NEW h, HeapOK(h, game), NEW o \in Old(h.next_identity), Live(h, o), NEW p,
         p \notin DOMAIN Of(h, o).owned, NEW k, k = Cleared(h, o, p)
  PROVE  Firm(h, k)
<1> DEFINE r == h.records[o.slot]
           q == [r EXCEPT !.properties = Restrict(r.properties, (DOMAIN r.properties) \ {p})]
<1>1. o.slot \in DOMAIN h.records /\ Shaped(h) /\ RecordOK(r, h.next_identity, game) /\ r = Of(h, o)
  BY DEF HeapOK, Live, Of
<1>2. CASE p \notin DOMAIN r.properties
  BY <1>1, <1>2, FirmSelf DEF Cleared
<1>3. CASE p \in DOMAIN r.properties
  <2>0. HeapOK(k, game)
    BY ClearedKeeps DEF Keeps
  <2>1. k = [h EXCEPT !.records[o.slot].properties = Restrict(@, DOMAIN @ \ {p}),
                      !.charged = IF @ = 0 THEN 0 ELSE @ - 1]
    BY <1>1, <1>3 DEF Cleared
  <2>2. /\ q.born = r.born /\ q.kind = r.kind /\ q.lifetime = r.lifetime
        /\ q.children = r.children /\ q.elements = r.elements
        /\ q.properties = Restrict(r.properties, (DOMAIN r.properties) \ {p})
    <3> HIDE DEF r
    <3> QED BY <1>1 DEF RecordOK
  <2>3. Altered(h, k, o.slot, q)
    <3>1. k.records = [h.records EXCEPT ![o.slot] = q] /\ k.next_identity = h.next_identity /\ IsFun(h.records)
      BY <2>1, <1>1 DEF Shaped
    <3> HIDE DEF q
    <3> QED BY <3>1, <2>2, <1>1 DEF Altered, IsFun
  <2> HIDE DEF q
  <2>4. Closes(h, game) => RecordSafe(q, h, game)
    <3>1. SUFFICES ASSUME Closes(h, game) PROVE RecordSafe(q, h, game)
      OBVIOUS
    <3>2. RecordSafe(r, h, game)
      BY <3>1, <1>1, ClosedSafe
    <3>3. Range(q.properties) \subseteq Range(r.properties)
      BY <2>2, <1>1 DEF Range, Restrict
    <3> HIDE DEF r
    <3>4. LeadsTo(q, game) \subseteq LeadsTo(r, game)
      BY <2>2, <3>3 DEF LeadsTo
    <3> QED BY <3>2, <3>4, <2>2 DEF RecordSafe
  <2> HIDE DEF r
  <2> QED BY <2>0, <2>3, <2>4, AlteredFirm
<1> QED BY <1>2, <1>3

(***************************************************************************)
(* Snapshots that are put back                                             *)
(***************************************************************************)
(* What the snapshot of a live container holds is old, and gone or World. *)
SnapSafe(d, h) ==
  Live(h, d.object) =>
    \A v \in ElementRefs(d.elements, Of(h, d.object).kind, game) : v \in Old(h.next_identity) /\ Safe(h, v)

(* A snapshot that is safe stays safe. *)
LEMMA SnapSafeLater ==
  ASSUME NEW h, HeapOK(h, game), NEW k, Firm(h, k), NEW d, d.object \in Old(h.next_identity), SnapSafe(d, h)
  PROVE  SnapSafe(d, k)
<1>1. h.next_identity \in Int /\ k.next_identity \in Int /\ h.next_identity <= k.next_identity
      /\ d.object.born \in Int /\ d.object.born < h.next_identity
  <2>1. game.identities \in Int
    BY GameTypes DEF HeapOK
  <2> QED BY <2>1 DEF HeapOK, Old, Firm, Lasts
<1>2. SUFFICES ASSUME Live(k, d.object), NEW v \in ElementRefs(d.elements, Of(k, d.object).kind, game)
               PROVE  v \in Old(k.next_identity) /\ Safe(k, v)
  BY DEF SnapSafe
<1>3. d.object.slot \in DOMAIN k.records /\ k.records[d.object.slot].born = d.object.born
  BY <1>2 DEF Live
<1>4. d.object.slot \in DOMAIN h.records /\ Lasting(h.records[d.object.slot], k.records[d.object.slot])
  BY <1>1, <1>3 DEF Firm, Lasts
<1>5. Live(h, d.object) /\ Of(h, d.object).kind = Of(k, d.object).kind
  BY <1>2, <1>3, <1>4 DEF Live, Lasting, Of
<1>6. v \in Old(h.next_identity) /\ Safe(h, v)
  BY <1>2, <1>5 DEF SnapSafe
<1>7. Old(h.next_identity) \subseteq Old(k.next_identity)
  BY <1>1, OldGrows
<1> QED BY <1>6, <1>7, SafeLater DEF Firm

(* What a record leads to once its elements are others. *)
LEMMA ElementsSafe ==
  ASSUME NEW h, HeapOK(h, game), Closes(h, game), NEW s \in DOMAIN h.records, NEW e, NEW c,
         h.records[s].lifetime = "World" =>
           \A v \in ElementRefs(e, h.records[s].kind, game) : v \in Old(h.next_identity) /\ Safe(h, v),
         NEW q, q = [h.records[s] EXCEPT !.elements = e, !.capacity = c]
  PROVE  RecordSafe(q, h, game)
<1> DEFINE r == h.records[s]
<1>1. RecordSafe(r, h, game) /\ RecordOK(r, h.next_identity, game)
  BY ClosedSafe DEF HeapOK
<1>2. /\ q.kind = r.kind /\ q.lifetime = r.lifetime /\ q.elements = e /\ q.children = r.children
      /\ q.properties = r.properties
  <2> HIDE DEF r
  <2> QED BY <1>1 DEF RecordOK, r
<1>3. r.lifetime = "World" =>
        \A v \in ElementRefs(e, r.kind, game) : v \in Old(h.next_identity) /\ Safe(h, v)
  OBVIOUS
<1> HIDE DEF r
<1>4. LeadsTo(q, game) \subseteq LeadsTo(r, game) \cup ElementRefs(e, r.kind, game)
  BY <1>2 DEF LeadsTo
<1> QED BY <1>1, <1>2, <1>3, <1>4 DEF RecordSafe

(* A snapshot is put back. *)
LEMMA SnapshotFirm ==
  ASSUME NEW h, HeapOK(h, game), NEW d, SnapSafe(d, h), Live(h, d.object), NEW now,
         now = [Of(h, d.object) EXCEPT !.elements = d.elements, !.capacity = d.capacity],
         NEW k, k = [h EXCEPT !.records[d.object.slot] = now,
                              !.charged = @ - Charge(Of(h, d.object)) + Charge(now)],
         HeapOK(k, game)
  PROVE  Firm(h, k)
<1> DEFINE s == d.object.slot
           r == h.records[s]
<1>1. Shaped(h) /\ s \in DOMAIN h.records /\ RecordOK(r, h.next_identity, game) /\ r = Of(h, d.object)
  BY DEF HeapOK, Live, Of
<1>2. now.born = r.born /\ now.kind = r.kind /\ now.lifetime = r.lifetime
  <2> HIDE DEF r
  <2> QED BY <1>1 DEF RecordOK
<1>3. Altered(h, k, s, now)
  <2>1. k.records = [h.records EXCEPT ![s] = now] /\ k.next_identity = h.next_identity
    BY <1>1 DEF Shaped
  <2> HIDE DEF s, r
  <2> QED BY <1>1, <1>2, <2>1 DEF Altered, Shaped, IsFun, r
<1>4. Closes(h, game) => RecordSafe(now, h, game)
  <2>1. \A v \in ElementRefs(d.elements, r.kind, game) : v \in Old(h.next_identity) /\ Safe(h, v)
    BY <1>1 DEF SnapSafe
  <2>2. now = [h.records[s] EXCEPT !.elements = d.elements, !.capacity = d.capacity]
    BY <1>1
  <2> HIDE DEF s
  <2> QED BY <1>1, <2>1, <2>2, ElementsSafe
<1> HIDE DEF s
<1> QED BY <1>3, <1>4, AlteredFirm

(* revert_containers. *)
LEMMA ContainersFirm ==
  ASSUME NEW h, HeapOK(h, game), NEW list, IsFiniteSet(DOMAIN list), DOMAIN list \in SUBSET Nat,
         ContainersOK(list, h, game), \A i \in DOMAIN list : SnapSafe(list[i], h),
         NEW k, k = ContainersReverted(h, list)
  PROVE  Firm(h, k)
<1> DEFINE D == DOMAIN list
           P(g, t) == /\ Steady(h, g) /\ Firm(h, g)
                      /\ \A q : SnapOK(q, h, game) /\ (\A i \in t : Lighter(q, list[i], h)) => SnapOK(q, g, game)
<1>1. PICK f : Folding("containers", list, h, f, D) /\ ContainersReverted(h, list) = f[D]
  BY ContainersFold
<1>2. Pickable("containers", D)
  BY ListPickable
<1>f. /\ f[{}] = h
      /\ \A t \in SUBSET D : t # {} =>
           Picked("containers", t) \in t
           /\ f[t] = Folds("containers", list, Picked("containers", t), f[t \ {Picked("containers", t)}])
  <2> HIDE DEF P, D
  <2> QED BY <1>1, <1>2, FoldStep
<1> DEFINE G == {t \in SUBSET D : P(f[t], t)}
<1>3. {} \in G
  BY <1>f, SteadySelf, FirmSelf
<1>4. ASSUME NEW t \in SUBSET D, t # {}, t \ {Picked("containers", t)} \in G PROVE t \in G
  <2> DEFINE x == Picked("containers", t)
             g == f[t \ {x}]
             d == list[x]
             m == f[t]
  <2>1. x \in t /\ m = Folds("containers", list, x, g)
    BY <1>4, <1>f
  <2>2. P(g, t \ {x})
    BY <1>4
  <2>3. HeapOK(g, game) /\ Descends(h, g) /\ Steady(h, g) /\ Firm(h, g)
    BY <2>2 DEF Steady
  <2>4. \A i \in t \ {x} : x < i
    <3>1. x = Min(t)
      BY DEF Picked
    <3>2. \A i \in t : x <= i
      BY <3>1, <1>4, LeastMember
    <3> QED BY <3>2, <2>1
  <2>5. SnapOK(d, g, game) /\ SnapSafe(d, g)
    <3>1. SnapOK(d, h, game) /\ SnapSafe(d, h) /\ d.object \in Old(h.next_identity)
      BY <2>1 DEF ContainersOK, SnapOK
    <3>2. \A i \in t \ {x} : Lighter(d, list[i], h)
      BY <2>1, <2>4 DEF ContainersOK
    <3>3. SnapOK(d, g, game)
      BY <2>2, <3>1, <3>2
    <3>4. SnapSafe(d, g)
      <4> HIDE DEF d, g
      <4> QED BY <2>3, <3>1, SnapSafeLater
    <3> QED BY <3>3, <3>4
  <2> HIDE DEF g, m, x
  <2>6. Steady(g, m) /\ Firm(g, m) /\ \A q : SnapOK(q, g, game) /\ Lighter(q, d, g) => SnapOK(q, m, game)
    <3>1. CASE ~Live(g, d.object)
      <4>1. m = g
        BY <3>1, <2>1 DEF Folds
      <4> QED BY <4>1, <2>3, SteadySelf, FirmSelf
    <3>2. CASE Live(g, d.object)
      <4> DEFINE now == [Of(g, d.object) EXCEPT !.elements = d.elements, !.capacity = d.capacity]
      <4>1. m = [g EXCEPT !.records[d.object.slot] = now,
                          !.charged = @ - Charge(Of(g, d.object)) + Charge(now)]
        BY <3>2, <2>1 DEF Folds
      <4> HIDE DEF d
      <4>2. now = [Of(g, d.object) EXCEPT !.elements = d.elements, !.capacity = d.capacity]
        OBVIOUS
      <4> HIDE DEF now
      <4>3. Steady(g, m) /\ \A q : SnapOK(q, g, game) /\ Lighter(q, d, g) => SnapOK(q, m, game)
        BY <4>1, <4>2, <3>2, <2>3, <2>5, SnapshotPut
      <4>4. HeapOK(m, game)
        BY <4>3 DEF Steady
      <4>5. Firm(g, m)
        BY <4>1, <4>2, <4>4, <3>2, <2>3, <2>5, SnapshotFirm
      <4> QED BY <4>3, <4>5
    <3> QED BY <3>1, <3>2
  <2>7. Steady(h, m) /\ Firm(h, m)
    BY <2>3, <2>6, SteadyJoin, FirmJoin
  <2>8. ASSUME NEW q, SnapOK(q, h, game), \A i \in t : Lighter(q, list[i], h) PROVE SnapOK(q, m, game)
    <3>1. SnapOK(q, g, game)
      BY <2>2, <2>8
    <3>2. Lighter(q, d, g)
      <4>1. Lighter(q, d, h) /\ q.object \in Old(h.next_identity)
        BY <2>1, <2>8 DEF SnapOK
      <4> HIDE DEF d
      <4> QED BY <4>1, <2>3, LighterLater
    <3> QED BY <3>1, <3>2, <2>6
  <2> QED BY <2>7, <2>8 DEF m
<1>5. D \in G
  <2>1. \A t \in SUBSET D : t # {} /\ t \ {Picked("containers", t)} \in G => t \in G
    BY <1>4
  <2> HIDE DEF G, D
  <2>2. \A t \in SUBSET D : t \in G
    BY <1>2, <1>3, <2>1, FoldSets
  <2> QED BY <2>2
<1> QED BY <1>1, <1>5

(* revert_properties: every value that is put back is promoted again. *)
LEMMA PropertiesFirm ==
  ASSUME NEW h, HeapOK(h, game), NEW list, IsFiniteSet(DOMAIN list), DOMAIN list \in SUBSET Nat,
         \A i \in DOMAIN list : PropertyOK(list[i], h, game),
         NEW k, k = PropertiesReverted(h, list)
  PROVE  Firm(h, k)
<1> DEFINE D == DOMAIN list
           P(g) == Keeps(h, g) /\ Firm(h, g)
<1>1. PICK f : Folding("properties", list, h, f, D) /\ PropertiesReverted(h, list) = f[D]
  BY PropertiesFold
<1>2. Pickable("properties", D)
  BY ListPickable
<1>f. /\ f[{}] = h
      /\ \A t \in SUBSET D : t # {} =>
           Picked("properties", t) \in t
           /\ f[t] = Folds("properties", list, Picked("properties", t), f[t \ {Picked("properties", t)}])
  <2> HIDE DEF P, D
  <2> QED BY <1>1, <1>2, FoldStep
<1> DEFINE G == {t \in SUBSET D : P(f[t])}
<1>3. {} \in G
  BY <1>f, KeepsSelf, FirmSelf
<1>4. ASSUME NEW t \in SUBSET D, t # {}, t \ {Picked("properties", t)} \in G PROVE t \in G
  <2> DEFINE x == Picked("properties", t)
             g == f[t \ {x}]
             d == list[x]
             m == f[t]
  <2>1. x \in D /\ m = Folds("properties", list, x, g)
    BY <1>4, <1>f
  <2>2. P(g)
    BY <1>4
  <2>3. HeapOK(g, game) /\ Descends(h, g)
    BY <2>2, FollowsDescends DEF Keeps
  <2>4. PropertyOK(d, g, game)
    <3> HIDE DEF g
    <3>1. PropertyOK(d, h, game)
      BY <2>1
    <3> HIDE DEF d
    <3> QED BY <3>1, <2>3, PropertyLater
  <2> HIDE DEF g, m, x
  <2>5. Keeps(g, m) /\ Firm(g, m)
    <3>1. CASE ~Live(g, d.object)
      <4>1. m = g
        BY <3>1, <2>1 DEF Folds
      <4> QED BY <4>1, <2>3, KeepsSelf, FirmSelf
    <3>2. CASE Live(g, d.object) /\ d.previous = Absent
      <4>1. m = Cleared(g, d.object, d.property)
        BY <3>2, <2>1 DEF Folds
      <4>2. d.object \in Old(g.next_identity) /\ d.property \notin DOMAIN Of(g, d.object).owned
        BY <3>2, <2>4 DEF PropertyOK
      <4> HIDE DEF d
      <4>3. Keeps(g, m)
        BY <4>1, <4>2, <3>2, <2>3, ClearedKeeps
      <4>4. Firm(g, m)
        BY <4>1, <4>2, <3>2, <2>3, ClearedFirm
      <4> QED BY <4>3, <4>4
    <3>3. CASE Live(g, d.object) /\ d.previous # Absent
      <4>1. m = Assigned(g, d.object, d.property, d.previous)
        BY <3>3, <2>1 DEF Folds
      <4>2. d.object \in Old(g.next_identity) /\ d.property \in game.props \cup {Field}
            /\ d.previous \in Ref(g.next_identity)
        BY <3>3, <2>4 DEF PropertyOK
      <4> HIDE DEF d
      <4>3. Keeps(g, m)
        BY <4>1, <4>2, <3>3, <2>3, AssignedKeeps
      <4>4. Firm(g, m)
        BY <4>1, <4>2, <3>3, <2>3, AssignedFirm
      <4> QED BY <4>3, <4>4
    <3> QED BY <3>1, <3>2, <3>3
  <2>6. P(m)
    BY <2>2, <2>5, KeepsJoin, FirmJoin
  <2> QED BY <2>6 DEF m
<1>5. D \in G
  <2>1. \A t \in SUBSET D : t # {} /\ t \ {Picked("properties", t)} \in G => t \in G
    BY <1>4
  <2> HIDE DEF G, D
  <2>2. \A t \in SUBSET D : t \in G
    BY <1>2, <1>3, <2>1, FoldSets
  <2> QED BY <2>2
<1> QED BY <1>1, <1>5

(* Several values are promoted. *)
LEMMA PromotedAllFirm ==
  ASSUME NEW h, HeapOK(h, game), NEW S, IsFiniteSet(S), NEW k, k = PromotedAll(h, S)
  PROVE  Firm(h, k) /\ Still(h, k)
<1>1. PICK list, f : Folding("promoted", list, h, f, S) /\ PromotedAll(h, S) = f[S]
  BY PromotedFold
<1>2. Pickable("promoted", S)
  BY SetPickable
<1>f. /\ f[{}] = h
      /\ \A t \in SUBSET S : t # {} =>
           Picked("promoted", t) \in t
           /\ f[t] = Folds("promoted", list, Picked("promoted", t), f[t \ {Picked("promoted", t)}])
  BY <1>1, <1>2, FoldStep
<1> DEFINE G == {t \in SUBSET S : Firm(h, f[t]) /\ Still(h, f[t])}
<1>3. {} \in G
  BY <1>f, FirmSelf, StillSelf
<1>4. ASSUME NEW t \in SUBSET S, t # {}, t \ {Picked("promoted", t)} \in G PROVE t \in G
  <2> DEFINE x == Picked("promoted", t)
             g == f[t \ {x}]
             m == f[t]
  <2>1. m = Folds("promoted", list, x, g)
    BY <1>4, <1>f
  <2>2. m = Promoted(g, x)
    BY <2>1 DEF Folds
  <2>3. Firm(h, g) /\ Still(h, g)
    BY <1>4
  <2> HIDE DEF g, m, x
  <2>4. Firm(g, m) /\ Still(g, m)
    BY <2>2, <2>3, PromotedFirm DEF Firm
  <2>5. Firm(h, m) /\ Still(h, m)
    BY <2>3, <2>4, StillJoin
  <2> QED BY <2>5 DEF m
<1>5. S \in G
  <2>1. \A t \in SUBSET S : t # {} /\ t \ {Picked("promoted", t)} \in G => t \in G
    BY <1>4
  <2> HIDE DEF G
  <2>2. \A t \in SUBSET S : t \in G
    BY <1>2, <1>3, <2>1, FoldSets
  <2> QED BY <2>2
<1> QED BY <1>1, <1>5

(***************************************************************************)
(* Records that are made                                                   *)
(***************************************************************************)
(* create. *)
LEMMA CreatedFirm ==
  ASSUME NEW h, HeapOK(h, game), NEW slot \in Slots(h), CanCreate(h), NEW lifetime \in {"World", "Turn"},
         NEW k, k = Created(h, slot, lifetime)
  PROVE  Firm(h, k) /\ Still(h, k)
<1>1. /\ HeapOK(k, game) /\ slot \notin DOMAIN h.records /\ DOMAIN k.records = DOMAIN h.records \cup {slot}
      /\ k.records[slot] = Blank(h.next_identity, lifetime)
      /\ \A s \in DOMAIN h.records : k.records[s] = h.records[s]
      /\ k.next_identity = h.next_identity + 1
  BY CreatedOK
<1>2. h.next_identity \in Int
  BY DEF HeapOK
<1>3. k.records[slot].born >= h.next_identity
  BY <1>1, <1>2 DEF Blank
<1>4. Lasts(h, k)
  BY <1>1, <1>2, <1>3 DEF Lasts, Lasting
<1>5. RecordSafe(k.records[slot], h, game)
  <2>1. k.records[slot].kind = "plain" /\ LeadsTo(k.records[slot], game) = {}
    BY <1>1 DEF Blank, LeadsTo, ElementRefs, Nothing, Range
  <2> QED BY <2>1 DEF RecordSafe
<1>6. Closes(h, game) => \A s \in DOMAIN k.records : RecordSafe(k.records[s], h, game)
  BY <1>1, <1>5, ClosedSafe
<1>7. Closes(h, game) => Closes(k, game)
  BY <1>4, <1>6, ClosesLater
<1>8. Still(h, k)
  <2>1. DOMAIN k.records[slot].owned = {}
    BY <1>1 DEF Blank, Nothing
  <2> QED BY <1>1, <1>2, <1>3, <2>1 DEF Still, Lasting, Same
<1> QED BY <1>1, <1>4, <1>7, <1>8 DEF Firm

(* adopt: a World record must not adopt a Turn one. *)
LEMMA AdoptedFirm ==
  ASSUME NEW h, HeapOK(h, game), NEW p, NEW c, Live(h, p), c \in h.roots, p \in Old(h.next_identity),
         p.born < c.born, Of(h, p).lifetime = "World" => Of(h, c).lifetime = "World",
         NEW k, k = Adopted(h, p, c)
  PROVE  Firm(h, k) /\ Still(h, k)
<1>1. /\ HeapOK(k, game) /\ k.next_identity = h.next_identity
      /\ DOMAIN k.records = DOMAIN h.records
      /\ k.records[c.slot] = [h.records[c.slot] EXCEPT !.parent = p]
      /\ \A s \in DOMAIN h.records \ {c.slot, p.slot} : k.records[s] = h.records[s]
      /\ k.records[p.slot] = [h.records[p.slot] EXCEPT !.children = @ \cup {c}]
  BY AdoptedOK
<1>2. c \in Old(h.next_identity) /\ Live(h, c) /\ h.next_identity \in Int
  BY DEF HeapOK, TreeOK
<1>3. ASSUME NEW s \in DOMAIN h.records
      PROVE  LET r == h.records[s]
                 q == k.records[s]
             IN  /\ q.born = r.born /\ q.kind = r.kind /\ q.lifetime = r.lifetime
                 /\ q.properties = r.properties /\ q.elements = r.elements /\ q.owned = r.owned
                 /\ q.children \subseteq r.children \cup (IF s = p.slot THEN {c} ELSE {})
  <2>1. RecordOK(h.records[s], h.next_identity, game)
    BY DEF HeapOK
  <2>2. CASE s = p.slot
    BY <1>1, <2>1, <2>2 DEF RecordOK
  <2>3. CASE s # p.slot /\ s = c.slot
    BY <1>1, <2>1, <2>3 DEF RecordOK
  <2>4. CASE s # p.slot /\ s # c.slot
    BY <1>1, <2>4
  <2> QED BY <2>2, <2>3, <2>4
<1>4. Lasts(h, k)
  BY <1>1, <1>2, <1>3 DEF Lasts, Lasting
<1>5. ASSUME Closes(h, game), NEW s \in DOMAIN k.records PROVE RecordSafe(k.records[s], h, game)
  <2> DEFINE r == h.records[s]
             q == k.records[s]
  <2>1. RecordSafe(r, h, game)
    BY <1>1, <1>5, ClosedSafe
  <2>2. /\ q.born = r.born /\ q.kind = r.kind /\ q.lifetime = r.lifetime
        /\ q.properties = r.properties /\ q.elements = r.elements
        /\ q.children \subseteq r.children \cup (IF s = p.slot THEN {c} ELSE {})
    BY <1>1, <1>3
  <2>3. s = p.slot /\ r.lifetime = "World" => Safe(h, c)
    BY <1>2 DEF Of, Safe, World
  <2> HIDE DEF r, q
  <2>4. LeadsTo(q, game) \subseteq LeadsTo(r, game) \cup (IF s = p.slot THEN {c} ELSE {})
    BY <2>2 DEF LeadsTo
  <2>5. RecordSafe(q, h, game)
    BY <1>2, <2>1, <2>2, <2>3, <2>4 DEF RecordSafe
  <2> QED BY <2>5 DEF q
<1>6. Closes(h, game) => Closes(k, game)
  BY <1>4, <1>5, ClosesLater
<1>7. Still(h, k)
  BY <1>1, <1>2, <1>3 DEF Still, Lasting, Same
<1> QED BY <1>1, <1>4, <1>6, <1>7 DEF Firm

(* An activation and its instance have the lifetime of the moment. *)
LEMMA BegunFirm ==
  ASSUME NEW h, HeapOK(h, game), NEW l \in {"World", "Turn"}, CanCreate(h), NEW x \in Slots(h),
         NEW first, first = Created(h, x, l), CanCreate(first), NEW a, a = HandleAt(first, x),
         NEW s \in Slots(first), NEW second, second = Created(first, s, l), NEW o, o = HandleAt(second, s),
         NEW adopted, adopted = Adopted(second, a, o)
  PROVE  Firm(h, first) /\ Still(h, first) /\ Firm(h, adopted) /\ Still(h, adopted) /\ s \in DOMAIN adopted.records
<1>1. /\ HeapOK(first, game) /\ DOMAIN first.records = DOMAIN h.records \cup {x}
      /\ first.records[x] = Blank(h.next_identity, l) /\ first.next_identity = h.next_identity + 1
      /\ Firm(h, first) /\ Still(h, first)
  BY CreatedOK, CreatedFirm
<1>2. /\ HeapOK(second, game) /\ DOMAIN second.records = DOMAIN first.records \cup {s}
      /\ s \notin DOMAIN first.records /\ \A t \in DOMAIN first.records : second.records[t] = first.records[t]
      /\ second.records[s] = Blank(first.next_identity, l) /\ Firm(first, second) /\ Still(first, second)
      /\ second.next_identity = first.next_identity + 1
      /\ second.roots = first.roots \cup {[slot |-> s, born |-> first.next_identity]}
  BY <1>1, CreatedOK, CreatedFirm
<1>3. a = [slot |-> x, born |-> h.next_identity] /\ o = [slot |-> s, born |-> first.next_identity]
  BY <1>1, <1>2 DEF HandleAt, Blank
<1>4. h.next_identity \in Int
  BY DEF HeapOK
<1>5. a.slot = x /\ o.slot = s /\ a.born = h.next_identity /\ o.born = h.next_identity + 1
  BY <1>1, <1>3
<1>6. a \in Old(first.next_identity) /\ a # Nil /\ Live(first, a)
  BY <1>1, HandleFacts
<1>7. Live(second, a) /\ a \in Old(second.next_identity)
  <2>1. Live(second, a)
    BY <1>2, <1>6 DEF Live
  <2>2. first.next_identity \in Int /\ second.next_identity \in Int /\ first.next_identity <= second.next_identity
    BY <1>1, <1>2, <1>4
  <2> QED BY <1>6, <2>1, <2>2, OldGrows
<1>8. Of(second, a).lifetime = l /\ Of(second, o).lifetime = l
  BY <1>1, <1>2, <1>5 DEF Of, Blank
<1>9. o \in second.roots /\ a.born < o.born
  BY <1>2, <1>3, <1>4, <1>5
<1>10. Firm(second, adopted) /\ Still(second, adopted) /\ DOMAIN adopted.records = DOMAIN second.records
  <2>1. HeapOK(second, game) /\ adopted = Adopted(second, a, o)
        /\ (Of(second, a).lifetime = "World" => Of(second, o).lifetime = "World")
    BY <1>2, <1>8
  <2>2. Firm(second, adopted) /\ Still(second, adopted)
    BY ONLY <2>1, <1>7, <1>9, AdoptedFirm
  <2>3. DOMAIN adopted.records = DOMAIN second.records
    <3>1. Shaped(second)
      BY <2>1 DEF HeapOK
    <3> QED BY ONLY <2>1, <3>1 DEF Adopted, Shaped
  <2> QED BY <2>2, <2>3
<1>11. Firm(h, second) /\ Still(h, second)
  BY <1>1, <1>2, StillJoin
<1> QED BY <1>1, <1>2, <1>10, <1>11, StillJoin

(* A record is rewritten but for what it refers to and owns. *)
LEMMA SameFirm ==
  ASSUME NEW h, HeapOK(h, game), NEW k, HeapOK(k, game), NEW s \in DOMAIN h.records, NEW q,
         k.records = [h.records EXCEPT ![s] = q], k.next_identity = h.next_identity,
         Lesser(h.records[s], q)
  PROVE  Firm(h, k) /\ Still(h, k)
<1>1. IsFun(h.records)
  BY DEF HeapOK, Shaped
<1>2. Fewer(h, k)
  BY <1>1 DEF Fewer, Lesser, IsFun
<1> QED BY <1>2, FewerFirm

(***************************************************************************)
(* Records that change hands, and records that go                          *)
(***************************************************************************)
(* A child becomes a root. *)
LEMMA OrphanedFirm ==
  ASSUME NEW h, HeapOK(h, game), NEW p, Live(h, p), NEW c, Live(h, c), NEW k, k = Orphaned(h, p, c), HeapOK(k, game)
  PROVE  Firm(h, k) /\ Still(h, k) /\ Fewer(h, k)
<1>1. Shaped(h) /\ p.slot \in DOMAIN h.records /\ c.slot \in DOMAIN h.records
  BY DEF HeapOK, Live
<1>2. DOMAIN k.records = DOMAIN h.records /\ k.next_identity = h.next_identity
  BY <1>1 DEF Orphaned, Shaped, IsFun
<1>3. \A s \in DOMAIN h.records : Lesser(h.records[s], k.records[s])
  <2>1. SUFFICES ASSUME NEW s \in DOMAIN h.records PROVE Lesser(h.records[s], k.records[s])
    OBVIOUS
  <2>2. RecordOK(h.records[s], h.next_identity, game)
    BY DEF HeapOK
  <2>3. CASE s = p.slot /\ s = c.slot
    <3>1. k.records[s] = [h.records[s] EXCEPT !.parent = Nil, !.children = @ \ {c}]
      BY <1>1, <2>3 DEF Orphaned, Shaped, IsFun
    <3> QED BY <2>2, <3>1 DEF Lesser, RecordOK
  <2>4. CASE s = p.slot /\ s # c.slot
    <3>1. k.records[s] = [h.records[s] EXCEPT !.children = @ \ {c}]
      BY <1>1, <2>4 DEF Orphaned, Shaped, IsFun
    <3> QED BY <2>2, <3>1 DEF Lesser, RecordOK
  <2>5. CASE s # p.slot /\ s = c.slot
    <3>1. k.records[s] = [h.records[s] EXCEPT !.parent = Nil]
      BY <1>1, <2>5 DEF Orphaned, Shaped, IsFun
    <3> QED BY <2>2, <3>1 DEF Lesser, RecordOK
  <2>6. CASE s # p.slot /\ s # c.slot
    <3>1. k.records[s] = h.records[s]
      BY <1>1, <2>6 DEF Orphaned, Shaped, IsFun
    <3> QED BY <3>1 DEF Lesser
  <2> QED BY <2>3, <2>4, <2>5, <2>6
<1> QED BY <1>2, <1>3, FewerFirm DEF Fewer

(* finish_published_construction. *)
LEMMA PublishedFirm ==
  ASSUME NEW h, HeapOK(h, game), NEW c, c.activation \in h.roots, Live(h, c.object),
         c.object \in Old(h.next_identity), Of(h, c.object).parent = c.activation,
         DOMAIN Of(h, c.activation).owned = {}, NEW k, k = Published(h, c)
  PROVE  Firm(h, k) /\ Still(h, k) /\ Fewer(h, k)
<1> DEFINE a == c.activation
           o == c.object
<1>1. PICK m : m = Orphaned(h, a, o) OBVIOUS
<1>2. Live(h, a) /\ a \in Old(h.next_identity) /\ o \in Of(h, a).children
  <2>1. Live(h, a) /\ a \in Old(h.next_identity) BY DEF HeapOK, TreeOK
  <2>2. a # Nil /\ HandleAt(h, o.slot) = o /\ o.slot \in DOMAIN h.records
    BY <2>1, HandleFacts DEF Live
  <2>3. h.records[o.slot].parent = a BY DEF Of
  <2> QED BY <2>1, <2>2, <2>3 DEF HeapOK, TreeOK
<1>3. Live(h, o) /\ DOMAIN Of(h, a).owned = {} OBVIOUS
<1> HIDE DEF a, o
<1>4. HeapOK(m, game) /\ m.roots = h.roots \cup {o}
  BY <1>1, <1>2, <1>3, OrphanedOK
<1>5. k = DestroyedRoot(m, a) /\ a \in m.roots BY <1>1, <1>4 DEF Published, a, o
<1>6. Firm(h, m) /\ Still(h, m) /\ Fewer(h, m)
  BY <1>1, <1>2, <1>3, <1>4, OrphanedFirm
<1>7. Firm(m, k) /\ Still(m, k) /\ Fewer(m, k)
  BY <1>4, <1>5, DestroyedRootFirm
<1> QED BY <1>6, <1>7, StillJoin, FewerJoin

(* despawn. *)
LEMMA DespawnedFirm ==
  ASSUME NEW h, HeapOK(h, game), NEW o \in Old(h.next_identity), Live(h, o), NEW m,
         \/ o \in h.roots /\ m = [h EXCEPT !.roots = @ \ {o}]
         \/ o \notin h.roots /\ m = [h EXCEPT !.records[Of(h, o).parent.slot].children = @ \ {o}],
         NEW k, k = Destroyed(m, {o.slot}), HeapOK(k, game)
  PROVE  Firm(h, k) /\ Still(h, k) /\ Fewer(h, k)
<1>1. Shaped(h)
  BY DEF HeapOK
<1>2. CASE o \in h.roots
  <2>1. Shaped(m) /\ m.records = h.records /\ m.next_identity = h.next_identity
    BY <1>1, <1>2 DEF Shaped
  <2>2. Fewer(h, m)
    BY <2>1 DEF Fewer, Lesser
  <2>3. Fewer(m, k)
    BY <2>1, DestroyedFewer
  <2> QED BY <2>2, <2>3, FewerJoin, FewerFirm
<1>3. CASE o \notin h.roots
  <2>1. PICK t : t = Of(h, o).parent.slot OBVIOUS
  <2>2. t \in DOMAIN h.records
    <3>1. o.slot \in DOMAIN h.records /\ HandleAt(h, o.slot) = o BY HandleFacts DEF Live
    <3>2. h.records[o.slot].parent # Nil BY <3>1, <1>3 DEF HeapOK, TreeOK
    <3>3. Live(h, h.records[o.slot].parent) BY <3>1, <3>2 DEF HeapOK, TreeOK
    <3> QED BY <2>1, <3>3 DEF Live, Of
  <2>3. m = [h EXCEPT !.records[t].children = @ \ {o}] BY <1>3, <2>1
  <2>4. PICK q : q = [h.records[t] EXCEPT !.children = @ \ {o}] OBVIOUS
  <2>5. Shaped(m) /\ m.records = [h.records EXCEPT ![t] = q] /\ m.next_identity = h.next_identity
    BY <1>1, <2>2, <2>3, <2>4 DEF Shaped, IsFun
  <2>6. Lesser(h.records[t], q)
    <3>1. RecordOK(h.records[t], h.next_identity, game) BY <2>2 DEF HeapOK
    <3> QED BY <3>1, <2>4 DEF Lesser, RecordOK
  <2>7. Fewer(h, m)
    BY <1>1, <2>2, <2>5, <2>6 DEF Fewer, Lesser, Shaped, IsFun
  <2>8. Fewer(m, k)
    BY <2>5, DestroyedFewer
  <2> QED BY <2>7, <2>8, FewerJoin, FewerFirm
<1> QED BY <1>2, <1>3

(* release_turn_records. *)
LEMMA TurnReleasedFirm ==
  ASSUME NEW h, HeapOK(h, game), NEW k, k = TurnReleased(h)
  PROVE  Firm(h, k) /\ Still(h, k)
<1> DEFINE turn == {o \in LiveHandles(h) : Of(h, o).lifetime = "Turn"}
           owned(o) == Of(h, o).parent # Nil /\ World(h, Of(h, o).parent)
           R == {o \in turn : Of(h, o).parent = Nil}
           P == {o \in turn : owned(o)}
           m == PromotedAll(h, P)
           slots == {o.slot : o \in R}
           d == Destroyed(m, slots)
<1>1. k = [d EXCEPT !.roots = @ \ R]
  BY DEF TurnReleased
<1>2. Firm(h, m) /\ Still(h, m)
  <2>1. IsFiniteSet(P)
    <3>1. IsFiniteSet(DOMAIN h.records) BY HeapFinite
    <3>2. IsFiniteSet(LiveHandles(h))
      <4> DEFINE f == [s \in DOMAIN h.records |-> HandleAt(h, s)]
      <4>1. f \in Surjection(DOMAIN h.records, LiveHandles(h))
        BY DEF Surjection, LiveHandles
      <4> HIDE DEF f
      <4> QED BY <3>1, <4>1, FS_Surjection
    <3> QED BY <3>2, FS_Subset
  <2> HIDE DEF P
  <2>2. m = PromotedAll(h, P) OBVIOUS
  <2> HIDE DEF m
  <2> QED BY <2>1, <2>2, PromotedAllFirm
<1>3. HeapOK(m, game) /\ Shaped(m)
  <2> HIDE DEF m
  <2> QED BY <1>2 DEF Firm, HeapOK
<1>4. Fewer(m, d)
  <2>1. d = Destroyed(m, slots) OBVIOUS
  <2> HIDE DEF m, slots, d
  <2> QED BY <1>3, <2>1, DestroyedFewer
<1>5. k.records = d.records /\ k.next_identity = d.next_identity
  BY <1>1 DEF Destroyed
<1>6. HeapOK(k, game)
  BY TurnReleasedOK DEF TurnGone
<1> HIDE DEF m, d, slots
<1>7. Fewer(m, k)
  BY <1>4, <1>5 DEF Fewer
<1>8. Firm(m, k) /\ Still(m, k)
  BY <1>3, <1>6, <1>7, FewerFirm
<1> QED BY <1>2, <1>8, StillJoin

(***************************************************************************)
(* The invariant, with the snapshots                                       *)
(***************************************************************************)
(* The snapshots of the open cycle and of the finished ones. *)
Snaps(cs, hs) ==
  {cs[i] : i \in DOMAIN cs}
  \cup UNION {{hs[l].containers[i] : i \in DOMAIN hs[l].containers} : l \in DOMAIN hs}

(* World records lead to World records, and will when snapshots are put back. *)
WorldWell(h, cs, hs) == Closes(h, game) /\ \A d \in Snaps(cs, hs) : SnapSafe(d, h)

(* The containers that were saved have been given out. *)
LEMMA SnapsOld ==
  ASSUME NEW h, NEW js, NEW cs, NEW hs, JournalsOK(h, game, js, cs, hs), NEW d \in Snaps(cs, hs)
  PROVE  d.object \in Old(h.next_identity)
<1>1. SnapOK(d, h, game)
  <2>1. CASE d \in {cs[i] : i \in DOMAIN cs}
    BY <2>1 DEF JournalsOK, ContainersOK
  <2>2. ASSUME NEW l \in DOMAIN hs, d \in {hs[l].containers[i] : i \in DOMAIN hs[l].containers}
        PROVE  SnapOK(d, h, game)
    BY <2>2 DEF JournalsOK, ContainersOK
  <2> QED BY <2>1, <2>2 DEF Snaps
<1> QED BY <1>1 DEF SnapOK

(* A step that keeps the heap closed and saves only what is safe keeps the *)
(* invariant.                                                              *)
LEMMA WorldLater ==
  ASSUME NEW h, HeapOK(h, game), NEW js, NEW cs, NEW hs, JournalsOK(h, game, js, cs, hs), WorldWell(h, cs, hs),
         NEW k, Firm(h, k), NEW ct, NEW ht,
         \A d \in Snaps(ct, ht) : d \in Snaps(cs, hs) \/ SnapSafe(d, k)
  PROVE  WorldWell(k, ct, ht)
<1>1. Closes(k, game)
  BY DEF WorldWell, Firm
<1>2. \A d \in Snaps(ct, ht) : SnapSafe(d, k)
  <2>1. SUFFICES ASSUME NEW d \in Snaps(cs, hs) PROVE SnapSafe(d, k) OBVIOUS
  <2>2. SnapSafe(d, h) /\ d.object \in Old(h.next_identity) BY SnapsOld DEF WorldWell
  <2> QED BY <2>2, SnapSafeLater
<1> QED BY <1>1, <1>2 DEF WorldWell

(***************************************************************************)
(* A container gets other elements                                         *)
(***************************************************************************)
(* A record with other elements. *)
Refilled(r, q) ==
  /\ q.born = r.born /\ q.kind = r.kind /\ q.lifetime = r.lifetime
  /\ q.properties = r.properties /\ q.children = r.children

(* A container gets safe elements. *)
LEMMA RefilledFirm ==
  ASSUME NEW h, HeapOK(h, game), NEW k, HeapOK(k, game), NEW s \in DOMAIN h.records, NEW q, NEW X,
         k.records = [h.records EXCEPT ![s] = q], k.next_identity = h.next_identity, Refilled(h.records[s], q),
         ElementRefs(q.elements, q.kind, game)
           \subseteq ElementRefs(h.records[s].elements, h.records[s].kind, game) \cup X,
         h.records[s].lifetime = "World" => \A x \in X : x \in Old(h.next_identity) /\ Safe(h, x)
  PROVE  Firm(h, k)
<1> DEFINE r == h.records[s]
<1>1. IsFun(h.records)
  BY DEF HeapOK, Shaped
<1>2. Altered(h, k, s, q)
  BY <1>1 DEF Altered, Refilled, IsFun
<1>3. Closes(h, game) => RecordSafe(q, h, game)
  <2>1. SUFFICES ASSUME Closes(h, game) PROVE RecordSafe(q, h, game) OBVIOUS
  <2>2. RecordSafe(r, h, game) BY <2>1, ClosedSafe
  <2>3. LeadsTo(q, game) \subseteq LeadsTo(r, game) \cup X BY DEF LeadsTo, Refilled
  <2>4. r.lifetime = "World" => \A x \in X : x \in Old(h.next_identity) /\ Safe(h, x) OBVIOUS
  <2>5. q.kind = r.kind /\ q.lifetime = r.lifetime BY DEF Refilled
  <2> HIDE DEF r
  <2> QED BY <2>2, <2>3, <2>4, <2>5 DEF RecordSafe
<1> QED BY <1>2, <1>3, AlteredFirm

(* A snapshot that is taken is safe where it is taken. *)
LEMMA TakenSafe ==
  ASSUME NEW h, HeapOK(h, game), Closes(h, game), NEW o, World(h, o), NEW d, d = Snapshot(h, o)
  PROVE  SnapSafe(d, h)
<1>1. d.object = o /\ d.elements = Of(h, o).elements
  BY DEF Snapshot
<1>2. o.slot \in DOMAIN h.records /\ Of(h, o) = h.records[o.slot] /\ Of(h, o).lifetime = "World"
  BY DEF World, Live, Of
<1>3. RecordSafe(Of(h, o), h, game)
  BY <1>2, ClosedSafe
<1>4. ElementRefs(Of(h, o).elements, Of(h, o).kind, game) \subseteq LeadsTo(Of(h, o), game)
  BY DEF LeadsTo
<1> QED BY <1>1, <1>2, <1>3, <1>4 DEF RecordSafe, SnapSafe

(* The snapshots of a step are old ones, or safe. *)
Widened(k, ct, ht, cs, hs) == \A d \in Snaps(ct, ht) : d \in Snaps(cs, hs) \/ SnapSafe(d, k)

(* A change to a container takes a snapshot of what is safe. *)
LEMMA ChangedFirm ==
  ASSUME AllOK, Closes(heap, game), HeapOK(heap', game), NEW o \in Old(heap.next_identity), NEW stored, NEW after,
         Firm(heap, stored), stored.next_identity = heap.next_identity,
         HeapOK(after, game) => Firm(stored, after), Changed(o, stored, after)
  PROVE  Firm(heap, heap') /\ Widened(heap', containers', history', containers, history)
<1>1. HeapOK(heap, game) /\ HeapOK(stored, game) /\ Closes(stored, game) /\ history' = history
      /\ Listed(containers)
  BY DEF AllOK, Firm, Changed, JournalsOK
<1>2. CASE heap' = stored /\ containers' = containers
  BY <1>1, <1>2 DEF Widened
<1>3. ASSUME heap' = after PROVE Firm(stored, heap') /\ Firm(heap, heap')
  BY <1>1, <1>3, FirmJoin
<1>4. CASE heap' = after /\ containers' = containers
  BY <1>1, <1>3, <1>4 DEF Widened
<1>5. CASE heap' = after /\ Unsaved(stored, o) /\ containers' = Append(containers, Snapshot(stored, o))
  <2>1. PICK d : d = Snapshot(stored, o) OBVIOUS
  <2>2. World(stored, o) /\ d.object = o BY <1>5, <2>1 DEF Unsaved, Snapshot
  <2>3. SnapSafe(d, stored) BY <1>1, <2>1, <2>2, TakenSafe
  <2>4. SnapSafe(d, heap') BY <1>1, <1>3, <1>5, <2>2, <2>3, SnapSafeLater
  <2>5. Appended(containers, d, containers') BY <1>1, <1>5, <2>1, ListAppend
  <2>6. \A i \in DOMAIN containers' : containers'[i] = d \/ containers'[i] \in {containers[j] : j \in DOMAIN containers}
    BY <2>5 DEF Appended
  <2>7. Snaps(containers', history') \subseteq Snaps(containers, history) \cup {d}
    BY <1>1, <2>6 DEF Snaps
  <2> QED BY <1>3, <1>5, <2>4, <2>7 DEF Widened
<1> QED BY <1>2, <1>4, <1>5 DEF Changed

(* A World container that is stored into got what is World. *)
LEMMA StoredWell ==
  ASSUME AllOK, NEW o, NEW v, NEW stored, stored = Stored(heap, o, v)
  PROVE  /\ Firm(heap, stored) /\ Still(heap, stored) /\ Alike(heap, stored) /\ stored.next_identity = heap.next_identity
         /\ HeapOK(stored, game)
         /\ Live(stored, o) /\ Of(stored, o).lifetime = "World" => Safe(stored, v)
<1>1. Alike(heap, stored) BY StoredAlike DEF AllOK
<1>2. Firm(heap, stored) /\ Still(heap, stored) /\ (World(stored, o) => Safe(stored, v)) BY StoredFirm DEF AllOK
<1> QED BY <1>1, <1>2 DEF Alike, World

(* vector_append. *)
LEMMA VectorAppendFirm ==
  ASSUME AllOK, game' = game, Closes(heap, game), NEW o \in OfKind("vector"), NEW v \in Values, VectorAppend(o, v)
  PROVE  Firm(heap, heap') /\ Widened(heap', containers', history', containers, history)
<1>0. HeapOK(heap', game)
  <2>1. AllOK' BY VectorAppendOK
  <2> QED BY <2>1 DEF AllOK
<1>1. o \in Visible(heap) /\ Of(heap, o).kind = "vector" /\ v \in Ref(heap.next_identity)
      /\ o \in Old(heap.next_identity) /\ Live(heap, o)
  BY ValuesOld, VisibleOld DEF OfKind, AllOK
<1> DEFINE stored == Stored(heap, o, v)
           r == Of(stored, o)
           l == Cardinality(DOMAIN r.elements)
           e == With(r.elements, l + 1, v)
           more == IF l + 1 > r.capacity THEN (l + 1) - r.capacity ELSE 0
           after == IF more > PropertyLimit - stored.charged THEN Failed(stored)
                    ELSE [stored EXCEPT !.records[o.slot].elements = With(@, l + 1, v),
                                        !.records[o.slot].capacity = @ + more, !.charged = @ + more]
<1>2. Changed(o, stored, after)
  BY ONLY VectorAppend(o, v), Zenon DEF VectorAppend
<1>3. /\ Firm(heap, stored) /\ Alike(heap, stored) /\ stored.next_identity = heap.next_identity
      /\ HeapOK(stored, game) /\ (Live(stored, o) /\ Of(stored, o).lifetime = "World" => Safe(stored, v))
  <2> HIDE DEF stored
  <2>1. \A x : x = Stored(heap, o, v) =>
          /\ Firm(heap, x) /\ Alike(heap, x) /\ x.next_identity = heap.next_identity
          /\ HeapOK(x, game) /\ (Live(x, o) /\ Of(x, o).lifetime = "World" => Safe(x, v))
    BY StoredWell
  <2> QED BY <2>1 DEF stored
<1>4. r = stored.records[o.slot] BY DEF Of
<1> HIDE DEF stored, r
<1>5. Shaped(stored) /\ o.slot \in DOMAIN stored.records /\ RecordOK(r, stored.next_identity, game)
      /\ r.kind = "vector"
  BY <1>1, <1>3, <1>4, StoredContainer
<1>6. Live(stored, o)
  BY <1>1, <1>3, AlikeKeeps DEF AllOK
<1> HIDE DEF l, more
<1>7. ASSUME HeapOK(after, game) PROVE Firm(stored, after)
  <2>1. CASE more > PropertyLimit - stored.charged
    BY <2>1, <1>3, FailedFirm
  <2>2. CASE ~(more > PropertyLimit - stored.charged)
    <3>1. after = [stored EXCEPT !.records[o.slot].elements = With(@, l + 1, v),
                       !.records[o.slot].capacity = @ + more, !.charged = @ + more]
      BY <2>2
    <3> HIDE DEF after
    <3>2. PICK q : q = [r EXCEPT !.elements = With(r.elements, l + 1, v), !.capacity = r.capacity + more] OBVIOUS
    <3>3. after.records = [stored.records EXCEPT ![o.slot] = q] /\ after.next_identity = stored.next_identity
      BY ONLY <1>4, <1>5, <3>1, <3>2 DEF Shaped
    <3>4. Refilled(r, q) /\ q.elements = e
      BY <1>5, <3>2 DEF Refilled, RecordOK
    <3>5. ElementRefs(q.elements, q.kind, game) \subseteq ElementRefs(r.elements, r.kind, game) \cup ({v} \ {Nil})
      <4>1. Range(e) \subseteq Range(r.elements) \cup {v} BY DEF Range, With
      <4> HIDE DEF e
      <4> QED BY <1>5, <3>4, <4>1 DEF ElementRefs, Refilled
    <3>6. r.lifetime = "World" => \A x \in {v} \ {Nil} : x \in Old(stored.next_identity) /\ Safe(stored, x)
      BY <1>1, <1>3, <1>4, <1>6 DEF Of, Ref
    <3>7. PICK X : X = {v} \ {Nil} OBVIOUS
    <3> QED BY <1>3, <1>4, <1>5, <1>7, <3>3, <3>4, <3>5, <3>6, <3>7, RefilledFirm
  <2> QED BY <2>1, <2>2
<1> HIDE DEF after
<1> QED BY <1>0, <1>1, <1>2, <1>3, <1>7, ChangedFirm

(* vector_set. *)
LEMMA VectorSetFirm ==
  ASSUME AllOK, game' = game, Closes(heap, game), NEW o \in OfKind("vector"), NEW v \in Values,
         NEW n \in DOMAIN Of(heap, o).elements, VectorSet(o, n, v)
  PROVE  Firm(heap, heap') /\ Widened(heap', containers', history', containers, history)
<1>0. HeapOK(heap', game)
  <2>1. AllOK' BY VectorSetOK
  <2> QED BY <2>1 DEF AllOK
<1>1. o \in Visible(heap) /\ Of(heap, o).kind = "vector" /\ v \in Ref(heap.next_identity)
      /\ o \in Old(heap.next_identity) /\ Live(heap, o)
  BY ValuesOld, VisibleOld DEF OfKind, AllOK
<1> DEFINE stored == Stored(heap, o, v)
           r == Of(stored, o)
           e == [r.elements EXCEPT ![n] = v]
           after == [stored EXCEPT !.records[o.slot].elements[n] = v]
<1>2. Changed(o, stored, after)
  BY DEF VectorSet
<1>3. /\ Firm(heap, stored) /\ Alike(heap, stored) /\ stored.next_identity = heap.next_identity
      /\ HeapOK(stored, game) /\ (Live(stored, o) /\ Of(stored, o).lifetime = "World" => Safe(stored, v))
  <2> HIDE DEF stored
  <2>1. \A x : x = Stored(heap, o, v) =>
          /\ Firm(heap, x) /\ Alike(heap, x) /\ x.next_identity = heap.next_identity
          /\ HeapOK(x, game) /\ (Live(x, o) /\ Of(x, o).lifetime = "World" => Safe(x, v))
    BY StoredWell
  <2> QED BY <2>1 DEF stored
<1>4. r = stored.records[o.slot] BY DEF Of
<1> HIDE DEF stored, r
<1>5. Shaped(stored) /\ o.slot \in DOMAIN stored.records /\ RecordOK(r, stored.next_identity, game)
      /\ r.kind = "vector" /\ IsFun(r.elements)
  BY <1>1, <1>3, <1>4, StoredContainer DEF ElementsOK
<1>6. Live(stored, o)
  BY <1>1, <1>3, AlikeKeeps DEF AllOK
<1>7. ASSUME HeapOK(after, game) PROVE Firm(stored, after)
  <2>1. after = [stored EXCEPT !.records[o.slot].elements[n] = v] OBVIOUS
  <2> HIDE DEF after
  <2>2. PICK q : q = [r EXCEPT !.elements = [r.elements EXCEPT ![n] = v]] OBVIOUS
  <2>3. after.records = [stored.records EXCEPT ![o.slot] = q] /\ after.next_identity = stored.next_identity
    BY ONLY <1>4, <1>5, <2>1, <2>2 DEF Shaped
  <2>4. Refilled(r, q) /\ q.elements = e
    BY <1>5, <2>2 DEF Refilled, RecordOK
  <2>5. ElementRefs(q.elements, q.kind, game) \subseteq ElementRefs(r.elements, r.kind, game) \cup ({v} \ {Nil})
    <3>1. Range(e) \subseteq Range(r.elements) \cup {v} BY <1>5 DEF Range, IsFun
    <3> HIDE DEF e
    <3> QED BY <1>5, <2>4, <3>1 DEF ElementRefs, Refilled
  <2>6. r.lifetime = "World" => \A x \in {v} \ {Nil} : x \in Old(stored.next_identity) /\ Safe(stored, x)
    BY <1>1, <1>3, <1>4, <1>6 DEF Of, Ref
  <2>7. PICK X : X = {v} \ {Nil} OBVIOUS
  <2> QED BY <1>3, <1>4, <1>5, <1>7, <2>3, <2>4, <2>5, <2>6, <2>7, RefilledFirm
<1> HIDE DEF after
<1> QED BY <1>0, <1>1, <1>2, <1>3, <1>7, ChangedFirm

(* vector_remove_range. *)
LEMMA VectorRemoveFirm ==
  ASSUME AllOK, game' = game, Closes(heap, game), NEW o \in OfKind("vector"), NEW m \in DOMAIN Of(heap, o).elements,
         NEW n \in m..Cardinality(DOMAIN Of(heap, o).elements), VectorRemove(o, m, n)
  PROVE  Firm(heap, heap') /\ Widened(heap', containers', history', containers, history)
<1>0. HeapOK(heap', game)
  <2>1. AllOK' BY VectorRemoveOK
  <2> QED BY <2>1 DEF AllOK
<1>1. o \in Visible(heap) /\ Of(heap, o).kind = "vector" /\ o \in Old(heap.next_identity) /\ Live(heap, o)
  BY VisibleOld DEF OfKind, AllOK
<1> DEFINE r == Of(heap, o)
           c == Cardinality(DOMAIN r.elements)
           left == c - (n - m + 1)
           kept(s) == [x \in 1..left |-> s[IF x < m THEN x ELSE x + n - m + 1]]
           e == kept(r.elements)
           after == [heap EXCEPT !.records[o.slot].elements = kept(@)]
<1>2. Changed(o, heap, after)
  BY DEF VectorRemove
<1>3. Alike(heap, heap) /\ Firm(heap, heap) /\ HeapOK(heap, game) BY AlikeSelf, FirmSelf DEF AllOK
<1>4. r = heap.records[o.slot] BY DEF Of
<1>5. /\ Shaped(heap) /\ o.slot \in DOMAIN heap.records /\ RecordOK(r, heap.next_identity, game)
      /\ r.kind = "vector" /\ ElementsOK(r.elements, "vector", heap.next_identity, game)
  <2> HIDE DEF r
  <2> QED BY <1>1, <1>3, <1>4, StoredContainer
<1>6. Range(e) \subseteq Range(r.elements)
  <2>1. m \in DOMAIN r.elements /\ n \in m..c /\ DOMAIN r.elements = 1..c /\ c \in Nat
    <3>1. n \in m..c /\ m \in DOMAIN r.elements OBVIOUS
    <3>2. DOMAIN r.elements = 1..c /\ IsFiniteSet(DOMAIN r.elements)
      <4> HIDE DEF r
      <4> QED BY <1>5 DEF ElementsOK
    <3>3. c \in Nat BY <3>2, FS_CardinalityType
    <3> QED BY <3>1, <3>2, <3>3
  <2> HIDE DEF r, c
  <2>2. \A x \in 1..left : (IF x < m THEN x ELSE x + n - m + 1) \in 1..c
    BY <2>1
  <2> QED BY <2>1, <2>2 DEF Range
<1>7. ASSUME HeapOK(after, game) PROVE Firm(heap, after)
  <2>1. after = [heap EXCEPT !.records[o.slot].elements = e] BY <1>4, <1>5 DEF Shaped
  <2> HIDE DEF after, r, e
  <2>2. PICK q : q = [r EXCEPT !.elements = e] OBVIOUS
  <2>3. after.records = [heap.records EXCEPT ![o.slot] = q] /\ after.next_identity = heap.next_identity
    BY ONLY <1>4, <1>5, <2>1, <2>2 DEF Shaped
  <2>4. Refilled(r, q) /\ q.elements = e
    BY <1>5, <2>2 DEF Refilled, RecordOK
  <2>5. PICK X : X = {} OBVIOUS
  <2>6. ElementRefs(q.elements, q.kind, game) \subseteq ElementRefs(r.elements, r.kind, game) \cup X
    BY <1>5, <1>6, <2>4 DEF ElementRefs, Refilled
  <2>7. \A x \in X : x \in Old(heap.next_identity) /\ Safe(heap, x) BY <2>5
  <2> QED BY <1>3, <1>4, <1>5, <1>7, <2>3, <2>4, <2>6, <2>7, RefilledFirm
<1> HIDE DEF after
<1> QED BY <1>0, <1>1, <1>2, <1>3, <1>7, ChangedFirm

(***************************************************************************)
(* Lookup tables and the other actions                                     *)
(***************************************************************************)
(* lookup_set. *)
LEMMA LookupSetFirm ==
  ASSUME AllOK, game' = game, Closes(heap, game), NEW o \in OfKind("table"), NEW v \in Values,
         NEW k \in Keys \cup OfKind("plain") \cup OfKind("table"), LookupSet(o, k, v)
  PROVE  Firm(heap, heap') /\ Widened(heap', containers', history', containers, history)
<1>0. HeapOK(heap', game)
  <2>1. AllOK' BY LookupSetOK
  <2> QED BY <2>1 DEF AllOK
<1>1. o \in Visible(heap) /\ Of(heap, o).kind = "table" /\ v \in Ref(heap.next_identity)
      /\ o \in Old(heap.next_identity) /\ Live(heap, o)
  BY ValuesOld, VisibleOld DEF OfKind, AllOK
<1>2. k \in game.keys \cup Old(heap.next_identity)
  BY VisibleOld DEF OfKind, AllOK, Keys
<1> DEFINE stored == Stored(heap, o, v)
           keyed == IF k \in Keys THEN stored ELSE Stored(stored, o, k)
           r == Of(keyed, o)
           more == IF k \in DOMAIN r.elements THEN 0 ELSE 2
           e == With(r.elements, k, v)
           after == IF more > PropertyLimit - keyed.charged THEN Failed(keyed)
               ELSE [keyed EXCEPT !.records[o.slot].elements = With(@, k, v),
                                  !.charged = @ + more]
<1>3. Changed(o, stored, after)
  BY DEF LookupSet
<1>4. /\ Firm(heap, stored) /\ Alike(heap, stored) /\ stored.next_identity = heap.next_identity
      /\ HeapOK(stored, game) /\ (World(stored, o) => Safe(stored, v))
  <2> HIDE DEF stored
  <2>1. \A x : x = Stored(heap, o, v) =>
          /\ Firm(heap, x) /\ Alike(heap, x) /\ x.next_identity = heap.next_identity
          /\ HeapOK(x, game) /\ (Live(x, o) /\ Of(x, o).lifetime = "World" => Safe(x, v))
    BY StoredWell
  <2> QED BY <2>1 DEF stored, World
<1>5. /\ Firm(stored, keyed) /\ Alike(stored, keyed)
      /\ (World(keyed, o) /\ k \notin Keys => World(stored, o) /\ Safe(keyed, k))
  <2>1. CASE k \in Keys
    <3>1. keyed = stored BY <2>1
    <3> HIDE DEF stored, keyed
    <3> QED BY <2>1, <3>1, <1>4, FirmSelf, AlikeSelf
  <2>2. CASE k \notin Keys
    <3>1. keyed = Stored(stored, o, k) BY <2>2
    <3> HIDE DEF stored, keyed
    <3> QED BY <2>2, <3>1, <1>4, StoredAlike, StoredFirm
  <2> QED BY <2>1, <2>2
<1>6. World(keyed, o) => World(stored, o)
  <2>1. CASE k \in Keys
    <3>1. keyed = stored BY <2>1
    <3> QED BY <3>1
  <2> QED BY <2>1, <1>5
<1>7. r = keyed.records[o.slot] BY DEF Of
<1> HIDE DEF stored, keyed, r
<1>8. Alike(heap, keyed) /\ HeapOK(keyed, game) /\ keyed.next_identity = heap.next_identity
  BY <1>4, <1>5, AlikeJoin DEF Alike
<1>9. Shaped(keyed) /\ o.slot \in DOMAIN keyed.records /\ RecordOK(r, keyed.next_identity, game)
      /\ r.kind = "table"
  BY <1>1, <1>7, <1>8, StoredContainer
<1>10. Live(keyed, o)
  BY <1>1, <1>8, AlikeKeeps DEF AllOK
<1>11. World(keyed, o) => v = Nil \/ (v \in Old(keyed.next_identity) /\ Safe(keyed, v))
  <2>1. SUFFICES ASSUME World(keyed, o), v # Nil PROVE v \in Old(keyed.next_identity) /\ Safe(keyed, v) OBVIOUS
  <2>2. v \in Old(stored.next_identity) /\ Safe(stored, v) BY <1>1, <1>4, <1>6, <2>1 DEF Ref
  <2> QED BY <1>4, <1>5, <1>8, <2>2, SafeLater DEF Firm
<1> HIDE DEF more
<1>12. ASSUME HeapOK(after, game) PROVE Firm(keyed, after)
  <2>1. CASE more > PropertyLimit - keyed.charged
    BY <2>1, <1>8, FailedFirm
  <2>2. CASE ~(more > PropertyLimit - keyed.charged)
    <3>1. after = [keyed EXCEPT !.records[o.slot].elements = With(@, k, v), !.charged = @ + more]
      BY <2>2
    <3> HIDE DEF after
    <3>2. PICK q : q = [r EXCEPT !.elements = With(r.elements, k, v)] OBVIOUS
    <3>3. after.records = [keyed.records EXCEPT ![o.slot] = q] /\ after.next_identity = keyed.next_identity
      BY ONLY <1>7, <1>9, <3>1, <3>2 DEF Shaped
    <3>4. Refilled(r, q) /\ q.elements = e
      BY <1>9, <3>2 DEF Refilled, RecordOK
    <3>5. PICK X : X = ({v} \ {Nil}) \cup ({k} \ game.keys) OBVIOUS
    <3>6. ElementRefs(q.elements, q.kind, game) \subseteq ElementRefs(r.elements, r.kind, game) \cup X
      <4>1. Range(e) \subseteq Range(r.elements) \cup {v} /\ DOMAIN e = DOMAIN r.elements \cup {k}
        BY DEF Range, With
      <4> HIDE DEF e
      <4> QED BY <1>9, <3>4, <3>5, <4>1 DEF ElementRefs, Refilled
    <3>7. r.lifetime = "World" => \A x \in X : x \in Old(keyed.next_identity) /\ Safe(keyed, x)
      <4>1. SUFFICES ASSUME r.lifetime = "World", NEW x \in X PROVE x \in Old(keyed.next_identity) /\ Safe(keyed, x)
        OBVIOUS
      <4>2. World(keyed, o) BY <4>1, <1>7, <1>10 DEF World, Of
      <4>3. CASE x = v /\ v # Nil BY <4>2, <4>3, <1>11
      <4>4. CASE x = k /\ k \notin game.keys BY <4>2, <4>4, <1>2, <1>5, <1>8 DEF Keys
      <4> QED BY <3>5, <4>3, <4>4
    <3> QED BY <1>7, <1>8, <1>9, <1>12, <3>3, <3>4, <3>6, <3>7, RefilledFirm
  <2> QED BY <2>1, <2>2
<1> HIDE DEF after
<1>13. HeapOK(after, game) => Firm(stored, after)
  BY <1>4, <1>5, <1>12, FirmJoin
<1> QED BY <1>0, <1>1, <1>3, <1>4, <1>13, ChangedFirm

(* A new vector holds nothing; a new table would be a Turn record that     *)
(* promote does not see into.                                              *)
LEMMA NewContainerFirm ==
  ASSUME AllOK, game' = game, NEW kind \in {"vector", "table"}, NEW c \in 0..1, NewContainer(kind, c),
         kind = "table" => c = 0
  PROVE  Still(heap, heap') /\ (kind = "vector" => Firm(heap, heap'))
<1>0. HeapOK(heap, game) /\ HeapOK(heap', game)
  <2>1. AllOK' BY NewContainerOK
  <2> QED BY <2>1 DEF AllOK
<1>1. CASE heap' = Failed(heap)
  BY <1>0, <1>1, FailedFirm
<1>2. CASE heap' # Failed(heap)
  <2>1. default_lifetime \in {"World", "Turn"} BY DEF AllOK, OtherTypes
  <2> DEFINE charge == IF kind = "table" THEN 1 ELSE c
  <2>2. CanCreate(heap) /\ \E s \in Slots(heap) :
                heap' = [Created(heap, s, default_lifetime) EXCEPT
                           !.records[s].kind = kind, !.records[s].capacity = c,
                           !.charged = @ + charge]
    BY <1>2 DEF NewContainer
  <2> HIDE DEF charge
  <2>3. PICK s \in Slots(heap) :
                heap' = [Created(heap, s, default_lifetime) EXCEPT
                           !.records[s].kind = kind, !.records[s].capacity = c,
                           !.charged = @ + charge]
    BY <2>2
  <2>4. PICK m : m = Created(heap, s, default_lifetime) OBVIOUS
  <2>5. HeapOK(m, game) /\ s \in DOMAIN m.records /\ m.next_identity = heap.next_identity + 1
        /\ m.records[s] = Blank(heap.next_identity, default_lifetime) /\ s \notin DOMAIN heap.records
        /\ DOMAIN m.records = DOMAIN heap.records \cup {s}
        /\ \A t \in DOMAIN heap.records : m.records[t] = heap.records[t]
    BY <1>0, <2>1, <2>2, <2>4, CreatedOK
  <2>6. PICK q : q = [m.records[s] EXCEPT !.kind = kind, !.capacity = c] OBVIOUS
  <2>7. Shaped(m) BY <2>5 DEF HeapOK
  <2>8. heap'.records = [m.records EXCEPT ![s] = q] /\ heap'.next_identity = m.next_identity
    <3>1. heap' = [m EXCEPT !.records[s].kind = kind, !.records[s].capacity = c, !.charged = @ + charge]
      BY <2>3, <2>4
    <3> QED BY ONLY <2>5, <2>6, <2>7, <3>1 DEF Shaped
  <2>9. /\ DOMAIN heap'.records = DOMAIN heap.records \cup {s} /\ heap'.records[s] = q
        /\ \A t \in DOMAIN heap.records : heap'.records[t] = heap.records[t]
    BY <2>5, <2>7, <2>8 DEF Shaped, IsFun
  <2>10. q.born = heap.next_identity /\ q.kind = kind /\ LeadsTo(q, game) = {} /\ DOMAIN q.owned = {}
    BY <2>5, <2>6 DEF Blank, LeadsTo, ElementRefs, Nothing, Range
  <2>11. Lasts(heap, heap')
    <3>1. heap.next_identity \in Int BY <1>0 DEF HeapOK
    <3> QED BY <3>1, <2>5, <2>8, <2>9, <2>10 DEF Lasts, Lasting
  <2>12. kind = "vector" /\ Closes(heap, game) => \A t \in DOMAIN heap'.records : RecordSafe(heap'.records[t], heap, game)
    <3>1. kind = "vector" => RecordSafe(q, heap, game) BY <2>10 DEF RecordSafe
    <3> QED BY <1>0, <2>9, <3>1, ClosedSafe
  <2>13. kind = "vector" /\ Closes(heap, game) => Closes(heap', game)
    BY <1>0, <2>11, <2>12, ClosesLater
  <2>14. Still(heap, heap')
    <3>1. heap.next_identity \in Int BY <1>0 DEF HeapOK
    <3> QED BY <3>1, <2>5, <2>8, <2>9, <2>10 DEF Still, Lasting, Same
  <2> QED BY <1>0, <2>11, <2>13, <2>14 DEF Firm
<1> QED BY <1>1, <1>2

(* begin_construction. *)
LEMMA BeginConstructionFirm ==
  ASSUME AllOK, game' = game, NEW owner \in {"Published", "Owned"}, BeginConstruction(owner)
  PROVE  Firm(heap, heap') /\ Still(heap, heap')
<1>0. HeapOK(heap, game) /\ HeapOK(heap', game) /\ default_lifetime \in {"World", "Turn"}
  <2>1. AllOK' BY BeginConstructionOK
  <2> QED BY <2>1 DEF AllOK, OtherTypes
<1>1. CASE ~CanCreate(heap)
  <2>1. heap' = Failed(heap) BY <1>1 DEF BeginConstruction
  <2> QED BY <1>0, <2>1, FailedFirm
<1>2. CASE CanCreate(heap)
  <2>1. PICK x \in Slots(heap) :
          LET first == Created(heap, x, default_lifetime)
              activation == HandleAt(first, x)
          IN  IF ~CanCreate(first) THEN heap' = Failed(first)
              ELSE \E s \in Slots(first) :
                LET second == Created(first, s, default_lifetime)
                    object == HandleAt(second, s)
                    adopted == Adopted(second, activation, object)
                IN  IF adopted.charged >= PropertyLimit
                    THEN heap' = Failed(adopted)
                    ELSE heap' = [adopted EXCEPT !.records[s].prototypes = 1, !.charged = @ + 1]
    BY <1>2 DEF BeginConstruction
  <2> DEFINE first == Created(heap, x, default_lifetime)
             a == HandleAt(first, x)
  <2>2. Firm(heap, first) /\ Still(heap, first)
    <3>1. first = Created(heap, x, default_lifetime) OBVIOUS
    <3> HIDE DEF first
    <3> QED BY <1>0, <1>2, <3>1, CreatedFirm
  <2>3. CASE ~CanCreate(first)
    <3>1. heap' = Failed(first) BY <2>1, <2>3
    <3> HIDE DEF first
    <3>2. Firm(first, heap') /\ Still(first, heap') BY <2>2, <3>1, FailedFirm DEF Firm
    <3> QED BY <1>0, <2>2, <3>2, StillJoin
  <2>4. CASE CanCreate(first)
    <3>1. PICK s \in Slots(first) :
                LET second == Created(first, s, default_lifetime)
                    object == HandleAt(second, s)
                    adopted == Adopted(second, a, object)
                IN  IF adopted.charged >= PropertyLimit
                    THEN heap' = Failed(adopted)
                    ELSE heap' = [adopted EXCEPT !.records[s].prototypes = 1, !.charged = @ + 1]
      BY <2>1, <2>4
    <3> DEFINE second == Created(first, s, default_lifetime)
               o == HandleAt(second, s)
               adopted == Adopted(second, a, o)
    <3>2. \/ heap' = Failed(adopted)
          \/ heap' = [adopted EXCEPT !.records[s].prototypes = 1, !.charged = @ + 1]
      BY <3>1
    <3>3. Firm(heap, adopted) /\ Still(heap, adopted) /\ s \in DOMAIN adopted.records
      <4>1. /\ first = Created(heap, x, default_lifetime) /\ a = HandleAt(first, x)
            /\ second = Created(first, s, default_lifetime) /\ o = HandleAt(second, s)
            /\ adopted = Adopted(second, a, o)
        OBVIOUS
      <4> HIDE DEF first, a, second, o, adopted
      <4> QED BY <4>1, <1>0, <1>2, <2>4, BegunFirm
    <3> HIDE DEF first, a, second, o, adopted
    <3>4. HeapOK(adopted, game) BY <3>3 DEF Firm
    <3>5. CASE heap' = Failed(adopted)
      <4>1. Firm(adopted, heap') /\ Still(adopted, heap') BY <3>4, <3>5, FailedFirm
      <4> QED BY <1>0, <3>3, <4>1, StillJoin
    <3>6. CASE heap' = [adopted EXCEPT !.records[s].prototypes = 1, !.charged = @ + 1]
      <4>1. Shaped(adopted) BY <3>4 DEF HeapOK
      <4>2. PICK q : q = [adopted.records[s] EXCEPT !.prototypes = 1] OBVIOUS
      <4>3. heap'.records = [adopted.records EXCEPT ![s] = q] /\ heap'.next_identity = adopted.next_identity
        BY ONLY <3>3, <3>6, <4>1, <4>2 DEF Shaped
      <4>4. Lesser(adopted.records[s], q)
        <5>1. RecordOK(adopted.records[s], adopted.next_identity, game) BY <3>3, <3>4 DEF HeapOK
        <5> QED BY <4>2, <5>1 DEF Lesser, RecordOK
      <4>5. Firm(adopted, heap') /\ Still(adopted, heap') BY <1>0, <3>3, <3>4, <4>3, <4>4, SameFirm
      <4> QED BY <1>0, <3>3, <4>5, StillJoin
    <3> QED BY <3>2, <3>5, <3>6
  <2> QED BY <2>3, <2>4
<1> QED BY <1>1, <1>2

(* A constructor returns. *)
LEMMA FinishPublishedFirm ==
  ASSUME AllOK, FinishPublished PROVE Firm(heap, heap') /\ Still(heap, heap')
<1>1. PICK c : c = Last(constructions) OBVIOUS
<1>2. /\ heap.status = "live" /\ constructions # <<>>
      /\ heap' = IF Live(heap, c.object) THEN Published(heap, c) ELSE heap
  BY <1>1 DEF FinishPublished
<1>3. /\ c.activation \in heap.roots /\ c.object \in Old(heap.next_identity) /\ HeapOK(heap, game)
      /\ Live(heap, c.object) => Of(heap, c.object).parent = c.activation
      /\ DOMAIN Of(heap, c.activation).owned = {}
  BY <1>1, <1>2, RunningOK DEF AllOK
<1> QED BY <1>2, <1>3, PublishedFirm, FirmSelf, StillSelf

(* A constructor throws. *)
LEMMA UnwindFirm ==
  ASSUME AllOK, Unwind PROVE Firm(heap, heap') /\ Still(heap, heap')
<1>1. PICK c : c = Last(constructions) OBVIOUS
<1>2. /\ heap.status = "live" /\ constructions # <<>>
      /\ heap' = IF c.owner = "Owned" THEN DestroyedRoot(heap, c.activation)
                 ELSE IF Live(heap, c.object) THEN Published(heap, c)
                 ELSE Failed(heap)
  BY <1>1 DEF Unwind
<1>3. /\ c.activation \in heap.roots /\ c.object \in Old(heap.next_identity) /\ HeapOK(heap, game)
      /\ Live(heap, c.object) => Of(heap, c.object).parent = c.activation
      /\ DOMAIN Of(heap, c.activation).owned = {}
  BY <1>1, <1>2, RunningOK DEF AllOK
<1> QED BY <1>2, <1>3, PublishedFirm, DestroyedRootFirm, FailedFirm

(* release_exception. *)
LEMMA ReleaseFirm ==
  ASSUME AllOK, NEW e, Release(e) PROVE Firm(heap, heap') /\ Still(heap, heap')
<1>1. /\ heap.status = "live" /\ e \in exceptions /\ Live(heap, e.activation)
      /\ heap' = DestroyedRoot(heap, e.activation)
  BY DEF Release
<1>2. PICK n : n = Len(Statics) OBVIOUS
<1>3. FramesOK(heap, n, constructions, exceptions, despawned) /\ HeapOK(heap, game)
  BY <1>1, <1>2 DEF AllOK, FramesWell
<1>4. e.activation \in heap.roots
  BY <1>1, <1>3 DEF FramesOK, FrameOK
<1> QED BY <1>1, <1>3, <1>4, DestroyedRootFirm

(* A field is set. *)
LEMMA SetFirm ==
  ASSUME AllOK, NEW o \in OfKind("plain"), NEW p \in Props, NEW v \in Values, Set(o, p, v)
  PROVE  Firm(heap, heap')
<1>1. /\ HeapOK(heap, game) /\ Live(heap, o) /\ o \in Old(heap.next_identity)
      /\ v \in Ref(heap.next_identity) /\ p \in game.props \cup {Field}
  BY VisibleOld, ValuesOld DEF AllOK, Props, OfKind
<1>2. heap' = heap \/ heap' = Assigned(heap, o, p, v)
  BY DEF Set
<1> QED BY <1>1, <1>2, AssignedFirm, FirmSelf

(* Records are related. *)
LEMMA RelateFirm ==
  ASSUME AllOK, NEW x, NEW y, Relate(x, y) PROVE Firm(heap, heap') /\ Still(heap, heap')
<1>1. PICK m : m = Stored(heap, x, y) OBVIOUS
<1>2. heap' = Stored(m, y, x) BY <1>1 DEF Relate
<1>3. HeapOK(heap, game) BY DEF AllOK
<1>4. Firm(heap, m) /\ Still(heap, m) BY <1>1, <1>3, StoredFirm
<1>5. Firm(m, heap') /\ Still(m, heap') BY <1>2, <1>4, StoredFirm DEF Firm
<1> QED BY <1>3, <1>4, <1>5, StillJoin

(* A record is despawned. *)
LEMMA DespawnFirm ==
  ASSUME AllOK, game' = game, NEW o \in Visible(heap), Despawn(o)
  PROVE  Firm(heap, heap') /\ Still(heap, heap')
<1>1. HeapOK(heap, game) /\ HeapOK(heap', game) /\ Live(heap, o) /\ o \in Old(heap.next_identity)
  <2>1. AllOK' BY DespawnOK
  <2> QED BY <2>1, VisibleOld DEF AllOK
<1>2. PICK m : m = IF o \in heap.roots THEN [heap EXCEPT !.roots = @ \ {o}]
                   ELSE [heap EXCEPT !.records[Of(heap, o).parent.slot].children = @ \ {o}]
  OBVIOUS
<1>3. heap' = Destroyed(m, {o.slot})
  BY <1>2 DEF Despawn
<1>4. \/ o \in heap.roots /\ m = [heap EXCEPT !.roots = @ \ {o}]
      \/ o \notin heap.roots /\ m = [heap EXCEPT !.records[Of(heap, o).parent.slot].children = @ \ {o}]
  BY <1>2
<1> QED BY <1>1, <1>3, <1>4, DespawnedFirm

(***************************************************************************)
(* Journals, and the theorem                                               *)
(***************************************************************************)
(* The journals that a cycle leaves hold the snapshots it took, and the    *)
(* history loses some.                                                     *)
LEMMA TakenSnaps ==
  ASSUME AllOK, TakeJournals
  PROVE  Snaps(containers', history') \subseteq Snaps(containers, history)
<1>1. /\ Listed(history) /\ Len(history) <= game.depth /\ game.depth \in Nat \ {0}
  BY GameTypes DEF AllOK, HeapOK, JournalsOK
<1>2. containers' = <<>> /\ DOMAIN containers' = {}
  <2>1. containers' = <<>> BY DEF TakeJournals
  <2> QED BY <2>1, ListEmpty
<1>3. CASE journal = <<>> /\ containers = <<>>
  <2>1. history' = history BY <1>3 DEF TakeJournals
  <2> QED BY <2>1, <1>2 DEF Snaps
<1>4. CASE ~(journal = <<>> /\ containers = <<>>)
  <2>1. PICK d : d = [properties |-> journal, containers |-> containers] OBVIOUS
  <2>2. PICK kept : kept = Kept(history) OBVIOUS
  <2>3. history' = Append(kept, d) /\ d.containers = containers BY <1>4, <2>1, <2>2 DEF TakeJournals
  <2>4. PICK by : Shifted(history, kept, by) BY <1>1, <2>2, KeptShifted
  <2>5. Appended(kept, d, history') BY <2>3, <2>4, ListAppend DEF Shifted
  <2>6. \A l \in DOMAIN history' : history'[l] = d \/ \E m \in DOMAIN history : history'[l] = history[m]
    BY <2>4, <2>5 DEF Shifted, Appended
  <2>7. SUFFICES ASSUME NEW x \in Snaps(containers', history') PROVE x \in Snaps(containers, history)
    OBVIOUS
  <2>8. PICK l \in DOMAIN history' : x \in {history'[l].containers[i] : i \in DOMAIN history'[l].containers}
    BY <1>2, <2>7 DEF Snaps
  <2>9. CASE history'[l] = d BY <2>3, <2>8, <2>9 DEF Snaps
  <2>10. ASSUME NEW m \in DOMAIN history, history'[l] = history[m] PROVE x \in Snaps(containers, history)
    BY <2>8, <2>10 DEF Snaps
  <2> QED BY <2>6, <2>9, <2>10
<1> QED BY <1>3, <1>4

(* One cycle is put back. *)
LEMMA RevertedFirm ==
  ASSUME NEW h, HeapOK(h, game), NEW js, NEW cs, NEW hs, Revertible(h, js, cs, hs),
         \A i \in DOMAIN cs : SnapSafe(cs[i], h), NEW k, k = PropertiesReverted(ContainersReverted(h, cs), js)
  PROVE  Firm(h, k)
<1>1. PICK m : m = ContainersReverted(h, cs) OBVIOUS
<1>2. /\ Listed(cs) /\ ContainersOK(cs, h, game) /\ Listed(js)
      /\ \A i \in DOMAIN js : PropertyOK(js[i], h, game)
  BY DEF Revertible
<1>3. IsFiniteSet(DOMAIN cs) /\ DOMAIN cs \in SUBSET Nat /\ IsFiniteSet(DOMAIN js) /\ DOMAIN js \in SUBSET Nat
  BY <1>2, ListFacts
<1>4. Steady(h, m) /\ Firm(h, m)
  BY <1>1, <1>2, <1>3, ContainersKeep, ContainersFirm
<1>5. HeapOK(m, game) /\ Descends(h, m)
  BY <1>4 DEF Steady
<1>6. \A i \in DOMAIN js : PropertyOK(js[i], m, game)
  BY <1>2, <1>5, PropertyLater
<1>7. Firm(m, k)
  BY <1>1, <1>3, <1>5, <1>6, PropertiesFirm
<1> QED BY <1>4, <1>7, FirmJoin

(* Rollback. *)
LEMMA RollbackFirm ==
  ASSUME AllOK, WorldWell(heap, containers, history), Rollback
  PROVE  Firm(heap, heap') /\ Widened(heap', containers', history', containers, history)
<1>1. /\ containers' = <<>> /\ history' = history
      /\ heap' = PropertiesReverted(ContainersReverted(heap, containers), journal)
  BY DEF Rollback
<1>2. HeapOK(heap, game) /\ Revertible(heap, journal, containers, history)
  BY DEF AllOK, JournalsOK, Revertible
<1>3. \A i \in DOMAIN containers : SnapSafe(containers[i], heap)
  BY DEF WorldWell, Snaps
<1>4. Firm(heap, heap') BY <1>1, <1>2, <1>3, RevertedFirm
<1>5. DOMAIN containers' = {} BY <1>1, ListEmpty
<1>6. Snaps(containers', history') \subseteq Snaps(containers, history)
  BY <1>1, <1>5 DEF Snaps
<1> QED BY <1>4, <1>6 DEF Widened

(* Undo. *)
LEMMA UndoFirm ==
  ASSUME AllOK, WorldWell(heap, containers, history), Undo
  PROVE  Firm(heap, heap') /\ Widened(heap', containers', history', containers, history)
<1> DEFINE put == PropertiesReverted(ContainersReverted(heap, containers), journal)
<1>1. /\ containers' = <<>>
      /\ \/ history = <<>> /\ heap' = put /\ history' = history
         \/ /\ history # <<>> /\ history' = Front(history)
            /\ heap' = PropertiesReverted(ContainersReverted(put, Last(history).containers), Last(history).properties)
  BY DEF Undo
<1>2. HeapOK(heap, game) /\ Revertible(heap, journal, containers, history) /\ Listed(history)
  BY DEF AllOK, JournalsOK, Revertible
<1>3. \A i \in DOMAIN containers : SnapSafe(containers[i], heap)
  BY DEF WorldWell, Snaps
<1>4. Firm(heap, put) /\ Reverts(heap, put, history)
  <2>1. put = PropertiesReverted(ContainersReverted(heap, containers), journal) OBVIOUS
  <2> HIDE DEF put
  <2> QED BY <1>2, <1>3, <2>1, RevertedFirm, RevertedOK
<1>5. DOMAIN containers' = {} BY <1>1, ListEmpty
<1>6. PICK es : es = <<>> OBVIOUS
<1>7. HeapOK(put, game) /\ Revertible(put, es, es, history)
  BY <1>4, <1>6 DEF Reverts
<1> HIDE DEF put
<1>8. CASE history = <<>> /\ heap' = put /\ history' = history
  <2>1. Snaps(containers', history') \subseteq Snaps(containers, history)
    BY <1>5, <1>8 DEF Snaps
  <2> QED BY <1>4, <1>8, <2>1 DEF Widened
<1>9. CASE /\ history # <<>> /\ history' = Front(history)
           /\ heap' = PropertiesReverted(ContainersReverted(put, Last(history).containers), Last(history).properties)
  <2>1. PICK c : c = Last(history) OBVIOUS
  <2>2. PICK front : front = Front(history) OBVIOUS
  <2>3. Shortened(history, front, 0) /\ Len(history) \in DOMAIN history /\ c = history[Len(history)]
    BY <1>2, <1>9, <2>1, <2>2, ListFront
  <2>4. Revertible(put, c.properties, c.containers, front)
    BY <1>7, <1>9, <2>1, <2>2, LastEntry
  <2>5. \A i \in DOMAIN c.containers : SnapSafe(c.containers[i], put)
    <3>1. SUFFICES ASSUME NEW i \in DOMAIN c.containers PROVE SnapSafe(c.containers[i], put) OBVIOUS
    <3>2. c.containers[i] \in Snaps(containers, history) BY <2>3 DEF Snaps
    <3>3. SnapSafe(c.containers[i], heap) BY <3>2 DEF WorldWell
    <3>4. c.containers[i].object \in Old(heap.next_identity) BY <3>2, SnapsOld DEF AllOK
    <3> QED BY <1>2, <1>4, <3>3, <3>4, SnapSafeLater
  <2>6. Firm(put, heap')
    <3>1. heap' = PropertiesReverted(ContainersReverted(put, c.containers), c.properties) BY <1>9, <2>1
    <3> QED BY <1>7, <2>4, <2>5, <3>1, RevertedFirm
  <2>7. Firm(heap, heap') BY <1>2, <1>4, <2>6, FirmJoin
  <2>8. \A l \in DOMAIN front : l \in DOMAIN history /\ front[l] = history[l]
    <3>1. Len(history) \in Nat /\ DOMAIN front = 1..(Len(history) - 1)
      BY <1>2, <2>3, ListFacts DEF Shortened
    <3>2. \A l \in DOMAIN front : l + 0 = l BY <3>1
    <3> QED BY <2>3, <3>2 DEF Shortened
  <2>9. Snaps(containers', history') \subseteq Snaps(containers, history)
    BY <1>5, <1>9, <2>2, <2>8 DEF Snaps
  <2> QED BY <2>7, <2>9 DEF Widened
<1> QED BY <1>1, <1>8, <1>9

(* Steps that leave the journals, or the heap, as they are. *)
LEMMA JournalsStay ==
  ASSUME NEW k, NEW cs, NEW hs PROVE Widened(k, cs, hs, cs, hs)
BY DEF Widened

(* The end of a cycle. *)
LEMMA EndFirm ==
  ASSUME AllOK, End PROVE Firm(heap, heap') /\ Widened(heap', containers', history', containers, history)
<1>1. TakeJournals /\ heap' = TurnReleased(heap) BY DEF End
<1>2. Firm(heap, heap') BY <1>1, TurnReleasedFirm DEF AllOK
<1> QED BY <1>1, <1>2, TakenSnaps DEF Widened

(* A savepoint. *)
LEMMA SavepointFirm ==
  ASSUME AllOK, Savepoint PROVE Firm(heap, heap') /\ Widened(heap', containers', history', containers, history)
<1>1. TakeJournals /\ heap' = heap BY DEF Savepoint
<1>2. Firm(heap, heap') BY <1>1, FirmSelf DEF AllOK
<1> QED BY <1>1, <1>2, TakenSnaps DEF Widened

(* What each step does to a closed World. *)
LEMMA WorldStep ==
  ASSUME AllOK, WorldWell(heap, containers, history), "table" \notin Calls, Next
  PROVE  Firm(heap, heap') /\ Widened(heap', containers', history', containers, history)
<1>1. Step /\ game' = game BY DEF Next
<1>2. Closes(heap, game) BY DEF WorldWell
<1>3. (containers' = containers /\ history' = history) => Widened(heap', containers', history', containers, history)
  BY JournalsStay
<1>4. ASSUME NEW owner \in {"Published", "Owned"}, BeginConstruction(owner)
      PROVE  Firm(heap, heap') /\ Widened(heap', containers', history', containers, history)
  <2>1. containers' = containers /\ history' = history BY <1>4 DEF BeginConstruction, journals
  <2> QED BY <2>1, <1>1, <1>3, <1>4, BeginConstructionFirm
<1>5. CASE FinishPublished
  <2>1. containers' = containers /\ history' = history BY <1>5 DEF FinishPublished, journals
  <2> QED BY <2>1, <1>3, <1>5, FinishPublishedFirm
<1>6. CASE Unwind
  <2>1. containers' = containers /\ history' = history BY <1>6 DEF Unwind, journals
  <2> QED BY <2>1, <1>3, <1>6, UnwindFirm
<1>7. CASE Throw
  <2>1. containers' = containers /\ history' = history /\ heap' = heap BY <1>7 DEF Throw, journals
  <2> QED BY <2>1, <1>3, FirmSelf DEF AllOK
<1>8. ASSUME NEW e \in exceptions, Claim(e)
      PROVE  Firm(heap, heap') /\ Widened(heap', containers', history', containers, history)
  <2>1. containers' = containers /\ history' = history /\ heap' = heap BY <1>8 DEF Claim, journals
  <2> QED BY <2>1, <1>3, FirmSelf DEF AllOK
<1>9. ASSUME NEW e \in exceptions, Release(e)
      PROVE  Firm(heap, heap') /\ Widened(heap', containers', history', containers, history)
  <2>1. containers' = containers /\ history' = history BY <1>9 DEF Release, journals
  <2> QED BY <2>1, <1>3, <1>9, ReleaseFirm
<1>10. ~NewContainer("table", 0)
  BY DEF NewContainer, May
<1>11. ASSUME NEW n \in 0..1, NewContainer("vector", n)
       PROVE  Firm(heap, heap') /\ Widened(heap', containers', history', containers, history)
  <2>1. containers' = containers /\ history' = history BY <1>11 DEF NewContainer, journals
  <2> QED BY <2>1, <1>1, <1>3, <1>11, NewContainerFirm
<1>12. ASSUME NEW o \in OfKind("plain"), NEW p \in Props, NEW v \in Values, Set(o, p, v)
       PROVE  Firm(heap, heap') /\ Widened(heap', containers', history', containers, history)
  <2>1. containers' = containers /\ history' = history BY <1>12 DEF Set
  <2> QED BY <2>1, <1>3, <1>12, SetFirm
<1>13. ASSUME NEW o \in OfKind("vector"), NEW v \in Values,
              VectorAppend(o, v) \/ \E n \in DOMAIN Of(heap, o).elements : VectorSet(o, n, v)
       PROVE  Firm(heap, heap') /\ Widened(heap', containers', history', containers, history)
  BY <1>1, <1>2, <1>13, VectorAppendFirm, VectorSetFirm
<1>14. ASSUME NEW o \in OfKind("vector"), NEW m \in DOMAIN Of(heap, o).elements,
              NEW n \in m..Cardinality(DOMAIN Of(heap, o).elements), VectorRemove(o, m, n)
       PROVE  Firm(heap, heap') /\ Widened(heap', containers', history', containers, history)
  BY <1>1, <1>2, <1>14, VectorRemoveFirm
<1>15. ASSUME NEW o \in OfKind("table"), NEW v \in Values,
              NEW k \in Keys \cup OfKind("plain") \cup OfKind("table"), LookupSet(o, k, v)
       PROVE  Firm(heap, heap') /\ Widened(heap', containers', history', containers, history)
  BY <1>1, <1>2, <1>15, LookupSetFirm
<1>16. ASSUME NEW x \in OfKind("plain"), NEW y \in OfKind("plain"), Relate(x, y)
       PROVE  Firm(heap, heap') /\ Widened(heap', containers', history', containers, history)
  <2>1. containers' = containers /\ history' = history BY <1>16 DEF Relate, journals
  <2> QED BY <2>1, <1>3, <1>16, RelateFirm
<1>17. ASSUME NEW o \in Visible(heap), Despawn(o)
       PROVE  Firm(heap, heap') /\ Widened(heap', containers', history', containers, history)
  <2>1. containers' = containers /\ history' = history BY <1>17 DEF Despawn, journals
  <2> QED BY <2>1, <1>1, <1>3, <1>17, DespawnFirm
<1>18. CASE Begin
  <2>1. containers' = containers /\ history' = history /\ heap' = heap BY <1>18 DEF Begin
  <2> QED BY <2>1, <1>3, FirmSelf DEF AllOK
<1>19. CASE Refused
  <2>1. containers' = containers /\ history' = history /\ heap' = heap BY <1>19 DEF Refused, journals
  <2> QED BY <2>1, <1>3, FirmSelf DEF AllOK
<1>20. CASE End \/ Savepoint \/ Rollback \/ Undo
  BY <1>20, EndFirm, SavepointFirm, RollbackFirm, UndoFirm
<1> QED BY <1>1, <1>4, <1>5, <1>6, <1>7, <1>8, <1>9, <1>10, <1>11, <1>12, <1>13, <1>14, <1>15, <1>16, <1>17,
           <1>18, <1>19, <1>20 DEF Step

(* The statics are World. *)
LEMMA WorldStart ==
  ASSUME Init PROVE WorldWell(heap, containers, history)
<1>1. heap = Started(game.statics) /\ containers = <<>> /\ history = <<>>
  BY DEF Init, Begun, Statics
<1>2. DOMAIN containers = {} /\ DOMAIN history = {} BY <1>1, ListEmpty
<1>3. PICK statics : statics = game.statics OBVIOUS
<1>4. heap.records = StaticRecords(statics) BY <1>1, <1>3, StartedIs
<1>5. \A s : StaticRecord(statics, s).lifetime = "World"
  <2>1. \A n : Blank(n, "World").lifetime = "World" BY DEF Blank
  <2>2. SUFFICES ASSUME NEW s PROVE StaticRecord(statics, s).lifetime = "World" OBVIOUS
  <2>3. PICK i : i = CHOOSE j \in Filled(statics) : Place(statics, j) = s OBVIOUS
  <2>4. [Blank(s, "World") EXCEPT !.kind = statics[i], !.parent = NamedObject(i)].lifetime = "World"
    BY DEF Blank
  <2>5. [Blank(s, "World") EXCEPT !.children = {Container(statics, s)},
                                  !.properties = With(Nothing, Field, Container(statics, s)),
                                  !.owned = With(Nothing, Field, Container(statics, s))].lifetime = "World"
    BY DEF Blank
  <2> QED BY <2>1, <2>3, <2>4, <2>5 DEF StaticRecord
<1>6. \A s \in DOMAIN heap.records : heap.records[s].lifetime = "World"
  BY <1>4, <1>5 DEF StaticRecords
<1>7. \A v : Safe(heap, v)
  BY <1>6 DEF Safe, World, Live, Of
<1> QED BY <1>2, <1>6, <1>7 DEF WorldWell, Closes, RecordClosed, Snaps

(* Nothing that ends with the turn can be reached from a World record. *)
LEMMA WorldFollows ==
  ASSUME AllOK, Closes(heap, game) PROVE WorldClosed
<1>1. SUFFICES ASSUME NEW o \in LiveHandles(heap), World(heap, o),
                      NEW v \in Held(Of(heap, o)) \cup Of(heap, o).children, Live(heap, v)
               PROVE  World(heap, v)
  BY DEF WorldClosed
<1>2. o.slot \in DOMAIN heap.records /\ Of(heap, o) = heap.records[o.slot] /\ Of(heap, o).lifetime = "World"
  BY <1>1 DEF World, Live, Of
<1>3. RecordClosed(Of(heap, o), heap, game) BY <1>2 DEF Closes
<1>4. v \in LeadsTo(Of(heap, o), game)
  BY DEF LeadsTo, Held, ElementRefs, Keys
<1> QED BY <1>1, <1>2, <1>3, <1>4 DEF RecordClosed, Safe

(* The invariant, for a game that makes no tables. *)
WorldKept == "table" \notin Calls => WorldWell(heap, containers, history)

(* It holds. *)
LEMMA WorldInvariant == Spec => []WorldKept
<1>1. Init => WorldKept
  BY WorldStart DEF WorldKept
<1>2. AllOK /\ WorldKept /\ [Next]_vars => WorldKept'
  <2>1. SUFFICES ASSUME AllOK, WorldKept, [Next]_vars, "table" \notin Calls', game' = game
                 PROVE  WorldKept'
    BY DEF WorldKept, vars, Next
  <2>2. "table" \notin Calls /\ WorldWell(heap, containers, history) BY <2>1 DEF Calls, WorldKept
  <2>3. HeapOK(heap, game) /\ JournalsOK(heap, game, journal, containers, history) BY <2>1 DEF AllOK
  <2>4. CASE Next
    <3>1. Firm(heap, heap') /\ Widened(heap', containers', history', containers, history)
      BY <2>1, <2>2, <2>4, WorldStep
    <3>2. WorldWell(heap', containers', history')
      BY <2>2, <2>3, <3>1, WorldLater DEF Widened
    <3> QED BY <2>1, <3>2 DEF WorldKept, WorldWell, Closes, RecordClosed, SnapSafe
  <2>5. CASE UNCHANGED vars
    <3>1. heap' = heap /\ containers' = containers /\ history' = history BY <2>5 DEF vars, journals
    <3> QED BY <2>1, <2>2, <3>1 DEF WorldKept, WorldWell, Closes, RecordClosed, SnapSafe
  <2> QED BY <2>1, <2>4, <2>5
<1> QED BY <1>1, <1>2, StoreInvariant, PTL DEF Spec

(* What a World record refers to or owns is World, after any promotion, rollback, *)
(* undo or end of a turn, in every game that makes no lookup tables in play: a *)
(* table a game makes is promoted without what it holds (objects.rs promote, *)
(* revert_containers, release_turn_records).                               *)
THEOREM WorldStaysClosed == Spec => []("table" \notin Calls => WorldClosed)
<1>1. AllOK /\ WorldKept => ("table" \notin Calls => WorldClosed)
  BY WorldFollows DEF WorldKept, WorldWell
<1> QED BY <1>1, WorldInvariant, StoreInvariant, PTL

(***************************************************************************)
(* What a journal remembers                                                *)
(***************************************************************************)

(* The fields a record can have. *)
Fields == game.props \cup {Field}

(* The value of a field, or none. *)
Value(f, p) == IF p \in DOMAIN f THEN f[p] ELSE Absent

(* What a field owns is what it holds. *)
Owning(h) ==
  \A s \in DOMAIN h.records : \A p \in DOMAIN h.records[s].owned :
    h.records[s].properties[p] = h.records[s].owned[p]

(* A record is as it was but, if it is the one meant, for some fields and its elements. *)
Retains(r, q, here, F, E) ==
  /\ \A p \in Fields : Value(q.properties, p) = Value(r.properties, p) \/ (here /\ p \in F)
  /\ q.elements = r.elements \/ (here /\ E # {})

(* An operation that writes, of what was there, only to some fields and    *)
(* the elements of one object.                                             *)
Calm(h, k, o, F, E) ==
  /\ h.next_identity <= k.next_identity
  /\ \A s \in DOMAIN k.records :
       \/ k.records[s].born >= h.next_identity
       \/ /\ s \in DOMAIN h.records /\ Lasting(h.records[s], k.records[s])
          /\ Retains(h.records[s], k.records[s], s = o.slot, F, E)
  /\ Owning(h) => Owning(k)

(* What stays as it is lasts. *)
LEMMA StillLasts ==
  ASSUME NEW h, NEW k, Still(h, k) PROVE Lasts(h, k)
BY DEF Still, Lasts

(* An operation that writes to nothing. *)
LEMMA StillCalm ==
  ASSUME NEW h, NEW k, Still(h, k), NEW o, NEW F, NEW E
  PROVE  Calm(h, k, o, F, E)
<1>1. ASSUME Owning(h) PROVE Owning(k)
  <2>1. SUFFICES ASSUME NEW s \in DOMAIN k.records, NEW p \in DOMAIN k.records[s].owned
                 PROVE  k.records[s].properties[p] = k.records[s].owned[p]
    BY DEF Owning
  <2>2. s \in DOMAIN h.records /\ Same(h.records[s], k.records[s])
    BY <2>1 DEF Still
  <2>3. h.records[s].properties[p] = h.records[s].owned[p] /\ p \in DOMAIN h.records[s].owned
    BY <1>1, <2>2 DEF Owning, Same
  <2> QED BY <2>2, <2>3 DEF Same
<1>2. ASSUME NEW s, Same(h.records[s], k.records[s])
      PROVE  Retains(h.records[s], k.records[s], s = o.slot, F, E)
  BY <1>2 DEF Same, Retains
<1> QED BY <1>1, <1>2 DEF Calm, Still

(* Records that are written to last. *)
LEMMA CalmLasts ==
  ASSUME NEW h, NEW k, NEW o, NEW F, NEW E, Calm(h, k, o, F, E) PROVE Lasts(h, k)
BY DEF Calm, Lasts

(* A write after an operation that writes to nothing. *)
LEMMA CalmAfter ==
  ASSUME NEW h, HeapOK(h, game), NEW m, HeapOK(m, game), NEW k, HeapOK(k, game), Still(h, m),
         NEW o, NEW F, NEW E, Calm(m, k, o, F, E)
  PROVE  Calm(h, k, o, F, E)
<1>1. Owning(h) => Owning(k)
  BY StillCalm DEF Calm
<1>2. h.next_identity \in Int /\ m.next_identity \in Int /\ k.next_identity \in Int
      /\ h.next_identity <= m.next_identity /\ m.next_identity <= k.next_identity
  <2>1. game.identities \in Nat
    BY GameTypes DEF HeapOK
  <2> QED BY <2>1 DEF HeapOK, Calm, Still
<1>3. ASSUME NEW s \in DOMAIN k.records
      PROVE  \/ k.records[s].born >= h.next_identity
             \/ /\ s \in DOMAIN h.records /\ Lasting(h.records[s], k.records[s])
                /\ Retains(h.records[s], k.records[s], s = o.slot, F, E)
  <2>1. k.records[s].born \in Int
    BY <1>2 DEF HeapOK, RecordOK
  <2>2. CASE k.records[s].born >= m.next_identity
    BY <1>2, <2>1, <2>2
  <2>3. CASE s \in DOMAIN m.records /\ Lasting(m.records[s], k.records[s])
             /\ Retains(m.records[s], k.records[s], s = o.slot, F, E)
    <3>1. CASE m.records[s].born >= h.next_identity
      BY <2>3, <3>1 DEF Lasting
    <3>2. CASE s \in DOMAIN h.records /\ Lasting(h.records[s], m.records[s]) /\ Same(h.records[s], m.records[s])
      <4>1. Lasting(h.records[s], k.records[s])
        BY <2>3, <3>2 DEF Lasting
      <4>2. Retains(h.records[s], k.records[s], s = o.slot, F, E)
        BY <2>3, <3>2 DEF Same, Retains
      <4> QED BY <3>2, <4>1, <4>2
    <3> QED BY <2>3, <3>1, <3>2 DEF Still
  <2> QED BY <2>2, <2>3 DEF Calm
<1> QED BY <1>1, <1>2, <1>3 DEF Calm

(* A World as it was remembered. *)
Remembers(w, n) ==
  \A o \in DOMAIN w :
    /\ o \in Old(n) /\ w[o] = <<w[o][1], w[o][2]>>
    /\ IsFun(w[o][1]) /\ DOMAIN w[o][1] \subseteq Fields
    /\ \A p \in DOMAIN w[o][1] : w[o][1][p] \in Ref(n)

(* A World can be remembered for longer. *)
LEMMA RemembersLater ==
  ASSUME NEW w, NEW n \in Int, NEW m \in Int, n <= m, Remembers(w, n)
  PROVE  Remembers(w, m)
BY OldGrows DEF Remembers

(* What TheWorld holds: the fields and elements of every live World        *)
(* record.                                                                 *)
LEMMA WorldIs ==
  ASSUME NEW h, HeapOK(h, game), NEW w, w = TheWorld(h)
  PROVE  /\ Remembers(w, h.next_identity)
         /\ \A o \in DOMAIN w : World(h, o)
         /\ \A o \in Old(h.next_identity) : World(h, o) =>
              /\ o \in DOMAIN w /\ w[o] = Contents(Of(h, o))
              /\ w[o][1] = Of(h, o).properties /\ w[o][2] = Of(h, o).elements
<1>1. DOMAIN w = {x \in LiveHandles(h) : World(h, x)} /\ \A o \in DOMAIN w : w[o] = Contents(Of(h, o))
  BY DEF TheWorld
<1>2. \A o \in LiveHandles(h) : o \in Old(h.next_identity) /\ Live(h, o)
  BY HandleFacts DEF LiveHandles
<1>3. \A o \in Old(h.next_identity) : World(h, o) => o \in LiveHandles(h)
  <2>1. \A o \in Old(h.next_identity) : World(h, o) => o = HandleAt(h, o.slot) /\ o.slot \in DOMAIN h.records
    BY HandleFacts DEF World, Live
  <2> QED BY <2>1 DEF LiveHandles
<1>4. \A o : Contents(Of(h, o))[1] = Of(h, o).properties /\ Contents(Of(h, o))[2] = Of(h, o).elements
             /\ Contents(Of(h, o)) = <<Of(h, o).properties, Of(h, o).elements>>
  BY DEF Contents
<1>5. ASSUME NEW o \in DOMAIN w
      PROVE  /\ o \in Old(h.next_identity) /\ w[o] = <<w[o][1], w[o][2]>>
             /\ IsFun(w[o][1]) /\ DOMAIN w[o][1] \subseteq Fields
             /\ \A p \in DOMAIN w[o][1] : w[o][1][p] \in Ref(h.next_identity)
  <2>1. o \in Old(h.next_identity) /\ Live(h, o)
    BY <1>1, <1>2
  <2>2. RecordOK(Of(h, o), h.next_identity, game)
    BY <2>1 DEF Live, HeapOK, Of
  <2>3. w[o][1] = Of(h, o).properties /\ w[o][2] = Of(h, o).elements /\ w[o] = <<Of(h, o).properties, Of(h, o).elements>>
    BY <1>1, <1>4
  <2> QED BY <2>1, <2>2, <2>3 DEF RecordOK, Fields
<1> QED BY <1>1, <1>3, <1>4, <1>5 DEF Remembers

(* Fields and elements are what they were, but for those a journal notes. *)
FieldsAgree(js, I, o, f, g) ==
  \A p \in Fields : (\A i \in I : js[i].object # o \/ js[i].property # p) => Value(g, p) = Value(f, p)

(* The same for the elements of an object. *)
ElementsAgree(cs, I, o, e, d) == (\A i \in I : cs[i].object # o) => d = e

(* A journal notes what was there. *)
Noted(js, cs, w) ==
  /\ \A i \in DOMAIN js : js[i].object \in DOMAIN w =>
       js[i].previous = Value(w[js[i].object][1], js[i].property)
  /\ \A i \in DOMAIN cs : cs[i].object \in DOMAIN w => cs[i].elements = w[cs[i].object][2]

(* Two Worlds agree about one object. *)
AgreesAt(js, cs, w, v, o) ==
  /\ o \in DOMAIN v
  /\ FieldsAgree(js, DOMAIN js, o, w[o][1], v[o][1])
  /\ ElementsAgree(cs, DOMAIN cs, o, w[o][2], v[o][2])

(* Two Worlds agree about what is there, but for what a journal notes. *)
Agrees(js, cs, w, v, h) == \A o \in DOMAIN w : Live(h, o) => AgreesAt(js, cs, w, v, o)

(* What is there after an operation, and was known before it, was there. *)
LEMMA LivedBefore ==
  ASSUME NEW h, HeapOK(h, game), NEW k, Lasts(h, k), NEW o \in Old(h.next_identity), Live(k, o)
  PROVE  /\ Live(h, o) /\ o.slot \in DOMAIN k.records /\ o.slot \in DOMAIN h.records
         /\ Lasting(h.records[o.slot], k.records[o.slot])
         /\ ~(k.records[o.slot].born >= h.next_identity)
<1>1. o.slot \in DOMAIN k.records /\ k.records[o.slot].born = o.born /\ o # Nil
  BY DEF Live
<1>2. h.next_identity \in Int /\ o.born \in Int /\ o.born < h.next_identity
  <2>1. game.identities \in Nat
    BY GameTypes DEF HeapOK
  <2> QED BY <2>1 DEF HeapOK, Old
<1>3. ~(k.records[o.slot].born >= h.next_identity)
  BY <1>1, <1>2
<1>4. o.slot \in DOMAIN h.records /\ Lasting(h.records[o.slot], k.records[o.slot])
  BY <1>1, <1>3 DEF Lasts
<1> QED BY <1>1, <1>3, <1>4 DEF Live, Lasting

(* Two Worlds go on agreeing about what is left. *)
LEMMA AgreesStays ==
  ASSUME NEW h, HeapOK(h, game), NEW k, Lasts(h, k), NEW w, Remembers(w, h.next_identity),
         NEW js, NEW cs, NEW v, Agrees(js, cs, w, v, h)
  PROVE  Agrees(js, cs, w, v, k)
BY LivedBefore DEF Agrees, Remembers

(* A World that agrees with a second one, which agrees with a third but    *)
(* for nothing, agrees with the third.                                     *)
LEMMA AgreesThrough ==
  ASSUME NEW js, NEW cs, NEW w, NEW v, NEW h, Agrees(js, cs, w, v, h), NEW es, es = <<>>, NEW u,
         Agrees(es, es, v, u, h)
  PROVE  Agrees(js, cs, w, u, h)
<1>1. SUFFICES ASSUME NEW o \in DOMAIN w, Live(h, o) PROVE AgreesAt(js, cs, w, u, o)
  BY DEF Agrees
<1>2. AgreesAt(js, cs, w, v, o)
  BY <1>1 DEF Agrees
<1>3. AgreesAt(es, es, v, u, o)
  BY <1>1, <1>2 DEF Agrees, AgreesAt
<1>4. DOMAIN es = {}
  BY ListEmpty
<1>5. v[o][2] = u[o][2] /\ \A p \in Fields : Value(u[o][1], p) = Value(v[o][1], p)
  BY <1>3, <1>4 DEF AgreesAt, FieldsAgree, ElementsAgree
<1>6. FieldsAgree(js, DOMAIN js, o, w[o][1], u[o][1])
  BY <1>2, <1>5 DEF AgreesAt, FieldsAgree
<1>7. ElementsAgree(cs, DOMAIN cs, o, w[o][2], u[o][2])
  BY <1>2, <1>5 DEF AgreesAt, ElementsAgree
<1> QED BY <1>3, <1>6, <1>7 DEF AgreesAt

(* The journal goes on. *)
Goes(js, jt) == \A i \in DOMAIN js : i \in DOMAIN jt /\ jt[i] = js[i]

(* What changes in a record is noted, if it is remembered. *)
Covers(w, k, o, F, E, jt, ct) ==
  \A x \in DOMAIN w : x.slot = o.slot /\ Live(k, x) =>
    /\ \A p \in F : \E i \in DOMAIN jt : jt[i].object = x /\ jt[i].property = p
    /\ E # {} => \E i \in DOMAIN ct : ct[i].object = x

(* What was remembered agrees with what is there after a write that was    *)
(* noted.                                                                  *)
LEMMA AgreesMoved ==
  ASSUME NEW h, HeapOK(h, game), NEW k, HeapOK(k, game), NEW o, NEW F, NEW E, Calm(h, k, o, F, E),
         NEW w, Remembers(w, h.next_identity), NEW js, NEW cs, Agrees(js, cs, w, TheWorld(h), h),
         NEW jt, NEW ct, Goes(js, jt), Goes(cs, ct), Covers(w, k, o, F, E, jt, ct)
  PROVE  Agrees(jt, ct, w, TheWorld(k), k)
<1>1. PICK v : v = TheWorld(h)
  OBVIOUS
<1>2. PICK u : u = TheWorld(k)
  OBVIOUS
<1>3. SUFFICES ASSUME NEW x \in DOMAIN w, Live(k, x) PROVE AgreesAt(jt, ct, w, u, x)
  BY <1>2 DEF Agrees
<1>4. x \in Old(h.next_identity)
  BY DEF Remembers
<1>5. Lasts(h, k)
  BY CalmLasts
<1>6. /\ Live(h, x) /\ x.slot \in DOMAIN k.records /\ x.slot \in DOMAIN h.records
      /\ Lasting(h.records[x.slot], k.records[x.slot])
      /\ ~(k.records[x.slot].born >= h.next_identity)
  BY <1>3, <1>4, <1>5, LivedBefore
<1>7. AgreesAt(js, cs, w, v, x)
  BY <1>1, <1>6 DEF Agrees
<1>8. World(h, x) /\ v[x][1] = Of(h, x).properties /\ v[x][2] = Of(h, x).elements
  BY <1>1, <1>4, <1>7, WorldIs DEF AgreesAt
<1>9. x \in Old(k.next_identity)
  <2>1. h.next_identity \in Int /\ k.next_identity \in Int /\ h.next_identity <= k.next_identity
    <3>1. game.identities \in Nat
      BY GameTypes DEF HeapOK
    <3> QED BY <3>1 DEF HeapOK, Calm
  <2> QED BY <2>1, <1>4, OldGrows
<1>10. World(k, x)
  BY <1>3, <1>6, <1>8 DEF World, Lasting, Of
<1>11. x \in DOMAIN u /\ u[x][1] = Of(k, x).properties /\ u[x][2] = Of(k, x).elements
  BY <1>2, <1>9, <1>10, WorldIs
<1>12. Retains(Of(h, x), Of(k, x), x.slot = o.slot, F, E)
  BY <1>6 DEF Calm, Of
<1>13. FieldsAgree(jt, DOMAIN jt, x, w[x][1], u[x][1])
  <2>1. SUFFICES ASSUME NEW p \in Fields, \A i \in DOMAIN jt : jt[i].object # x \/ jt[i].property # p
                 PROVE  Value(u[x][1], p) = Value(w[x][1], p)
    BY DEF FieldsAgree
  <2>2. Value(v[x][1], p) = Value(w[x][1], p)
    BY <2>1, <1>7 DEF AgreesAt, FieldsAgree, Goes
  <2>3. ~(x.slot = o.slot /\ p \in F)
    BY <2>1, <1>3 DEF Covers
  <2> QED BY <2>2, <2>3, <1>8, <1>11, <1>12 DEF Retains
<1>14. ElementsAgree(ct, DOMAIN ct, x, w[x][2], u[x][2])
  <2>1. SUFFICES ASSUME \A i \in DOMAIN ct : ct[i].object # x PROVE u[x][2] = w[x][2]
    BY DEF ElementsAgree
  <2>2. v[x][2] = w[x][2]
    BY <2>1, <1>7 DEF AgreesAt, ElementsAgree, Goes
  <2>3. ~(x.slot = o.slot /\ E # {})
    BY <2>1, <1>3 DEF Covers
  <2> QED BY <2>2, <2>3, <1>8, <1>11, <1>12 DEF Retains
<1> QED BY <1>11, <1>13, <1>14 DEF AgreesAt

(* The World a cycle left behind. *)
After(hs, ps, b, l) == IF l = Len(hs) THEN b ELSE ps[l + 1]

(* The invariant: what was there when each cycle began is what was there   *)
(* when the next one did, or is there now, but for what the journal of the *)
(* cycle notes; and each journal notes what was there first.               *)
MemoryOK(h, js, cs, hs, b, ps) ==
  /\ Remembers(b, h.next_identity) /\ \A l \in DOMAIN ps : Remembers(ps[l], h.next_identity)
  /\ Noted(js, cs, b) /\ \A l \in DOMAIN hs : Noted(hs[l].properties, hs[l].containers, ps[l])
  /\ Owning(h)
  /\ h.status = "live" =>
       /\ Agrees(js, cs, b, TheWorld(h), h)
       /\ \A l \in DOMAIN hs :
            Agrees(hs[l].properties, hs[l].containers, ps[l], After(hs, ps, b, l), h)

(* A write that is noted keeps it. *)
LEMMA MemoryMoved ==
  ASSUME NEW h, HeapOK(h, game), NEW k, HeapOK(k, game), NEW o, NEW F, NEW E, Calm(h, k, o, F, E),
         NEW js, NEW cs, NEW hs, NEW b, NEW ps, MemoryOK(h, js, cs, hs, b, ps), DOMAIN hs = DOMAIN ps,
         k.status = "live" => h.status = "live",
         NEW jt, NEW ct, Goes(js, jt), Goes(cs, ct), Covers(b, k, o, F, E, jt, ct), Noted(jt, ct, b)
  PROVE  MemoryOK(k, jt, ct, hs, b, ps)
<1>1. h.next_identity \in Int /\ k.next_identity \in Int /\ h.next_identity <= k.next_identity
  <2>1. game.identities \in Nat
    BY GameTypes DEF HeapOK
  <2> QED BY <2>1 DEF HeapOK, Calm
<1>2. Remembers(b, k.next_identity) /\ \A l \in DOMAIN ps : Remembers(ps[l], k.next_identity)
  BY <1>1, RemembersLater DEF MemoryOK
<1>3. Lasts(h, k) /\ Owning(k)
  BY CalmLasts DEF MemoryOK, Calm
<1>4. ASSUME k.status = "live"
      PROVE  /\ Agrees(jt, ct, b, TheWorld(k), k)
             /\ \A l \in DOMAIN hs :
                  Agrees(hs[l].properties, hs[l].containers, ps[l], After(hs, ps, b, l), k)
  <2>1. Agrees(jt, ct, b, TheWorld(k), k)
    BY <1>4, AgreesMoved DEF MemoryOK
  <2>2. ASSUME NEW l \in DOMAIN hs
        PROVE  Agrees(hs[l].properties, hs[l].containers, ps[l], After(hs, ps, b, l), k)
    <3>1. Agrees(hs[l].properties, hs[l].containers, ps[l], After(hs, ps, b, l), h) /\ Remembers(ps[l], h.next_identity)
      BY <1>4, <2>2 DEF MemoryOK
    <3> QED BY <1>3, <3>1, AgreesStays
  <2> QED BY <2>1, <2>2
<1> QED BY <1>2, <1>3, <1>4 DEF MemoryOK

(* So does an operation that writes to nothing. *)
LEMMA MemoryStill ==
  ASSUME NEW h, HeapOK(h, game), NEW k, HeapOK(k, game), Still(h, k),
         NEW js, NEW cs, NEW hs, NEW b, NEW ps, MemoryOK(h, js, cs, hs, b, ps), DOMAIN hs = DOMAIN ps,
         k.status = "live" => h.status = "live"
  PROVE  MemoryOK(k, js, cs, hs, b, ps)
<1>1. PICK F : F = {}
  OBVIOUS
<1>2. PICK E : E = {}
  OBVIOUS
<1>3. PICK o : o = h
  OBVIOUS
<1>4. Calm(h, k, o, F, E)
  BY StillCalm
<1>5. Goes(js, js) /\ Goes(cs, cs) /\ Covers(b, k, o, F, E, js, cs) /\ Noted(js, cs, b)
  BY <1>1, <1>2 DEF Goes, Covers, MemoryOK
<1> QED BY <1>4, <1>5, MemoryMoved

(***************************************************************************)
(* Fields that are written                                                 *)
(***************************************************************************)
(* One record becomes another. *)
LEMMA AlteredCalm ==
  ASSUME NEW h, NEW k, NEW o, NEW q, Altered(h, k, o.slot, q), h.next_identity \in Int,
         NEW F, NEW E, Retains(h.records[o.slot], q, TRUE, F, E),
         Owning(h) => \A p \in DOMAIN q.owned : q.properties[p] = q.owned[p]
  PROVE  Calm(h, k, o, F, E)
<1>1. ASSUME NEW s \in DOMAIN k.records
      PROVE  /\ s \in DOMAIN h.records /\ Lasting(h.records[s], k.records[s])
             /\ Retains(h.records[s], k.records[s], s = o.slot, F, E)
  <2>1. CASE s = o.slot
    BY <2>1 DEF Altered, Lasting, Retains
  <2>2. CASE s # o.slot
    BY <2>2 DEF Altered, Lasting, Retains
  <2> QED BY <2>1, <2>2
<1>2. Owning(h) => Owning(k)
  BY DEF Owning, Altered
<1> QED BY <1>1, <1>2 DEF Calm, Altered

(* What a function holds once a field is written. *)
LEMMA FieldWritten ==
  ASSUME NEW f, NEW p, NEW v
  PROVE  /\ Value(With(f, p, v), p) = v
         /\ \A x : x # p => Value(With(f, p, v), x) = Value(f, x)
         /\ \A x \in DOMAIN f : x # p => With(f, p, v)[x] = f[x]
BY DEF With, Value

(* What it holds once a field is cleared. *)
LEMMA FieldGone ==
  ASSUME NEW f, NEW p, NEW g, g = Restrict(f, (DOMAIN f) \ {p})
  PROVE  /\ Value(g, p) = Absent
         /\ \A x : x # p => Value(g, x) = Value(f, x)
         /\ \A x \in DOMAIN f : x # p => g[x] = f[x]
BY DEF Restrict, Value

(* A field that lost the record it owned owns nothing. *)
LEMMA DisownedFields ==
  ASSUME NEW h, HeapOK(h, game), NEW o \in Old(h.next_identity), Live(h, o), NEW p \in DOMAIN Of(h, o).owned,
         Of(h, o).owned[p] \in Of(h, o).children, NEW k, k = Disowned(h, o, p)
  PROVE  p \notin DOMAIN Of(k, o).owned
<1> DEFINE r == h.records[o.slot]
           c == r.owned[p]
           left == Restrict(r.owned, (DOMAIN r.owned) \ {p})
           q == [r EXCEPT !.owned = left, !.children = @ \ {c}]
           m == [h EXCEPT !.records[o.slot].owned = left, !.records[o.slot].children = @ \ {c}]
<1>1. o.slot \in DOMAIN h.records /\ Shaped(h) /\ RecordOK(r, h.next_identity, game) /\ r = Of(h, o)
  BY DEF HeapOK, Live, Of
<1>2. k = Destroyed(m, {c.slot})
  BY <1>1 DEF Disowned, Of, Shaped
<1>3. m.records[o.slot] = q /\ Shaped(m)
  <2>1. /\ m.records = [h.records EXCEPT ![o.slot] = q]
        /\ m \in [records : {m.records}, roots : {h.roots}, free : {h.free}, next_identity : {h.next_identity},
             charged : {h.charged}, status : {h.status}]
    <3> HIDE DEF left, c
    <3> QED BY <1>1 DEF Shaped
  <2> HIDE DEF left, c, m
  <2>2. m.records[o.slot] = q /\ IsFun(m.records)
    <3> HIDE DEF q
    <3> QED BY <1>1, <2>1 DEF Shaped, IsFun
  <2> QED BY <2>1, <2>2 DEF Shaped
<1>4. q.owned = left
  <2> HIDE DEF left, c, r
  <2> QED BY <1>1 DEF RecordOK
<1>5. p \notin DOMAIN q.owned
  <2> HIDE DEF q
  <2> QED BY <1>4 DEF Restrict
<1>6. Live(k, o)
  BY DisownedKeeps
<1>7. Fewer(m, k)
  <2> HIDE DEF m, c
  <2> QED BY <1>2, <1>3, DestroyedFewer
<1> HIDE DEF m, q, c, r
<1> QED BY <1>3, <1>5, <1>6, <1>7 DEF Fewer, Lesser, Live, Of

(* set writes one field, and the field then has the value. *)
LEMMA AssignedCalm ==
  ASSUME NEW h, HeapOK(h, game), NEW o \in Old(h.next_identity), Live(h, o),
         NEW p \in game.props \cup {Field}, NEW v \in Ref(h.next_identity), NEW k, k = Assigned(h, o, p, v),
         NEW F, p \in F, NEW E
  PROVE  /\ Calm(h, k, o, F, E)
         /\ k.status = "live" /\ Owning(h) => Value(Of(k, o).properties, p) = v
<1> DEFINE r == Of(h, o)
           stored == Stored(h, o, v)
           new == p \notin DOMAIN r.properties
           owns == p \in DOMAIN r.owned
<1>1. /\ Alike(h, stored) /\ HeapOK(stored, game) /\ Live(stored, o) /\ stored.next_identity = h.next_identity
      /\ Still(h, stored) /\ Firm(h, stored)
  <2>1. Alike(h, stored)
    BY StoredAlike
  <2>2. \A x : x = Stored(h, o, v) => Still(h, x) /\ Firm(h, x)
    BY StoredFirm
  <2>3. Still(h, stored) /\ Firm(h, stored)
    <3> HIDE DEF stored
    <3> QED BY <2>2 DEF stored
  <2> HIDE DEF stored
  <2> QED BY <2>1, <2>3, AlikeKeeps DEF Alike
<1>2. SameButLife(r, stored.records[o.slot]) /\ o.slot \in DOMAIN stored.records
  <2> HIDE DEF stored
  <2> QED BY <1>1 DEF Alike, Of, Live
<1>3. HeapOK(k, game)
  BY AssignedKeeps DEF Keeps
<1>5. CASE new /\ stored.charged >= PropertyLimit
  <2>1. k = Failed(stored)
    BY <1>5 DEF Assigned
  <2> HIDE DEF stored
  <2>2. Still(stored, k) /\ Firm(stored, k) /\ k.status # "live"
    BY <2>1, <1>1, FailedFirm, FailedOK
  <2>3. Still(h, k)
    BY <1>1, <2>2, StillJoin
  <2> QED BY <2>2, <2>3, StillCalm
<1>6. CASE ~(new /\ stored.charged >= PropertyLimit) /\ owns /\ v = r.owned[p]
  <2>1. k = stored
    BY <1>6 DEF Assigned
  <2>2. Owning(h) => Value(r.properties, p) = v
    <3>1. r = h.records[o.slot] /\ o.slot \in DOMAIN h.records /\ RecordOK(r, h.next_identity, game)
      BY DEF Live, Of, HeapOK
    <3> HIDE DEF r
    <3> QED BY <1>6, <3>1 DEF Owning, Value, RecordOK
  <2>3. Of(k, o).properties = r.properties
    <3> HIDE DEF stored, r
    <3> QED BY <2>1, <1>2 DEF SameButLife, Of
  <2> HIDE DEF stored
  <2> QED BY <2>1, <2>2, <2>3, <1>1, StillCalm
<1>7. CASE ~(new /\ stored.charged >= PropertyLimit) /\ owns /\ v # r.owned[p] /\ r.owned[p] \notin r.children
  <2>1. k = [stored EXCEPT !.status = "aborted"]
    BY <1>7 DEF Assigned
  <2> HIDE DEF stored
  <2>2. k.records = stored.records /\ k.next_identity = stored.next_identity /\ k.status # "live"
    BY <2>1, <1>1 DEF HeapOK, Shaped
  <2>3. Fewer(stored, k)
    BY <2>2 DEF Fewer, Lesser
  <2>4. Still(h, k)
    BY <2>3, <1>1, <1>3, FewerFirm, StillJoin
  <2> QED BY <2>2, <2>4, StillCalm
<1>8. CASE ~(new /\ stored.charged >= PropertyLimit) /\ (owns => v # r.owned[p] /\ r.owned[p] \in r.children)
  <2> DEFINE m == IF owns THEN Disowned(stored, o, p) ELSE stored
             t == m.records[o.slot]
             q == [t EXCEPT !.properties = With(t.properties, p, v)]
  <2>1. k = [m EXCEPT !.records[o.slot].properties = With(@, p, v), !.charged = @ + (IF new THEN 1 ELSE 0)]
    BY <1>8 DEF Assigned
  <2>2. /\ Firm(stored, m) /\ Still(stored, m) /\ HeapOK(m, game)
        /\ Live(m, o) /\ p \notin DOMAIN Of(m, o).owned
    <3>1. CASE owns
      <4>1. m = Disowned(stored, o, p)
        BY <3>1
      <4>2. p \in DOMAIN Of(stored, o).owned /\ Of(stored, o).owned[p] \in Of(stored, o).children
        BY <1>2, <1>8, <3>1 DEF SameButLife, Of
      <4>3. o \in Old(stored.next_identity)
        BY <1>1
      <4> HIDE DEF stored, m, owns
      <4> QED BY <4>1, <4>2, <4>3, <1>1, DisownedKeeps, DisownedFirm, DisownedFields DEF Firm
    <3>2. CASE ~owns
      <4>1. m = stored
        BY <3>2
      <4>2. p \notin DOMAIN Of(stored, o).owned
        BY <1>2, <3>2 DEF SameButLife, Of
      <4> HIDE DEF stored, m
      <4> QED BY <4>1, <4>2, <1>1, FirmSelf, StillSelf
    <3> QED BY <3>1, <3>2
  <2> HIDE DEF m
  <2>3. o.slot \in DOMAIN m.records /\ Shaped(m) /\ RecordOK(t, m.next_identity, game) /\ t = Of(m, o)
    BY <2>2 DEF HeapOK, Live, Of
  <2>4. q.born = t.born /\ q.kind = t.kind /\ q.lifetime = t.lifetime /\ q.owned = t.owned
        /\ q.elements = t.elements /\ q.properties = With(t.properties, p, v)
    <3> HIDE DEF t
    <3> QED BY <2>3 DEF RecordOK
  <2>5. k.records = [m.records EXCEPT ![o.slot] = q] /\ k.next_identity = m.next_identity /\ IsFun(m.records)
    <3> HIDE DEF r
    <3> QED BY <2>1, <2>3 DEF Shaped
  <2> HIDE DEF q
  <2>6. Altered(m, k, o.slot, q) /\ Of(k, o) = q
    BY <2>4, <2>5, <2>3 DEF Altered, IsFun, Of
  <2>7. Retains(m.records[o.slot], q, TRUE, F, E)
    BY <2>4, FieldWritten DEF Retains
  <2>8. Owning(m) => \A x \in DOMAIN q.owned : q.properties[x] = q.owned[x]
    <3>1. SUFFICES ASSUME Owning(m), NEW x \in DOMAIN q.owned PROVE q.properties[x] = q.owned[x]
      OBVIOUS
    <3>2. x # p /\ x \in DOMAIN t.owned /\ x \in DOMAIN t.properties
      BY <2>2, <2>3, <2>4 DEF RecordOK
    <3>3. t.properties[x] = t.owned[x]
      BY <3>1, <3>2, <2>3 DEF Owning
    <3> QED BY <3>2, <3>3, <2>4, FieldWritten
  <2>9. m.next_identity \in Int
    BY <2>2, GameTypes DEF HeapOK
  <2> HIDE DEF t, stored
  <2>10. Calm(m, k, o, F, E)
    BY <2>6, <2>7, <2>8, <2>9, AlteredCalm
  <2>11. Still(h, m)
    BY <1>1, <2>2, StillJoin
  <2>12. Calm(h, k, o, F, E)
    BY <1>3, <2>2, <2>10, <2>11, CalmAfter
  <2>13. Value(Of(k, o).properties, p) = v
    BY <2>4, <2>6, FieldWritten
  <2> QED BY <2>12, <2>13
<1> QED BY <1>5, <1>6, <1>7, <1>8

(* clear_property takes one field away. *)
LEMMA ClearedCalm ==
  ASSUME NEW h, HeapOK(h, game), NEW o \in Old(h.next_identity), Live(h, o), NEW p,
         p \notin DOMAIN Of(h, o).owned, NEW k, k = Cleared(h, o, p), NEW F, p \in F, NEW E
  PROVE  Calm(h, k, o, F, E) /\ Value(Of(k, o).properties, p) = Absent
<1> DEFINE r == h.records[o.slot]
           q == [r EXCEPT !.properties = Restrict(r.properties, (DOMAIN r.properties) \ {p})]
<1>1. o.slot \in DOMAIN h.records /\ Shaped(h) /\ RecordOK(r, h.next_identity, game) /\ r = Of(h, o)
  BY DEF HeapOK, Live, Of
<1>2. CASE p \notin DOMAIN r.properties
  <2>1. k = h /\ Value(r.properties, p) = Absent
    BY <1>1, <1>2 DEF Cleared, Value
  <2> HIDE DEF r
  <2> QED BY <1>1, <2>1, StillSelf, StillCalm
<1>3. CASE p \in DOMAIN r.properties
  <2>1. k = [h EXCEPT !.records[o.slot].properties = Restrict(@, DOMAIN @ \ {p}),
                      !.charged = IF @ = 0 THEN 0 ELSE @ - 1]
    BY <1>1, <1>3 DEF Cleared
  <2>2. /\ q.born = r.born /\ q.kind = r.kind /\ q.lifetime = r.lifetime
        /\ q.owned = r.owned /\ q.elements = r.elements
        /\ q.properties = Restrict(r.properties, (DOMAIN r.properties) \ {p})
    <3> HIDE DEF r
    <3> QED BY <1>1 DEF RecordOK
  <2>3. k.records = [h.records EXCEPT ![o.slot] = q] /\ k.next_identity = h.next_identity /\ IsFun(h.records)
    BY <2>1, <1>1 DEF Shaped
  <2> HIDE DEF q
  <2>4. Altered(h, k, o.slot, q) /\ Of(k, o) = q
    BY <2>3, <2>2, <1>1 DEF Altered, IsFun, Of
  <2>g. /\ Value(q.properties, p) = Absent
        /\ \A x : x # p => Value(q.properties, x) = Value(r.properties, x)
        /\ \A x \in DOMAIN r.properties : x # p => q.properties[x] = r.properties[x]
    <3> DEFINE f == r.properties
               g == q.properties
    <3>1. g = Restrict(f, (DOMAIN f) \ {p})
      BY <2>2
    <3> HIDE DEF f, g
    <3>2. /\ Value(g, p) = Absent
          /\ \A x : x # p => Value(g, x) = Value(f, x)
          /\ \A x \in DOMAIN f : x # p => g[x] = f[x]
      BY <3>1, FieldGone
    <3> QED BY <3>2 DEF f, g
  <2>5. Retains(h.records[o.slot], q, TRUE, F, E)
    BY <2>2, <2>g DEF Retains
  <2>6. Owning(h) => \A x \in DOMAIN q.owned : q.properties[x] = q.owned[x]
    <3>1. SUFFICES ASSUME Owning(h), NEW x \in DOMAIN q.owned PROVE q.properties[x] = q.owned[x]
      OBVIOUS
    <3>2. x # p /\ x \in DOMAIN r.owned /\ x \in DOMAIN r.properties
      BY <1>1, <2>2 DEF RecordOK
    <3>3. r.properties[x] = r.owned[x]
      BY <3>1, <3>2, <1>1 DEF Owning
    <3> QED BY <3>2, <3>3, <2>2, <2>g
  <2>7. h.next_identity \in Int
    BY GameTypes DEF HeapOK
  <2> HIDE DEF r
  <2> QED BY <2>g, <2>4, <2>5, <2>6, <2>7, AlteredCalm
<1> QED BY <1>2, <1>3

(***************************************************************************)
(* A journal that is put back                                              *)
(***************************************************************************)

(* Only the elements of one object are others, those of the snapshot. *)
Refills(h, k, d) ==
  (\A F, E : E # {} => Calm(h, k, d.object, F, E)) /\ Of(k, d.object).elements = d.elements

(* A snapshot that is put back fills one object. *)
LEMMA SnapshotCalm ==
  ASSUME NEW h, HeapOK(h, game), NEW d, SnapOK(d, h, game), Live(h, d.object), NEW now,
         now = [Of(h, d.object) EXCEPT !.elements = d.elements, !.capacity = d.capacity],
         NEW k, k = [h EXCEPT !.records[d.object.slot] = now,
                              !.charged = @ - Charge(Of(h, d.object)) + Charge(now)]
  PROVE  Refills(h, k, d)
<1> DEFINE s == d.object.slot
           o == d.object
           r == h.records[s]
<1>1. Shaped(h) /\ s \in DOMAIN h.records /\ RecordOK(r, h.next_identity, game) /\ r = Of(h, d.object)
  BY DEF HeapOK, Live, Of
<1>2. /\ now.born = r.born /\ now.kind = r.kind /\ now.lifetime = r.lifetime
      /\ now.properties = r.properties /\ now.owned = r.owned /\ now.elements = d.elements
  <2> HIDE DEF r
  <2> QED BY <1>1 DEF RecordOK
<1>3. k.records = [h.records EXCEPT ![s] = now] /\ k.next_identity = h.next_identity /\ IsFun(h.records)
  BY <1>1 DEF Shaped
<1>4. Altered(h, k, s, now) /\ Of(k, o) = now
  <2> HIDE DEF r
  <2> QED BY <1>1, <1>2, <1>3 DEF Altered, IsFun, Of, r
<1>5. Owning(h) => \A p \in DOMAIN now.owned : now.properties[p] = now.owned[p]
  BY <1>1, <1>2 DEF Owning
<1>6. h.next_identity \in Int
  BY GameTypes DEF HeapOK
<1>7. ASSUME NEW F, NEW E, E # {} PROVE Calm(h, k, o, F, E)
  <2>1. Altered(h, k, o.slot, now) /\ Retains(h.records[o.slot], now, TRUE, F, E)
    BY <1>2, <1>4, <1>7 DEF Retains
  <2> HIDE DEF s, r, o
  <2> QED BY <1>5, <1>6, <2>1, AlteredCalm
<1> QED BY <1>2, <1>4, <1>7 DEF Refills

(* What is there is World, and is what was remembered but for what is still to be put back. *)
Restoring(g, js, I, cs, J, w) ==
  \A o \in DOMAIN w : Live(g, o) =>
    /\ World(g, o)
    /\ FieldsAgree(js, I, o, w[o][1], Of(g, o).properties)
    /\ ElementsAgree(cs, J, o, w[o][2], Of(g, o).elements)

(* An entry that is put back is one less to put back. *)
LEMMA RestoringMoved ==
  ASSUME NEW g, HeapOK(g, game), NEW o \in Old(g.next_identity), Live(g, o), NEW m,
         NEW F, NEW E, Calm(g, m, o, F, E), NEW w, Remembers(w, g.next_identity),
         NEW js, NEW I, NEW cs, NEW J, Restoring(g, js, I, cs, J, w),
         NEW I2 \in SUBSET I, NEW J2 \in SUBSET J,
         \A i \in I \ I2 : js[i].object = o /\ js[i].property \in F,
         \A j \in J \ J2 : cs[j].object = o /\ E # {},
         Live(m, o) /\ o \in DOMAIN w =>
           /\ \A p \in Fields : p \in F => Value(Of(m, o).properties, p) = Value(w[o][1], p)
           /\ E # {} => Of(m, o).elements = w[o][2]
  PROVE  Restoring(m, js, I2, cs, J2, w)
<1>1. SUFFICES ASSUME NEW x \in DOMAIN w, Live(m, x)
               PROVE  /\ World(m, x)
                      /\ FieldsAgree(js, I2, x, w[x][1], Of(m, x).properties)
                      /\ ElementsAgree(cs, J2, x, w[x][2], Of(m, x).elements)
  BY DEF Restoring
<1>2. x \in Old(g.next_identity) /\ Lasts(g, m)
  BY CalmLasts DEF Remembers
<1>3. /\ Live(g, x) /\ x.slot \in DOMAIN m.records /\ x.slot \in DOMAIN g.records
      /\ Lasting(g.records[x.slot], m.records[x.slot]) /\ ~(m.records[x.slot].born >= g.next_identity)
  BY <1>1, <1>2, LivedBefore
<1>4. /\ World(g, x) /\ FieldsAgree(js, I, x, w[x][1], Of(g, x).properties)
      /\ ElementsAgree(cs, J, x, w[x][2], Of(g, x).elements)
  BY <1>3 DEF Restoring
<1>5. World(m, x)
  BY <1>1, <1>3, <1>4 DEF World, Lasting, Of
<1>6. Retains(Of(g, x), Of(m, x), x.slot = o.slot, F, E)
  BY <1>3 DEF Calm, Of
<1>7. x.slot = o.slot => x = o
  BY <1>2, <1>3 DEF Live, Old
<1>8. FieldsAgree(js, I2, x, w[x][1], Of(m, x).properties)
  <2>1. SUFFICES ASSUME NEW p \in Fields, \A i \in I2 : js[i].object # x \/ js[i].property # p
                 PROVE  Value(Of(m, x).properties, p) = Value(w[x][1], p)
    BY DEF FieldsAgree
  <2>2. CASE x = o /\ p \in F
    BY <1>1, <2>2
  <2>3. CASE ~(x = o /\ p \in F)
    <3>1. \A i \in I : js[i].object # x \/ js[i].property # p
      BY <2>1, <2>3
    <3>2. Value(Of(g, x).properties, p) = Value(w[x][1], p)
      BY <3>1, <1>4 DEF FieldsAgree
    <3> QED BY <3>2, <2>3, <1>6, <1>7 DEF Retains
  <2> QED BY <2>2, <2>3
<1>9. ElementsAgree(cs, J2, x, w[x][2], Of(m, x).elements)
  <2>1. SUFFICES ASSUME \A j \in J2 : cs[j].object # x PROVE Of(m, x).elements = w[x][2]
    BY DEF ElementsAgree
  <2>2. CASE x = o /\ E # {}
    BY <1>1, <2>2
  <2>3. CASE ~(x = o /\ E # {})
    <3>1. \A j \in J : cs[j].object # x
      BY <2>1, <2>3
    <3>2. Of(g, x).elements = w[x][2]
      BY <3>1, <1>4 DEF ElementsAgree
    <3> QED BY <3>2, <2>3, <1>6, <1>7 DEF Retains
  <2> QED BY <2>2, <2>3
<1> QED BY <1>5, <1>8, <1>9

(* An entry of an object that is gone is passed over. *)
LEMMA RestoringSkipped ==
  ASSUME NEW g, NEW o, ~Live(g, o), NEW w,
         NEW js, NEW I, NEW cs, NEW J, Restoring(g, js, I, cs, J, w),
         NEW I2 \in SUBSET I, NEW J2 \in SUBSET J,
         \A i \in I \ I2 : js[i].object = o, \A j \in J \ J2 : cs[j].object = o
  PROVE  Restoring(g, js, I2, cs, J2, w)
<1>1. SUFFICES ASSUME NEW x \in DOMAIN w, Live(g, x)
               PROVE  /\ World(g, x)
                      /\ FieldsAgree(js, I2, x, w[x][1], Of(g, x).properties)
                      /\ ElementsAgree(cs, J2, x, w[x][2], Of(g, x).elements)
  BY DEF Restoring
<1>2. x # o
  BY <1>1
<1>3. /\ World(g, x) /\ FieldsAgree(js, I, x, w[x][1], Of(g, x).properties)
      /\ ElementsAgree(cs, J, x, w[x][2], Of(g, x).elements)
  BY <1>1 DEF Restoring
<1> QED BY <1>2, <1>3 DEF FieldsAgree, ElementsAgree

(* revert_containers puts the elements back. *)
LEMMA ContainersRestored ==
  ASSUME NEW h, HeapOK(h, game), Owning(h), NEW list, IsFiniteSet(DOMAIN list), DOMAIN list \in SUBSET Nat,
         ContainersOK(list, h, game), NEW w, Remembers(w, h.next_identity), NEW js, NEW I,
         h.status = "live" => Restoring(h, js, I, list, DOMAIN list, w),
         \A i \in DOMAIN list : list[i].object \in DOMAIN w => list[i].elements = w[list[i].object][2],
         NEW k, k = ContainersReverted(h, list), NEW none, none = {}
  PROVE  Lasts(h, k) /\ Owning(k) /\ (h.status = "live" => Restoring(k, js, I, list, none, w))
<1> DEFINE D == DOMAIN list
           P(g, t) == /\ Steady(h, g) /\ Lasts(h, g) /\ Owning(g)
                      /\ h.status = "live" => Restoring(g, js, I, list, D \ t, w)
                      /\ \A q : SnapOK(q, h, game) /\ (\A i \in t : Lighter(q, list[i], h)) => SnapOK(q, g, game)
<1>1. PICK f : Folding("containers", list, h, f, D) /\ ContainersReverted(h, list) = f[D]
  BY ContainersFold
<1>2. Pickable("containers", D)
  BY ListPickable
<1>f. /\ f[{}] = h
      /\ \A t \in SUBSET D : t # {} =>
           Picked("containers", t) \in t
           /\ f[t] = Folds("containers", list, Picked("containers", t), f[t \ {Picked("containers", t)}])
  <2> HIDE DEF P, D
  <2> QED BY <1>1, <1>2, FoldStep
<1> DEFINE G == {t \in SUBSET D : P(f[t], t)}
<1>3. {} \in G
  <2>1. D \ {} = D
    OBVIOUS
  <2> QED BY <2>1, <1>f, SteadySelf, LastsSelf
<1>4. ASSUME NEW t \in SUBSET D, t # {}, t \ {Picked("containers", t)} \in G PROVE t \in G
  <2> DEFINE x == Picked("containers", t)
             g == f[t \ {x}]
             d == list[x]
             m == f[t]
             J == D \ (t \ {x})
             J2 == D \ t
  <2>1. x \in t /\ m = Folds("containers", list, x, g)
    BY <1>4, <1>f
  <2>2. P(g, t \ {x})
    BY <1>4
  <2>3. HeapOK(g, game) /\ Descends(h, g) /\ Steady(h, g) /\ Lasts(h, g) /\ Owning(g)
        /\ g.next_identity = h.next_identity /\ (h.status = "live" => Restoring(g, js, I, list, J, w))
    BY <2>2 DEF Steady
  <2>4. \A i \in t \ {x} : x < i
    <3>1. x = Min(t)
      BY DEF Picked
    <3>2. \A i \in t : x <= i
      BY <3>1, <1>4, LeastMember
    <3> QED BY <3>2, <2>1
  <2>5. SnapOK(d, g, game) /\ d.object \in Old(g.next_identity)
    <3>1. SnapOK(d, h, game) /\ d.object \in Old(h.next_identity)
      BY <2>1 DEF ContainersOK, SnapOK
    <3>2. \A i \in t \ {x} : Lighter(d, list[i], h)
      BY <2>1, <2>4 DEF ContainersOK
    <3> QED BY <2>2, <2>3, <3>1, <3>2
  <2>s. J2 \in SUBSET J /\ (\A j \in J \ J2 : j = x) /\ x \in D
    BY <2>1
  <2> HIDE DEF g, m, x, J, J2
  <2>6. /\ Steady(g, m) /\ Lasts(g, m) /\ Owning(m)
        /\ h.status = "live" => Restoring(m, js, I, list, J2, w)
        /\ \A q : SnapOK(q, g, game) /\ Lighter(q, d, g) => SnapOK(q, m, game)
    <3>1. CASE ~Live(g, d.object)
      <4>1. m = g
        BY <3>1, <2>1 DEF Folds
      <4>2. \A j \in J \ J2 : list[j].object = d.object
        BY <2>s
      <4>3. \A i \in I \ I : js[i].object = d.object
        OBVIOUS
      <4> HIDE DEF d
      <4>4. h.status = "live" => Restoring(g, js, I, list, J2, w)
        BY <2>3, <2>s, <3>1, <4>2, <4>3, RestoringSkipped
      <4> QED BY <4>1, <4>4, <2>3, SteadySelf, LastsSelf
    <3>2. CASE Live(g, d.object)
      <4> DEFINE now == [Of(g, d.object) EXCEPT !.elements = d.elements, !.capacity = d.capacity]
                 o == d.object
      <4>1. m = [g EXCEPT !.records[d.object.slot] = now,
                          !.charged = @ - Charge(Of(g, d.object)) + Charge(now)]
        BY <3>2, <2>1 DEF Folds
      <4>i. /\ \A j \in J \ J2 : list[j].object = o
            /\ o \in DOMAIN w => d.elements = w[o][2]
        BY <2>s
      <4>o. o = d.object /\ now = [Of(g, d.object) EXCEPT !.elements = d.elements, !.capacity = d.capacity]
        OBVIOUS
      <4> HIDE DEF d, o, now
      <4>3. Steady(g, m) /\ \A q : SnapOK(q, g, game) /\ Lighter(q, d, g) => SnapOK(q, m, game)
        BY <4>1, <4>o, <3>2, <2>3, <2>5, SnapshotPut
      <4>4. PICK F : F = {}
        OBVIOUS
      <4>5. PICK E : E # {}
        OBVIOUS
      <4>6. Calm(g, m, o, F, E) /\ Of(m, o).elements = d.elements
        <5>1. HeapOK(g, game) /\ Live(g, d.object) /\ SnapOK(d, g, game)
          BY <2>3, <2>5, <3>2
        <5>2. Refills(g, m, d)
          BY ONLY <5>1, <4>1, <4>o, SnapshotCalm
        <5> QED BY <5>2, <4>o, <4>5 DEF Refills
      <4>7. Lasts(g, m) /\ Owning(m)
        BY <4>6, <2>3, CalmLasts DEF Calm
      <4>8. ASSUME h.status = "live" PROVE Restoring(m, js, I, list, J2, w)
        <5>1. Restoring(g, js, I, list, J, w) /\ Remembers(w, g.next_identity) /\ o \in Old(g.next_identity) /\ Live(g, o)
          BY <4>8, <2>3, <2>5, <3>2, <4>o
        <5>2. \A i \in I \ I : js[i].object = o /\ js[i].property \in F
          OBVIOUS
        <5>3. \A j \in J \ J2 : list[j].object = o /\ E # {}
          BY <4>i, <4>5
        <5>4. Live(m, o) /\ o \in DOMAIN w =>
                /\ \A p \in Fields : p \in F => Value(Of(m, o).properties, p) = Value(w[o][1], p)
                /\ E # {} => Of(m, o).elements = w[o][2]
          BY <4>i, <4>4, <4>6
        <5> QED BY <5>1, <5>2, <5>3, <5>4, <4>6, <2>3, <2>s, RestoringMoved
      <4> QED BY <4>3, <4>7, <4>8
    <3> QED BY <3>1, <3>2
  <2>7. Steady(h, m) /\ Lasts(h, m)
    <3>1. HeapOK(m, game)
      BY <2>6 DEF Steady
    <3> QED BY <3>1, <2>3, <2>6, SteadyJoin, LastsJoin
  <2>8. ASSUME NEW q, SnapOK(q, h, game), \A i \in t : Lighter(q, list[i], h) PROVE SnapOK(q, m, game)
    <3>1. SnapOK(q, g, game)
      BY <2>2, <2>8
    <3>2. Lighter(q, d, g)
      <4>1. Lighter(q, d, h) /\ q.object \in Old(h.next_identity)
        BY <2>1, <2>8 DEF SnapOK
      <4> HIDE DEF d
      <4> QED BY <4>1, <2>3, LighterLater
    <3> QED BY <3>1, <3>2, <2>6
  <2> QED BY <2>6, <2>7, <2>8 DEF m, J2
<1>5. D \in G
  <2>1. \A t \in SUBSET D : t # {} /\ t \ {Picked("containers", t)} \in G => t \in G
    BY <1>4
  <2> HIDE DEF G, D
  <2>2. \A t \in SUBSET D : t \in G
    BY <1>2, <1>3, <2>1, FoldSets
  <2> QED BY <2>2
<1>6. D \ D = none
  OBVIOUS
<1> QED BY <1>1, <1>5, <1>6

(* revert_properties puts the fields back: the oldest entry of a field is  *)
(* the last to be put back.                                                *)
LEMMA PropertiesRestored ==
  ASSUME NEW h, HeapOK(h, game), Owning(h), NEW list, IsFiniteSet(DOMAIN list), DOMAIN list \in SUBSET Nat,
         \A i \in DOMAIN list : PropertyOK(list[i], h, game),
         NEW w, Remembers(w, h.next_identity), NEW cs, NEW none, none = {},
         h.status = "live" => Restoring(h, list, DOMAIN list, cs, none, w),
         \A i \in DOMAIN list : list[i].object \in DOMAIN w =>
           list[i].previous = Value(w[list[i].object][1], list[i].property),
         NEW k, k = PropertiesReverted(h, list)
  PROVE  /\ Keeps(h, k) /\ Lasts(h, k) /\ Owning(k)
         /\ k.status = "live" => Restoring(k, list, none, cs, none, w)
<1> DEFINE D == DOMAIN list
           P(g, t) == /\ Keeps(h, g) /\ Lasts(h, g) /\ Owning(g) /\ g.next_identity = h.next_identity
                      /\ g.status = "live" => Restoring(g, list, D \ t, cs, none, w)
<1>1. PICK f : Folding("properties", list, h, f, D) /\ PropertiesReverted(h, list) = f[D]
  BY PropertiesFold
<1>2. Pickable("properties", D)
  BY ListPickable
<1>f. /\ f[{}] = h
      /\ \A t \in SUBSET D : t # {} =>
           Picked("properties", t) \in t
           /\ f[t] = Folds("properties", list, Picked("properties", t), f[t \ {Picked("properties", t)}])
  <2> HIDE DEF P, D
  <2> QED BY <1>1, <1>2, FoldStep
<1> DEFINE G == {t \in SUBSET D : P(f[t], t)}
<1>3. {} \in G
  <2>1. D \ {} = D
    OBVIOUS
  <2> QED BY <2>1, <1>f, KeepsSelf, LastsSelf
<1>4. ASSUME NEW t \in SUBSET D, t # {}, t \ {Picked("properties", t)} \in G PROVE t \in G
  <2> DEFINE x == Picked("properties", t)
             g == f[t \ {x}]
             d == list[x]
             m == f[t]
             I == D \ (t \ {x})
             I2 == D \ t
  <2>1. x \in D /\ m = Folds("properties", list, x, g)
    BY <1>4, <1>f
  <2>2. P(g, t \ {x})
    BY <1>4
  <2>3. HeapOK(g, game) /\ Descends(h, g) /\ Keeps(h, g) /\ Lasts(h, g) /\ Owning(g)
        /\ g.next_identity = h.next_identity /\ (g.status = "live" => Restoring(g, list, I, cs, none, w))
        /\ Remembers(w, g.next_identity)
    BY <2>2, FollowsDescends DEF Keeps
  <2>4. PropertyOK(d, g, game)
    <3> HIDE DEF g
    <3>1. PropertyOK(d, h, game)
      BY <2>1
    <3> HIDE DEF d
    <3> QED BY <3>1, <2>3, PropertyLater
  <2>s. I2 \in SUBSET I /\ \A j \in I \ I2 : list[j] = d
    <3>1. \A j \in I \ I2 : j = x
      OBVIOUS
    <3> QED BY <3>1
  <2>d. d.object \in DOMAIN w => d.previous = Value(w[d.object][1], d.property)
    BY <2>1
  <2> HIDE DEF g, m, x, I, I2, d
  <2>n. \A j \in none \ none : cs[j].object = d.object /\ none # {}
    OBVIOUS
  <2>5. /\ Keeps(g, m) /\ Lasts(g, m) /\ Owning(m) /\ m.next_identity = g.next_identity
        /\ m.status = "live" => Restoring(m, list, I2, cs, none, w)
    <3>1. CASE ~Live(g, d.object)
      <4>1. m = g
        BY <3>1, <2>1 DEF Folds, d
      <4>2. \A j \in I \ I2 : list[j].object = d.object
        BY <2>s
      <4>3. \A j \in none \ none : cs[j].object = d.object
        OBVIOUS
      <4>4. g.status = "live" => Restoring(g, list, I2, cs, none, w)
        BY <2>3, <2>s, <3>1, <4>2, <4>3, RestoringSkipped
      <4> QED BY <4>1, <4>4, <2>3, KeepsSelf, LastsSelf
    <3>2. ASSUME Live(g, d.object), Keeps(g, m), m.next_identity = g.next_identity, NEW F, F = {d.property},
                 Calm(g, m, d.object, F, none),
                 m.status = "live" => Value(Of(m, d.object).properties, d.property) = d.previous
          PROVE  /\ Lasts(g, m) /\ Owning(m)
                 /\ m.status = "live" => Restoring(m, list, I2, cs, none, w)
      <4>1. Lasts(g, m) /\ Owning(m)
        BY <3>2, <2>3, CalmLasts DEF Calm
      <4>2. ASSUME m.status = "live" PROVE Restoring(m, list, I2, cs, none, w)
        <5>0. PICK o : o = d.object
          OBVIOUS
        <5>1. /\ Restoring(g, list, I, cs, none, w) /\ Remembers(w, g.next_identity)
              /\ o \in Old(g.next_identity) /\ Live(g, o) /\ Calm(g, m, o, F, none)
          BY <4>2, <5>0, <3>2, <2>3, <2>4 DEF Keeps, Bears, PropertyOK
        <5>2. \A i \in I \ I2 : list[i].object = o /\ list[i].property \in F
          BY <2>s, <3>2, <5>0
        <5>3. \A j \in none \ none : cs[j].object = o /\ none # {}
          OBVIOUS
        <5>4. Live(m, o) /\ o \in DOMAIN w =>
                /\ \A p \in Fields : p \in F => Value(Of(m, o).properties, p) = Value(w[o][1], p)
                /\ none # {} => Of(m, o).elements = w[o][2]
          BY <2>d, <3>2, <4>2, <5>0
        <5> QED BY <5>1, <5>2, <5>3, <5>4, <2>3, <2>s, RestoringMoved
      <4> QED BY <4>1, <4>2
    <3>3. CASE Live(g, d.object) /\ d.previous = Absent
      <4>1. m = Cleared(g, d.object, d.property)
        BY <3>3, <2>1 DEF Folds, d
      <4>2. d.object \in Old(g.next_identity) /\ d.property \notin DOMAIN Of(g, d.object).owned
        BY <3>3, <2>4 DEF PropertyOK
      <4>3. Keeps(g, m) /\ m.next_identity = g.next_identity
        BY <4>1, <4>2, <3>3, <2>3, ClearedKeeps
      <4>4. PICK F : F = {d.property}
        OBVIOUS
      <4>5. d.property \in F
        BY <4>4
      <4>6. Calm(g, m, d.object, F, none) /\ Value(Of(m, d.object).properties, d.property) = Absent
        BY <4>1, <4>2, <4>5, <3>3, <2>3, ClearedCalm
      <4> QED BY <3>2, <3>3, <4>3, <4>4, <4>6
    <3>4. CASE Live(g, d.object) /\ d.previous # Absent
      <4>1. m = Assigned(g, d.object, d.property, d.previous)
        BY <3>4, <2>1 DEF Folds, d
      <4>2. d.object \in Old(g.next_identity) /\ d.property \in game.props \cup {Field}
            /\ d.previous \in Ref(g.next_identity)
        BY <3>4, <2>4 DEF PropertyOK
      <4>3. Keeps(g, m) /\ m.next_identity = g.next_identity
        BY <4>1, <4>2, <3>4, <2>3, AssignedKeeps
      <4>4. PICK F : F = {d.property}
        OBVIOUS
      <4>5. d.property \in F
        BY <4>4
      <4>6. /\ Calm(g, m, d.object, F, none)
            /\ m.status = "live" /\ Owning(g) => Value(Of(m, d.object).properties, d.property) = d.previous
        BY <4>1, <4>2, <4>5, <3>4, <2>3, AssignedCalm
      <4> QED BY <2>3, <3>2, <3>4, <4>3, <4>4, <4>6
    <3> QED BY <3>1, <3>3, <3>4
  <2>6. Keeps(h, m) /\ Lasts(h, m)
    BY <2>3, <2>5, KeepsJoin, LastsJoin DEF Keeps
  <2> QED BY <2>3, <2>5, <2>6 DEF m, I2
<1>5. D \in G
  <2>1. \A t \in SUBSET D : t # {} /\ t \ {Picked("properties", t)} \in G => t \in G
    BY <1>4
  <2> HIDE DEF G, D
  <2>2. \A t \in SUBSET D : t \in G
    BY <1>2, <1>3, <2>1, FoldSets
  <2> QED BY <2>2
<1>6. D \ D = none
  OBVIOUS
<1> QED BY <1>1, <1>5, <1>6

(* What is remembered and still there is World, as it was. *)
Comes(k, w) == \A o \in DOMAIN w : Live(k, o) => World(k, o) /\ Contents(Of(k, o)) = w[o]

(* Functions with the same values are the same. *)
LEMMA ValuesEqual ==
  ASSUME NEW n \in Nat, NEW f, NEW g, IsFun(f), IsFun(g), DOMAIN f \subseteq Fields, DOMAIN g \subseteq Fields,
         \A p \in DOMAIN f : f[p] \in Ref(n), \A p \in DOMAIN g : g[p] \in Ref(n),
         \A p \in Fields : Value(f, p) = Value(g, p)
  PROVE  f = g
<1>1. Absent \notin Ref(n)
  <2>1. Old(n) \subseteq [slot : Nat, born : Nat]
    BY DEF Old
  <2> QED BY <2>1, AbsentIsNoValue DEF Ref
<1>2. \A p \in Fields : p \in DOMAIN f <=> p \in DOMAIN g
  BY <1>1 DEF Value
<1>3. DOMAIN f = DOMAIN g
  BY <1>2
<1>4. \A p \in DOMAIN f : f[p] = g[p]
  BY <1>3 DEF Value
<1> QED BY <1>3, <1>4 DEF IsFun

(* When nothing is left to put back, everything is as it was. *)
LEMMA RestoredComes ==
  ASSUME NEW k, HeapOK(k, game), NEW w, Remembers(w, k.next_identity), NEW none, none = {},
         NEW js, NEW cs, Restoring(k, js, none, cs, none, w)
  PROVE  Comes(k, w)
<1>1. SUFFICES ASSUME NEW o \in DOMAIN w, Live(k, o) PROVE World(k, o) /\ Contents(Of(k, o)) = w[o]
  BY DEF Comes
<1> DEFINE f == Of(k, o).properties
           g == w[o][1]
<1>2. World(k, o) /\ Of(k, o).elements = w[o][2] /\ \A p \in Fields : Value(f, p) = Value(g, p)
  BY <1>1 DEF Restoring, FieldsAgree, ElementsAgree
<1>3. w[o] = <<g, w[o][2]>> /\ IsFun(g) /\ DOMAIN g \subseteq Fields /\ \A p \in DOMAIN g : g[p] \in Ref(k.next_identity)
  BY DEF Remembers
<1>4. IsFun(f) /\ DOMAIN f \subseteq Fields /\ \A p \in DOMAIN f : f[p] \in Ref(k.next_identity)
  <2>1. RecordOK(Of(k, o), k.next_identity, game)
    BY <1>1 DEF HeapOK, Live, Of
  <2> QED BY <2>1 DEF RecordOK, Fields
<1>5. k.next_identity \in Nat
  BY GameTypes DEF HeapOK
<1>6. f = g
  <2> HIDE DEF f, g
  <2> QED BY <1>2, <1>3, <1>4, <1>5, ValuesEqual
<1> QED BY <1>2, <1>3, <1>6 DEF Contents

(* Then what was remembered agrees with what is there. *)
LEMMA ComesAgrees ==
  ASSUME NEW k, HeapOK(k, game), NEW w, Remembers(w, k.next_identity), Comes(k, w), NEW es, es = <<>>
  PROVE  Agrees(es, es, w, TheWorld(k), k)
<1>1. PICK v : v = TheWorld(k)
  OBVIOUS
<1>2. SUFFICES ASSUME NEW o \in DOMAIN w, Live(k, o) PROVE AgreesAt(es, es, w, v, o)
  BY <1>1 DEF Agrees
<1>3. World(k, o) /\ Contents(Of(k, o)) = w[o] /\ o \in Old(k.next_identity)
  BY <1>2 DEF Comes, Remembers
<1>4. o \in DOMAIN v /\ v[o] = w[o]
  BY <1>1, <1>3, WorldIs
<1> QED BY <1>4 DEF AgreesAt, FieldsAgree, ElementsAgree

(* A World agrees with itself. *)
LEMMA WorldAgrees ==
  ASSUME NEW k, NEW w, w = TheWorld(k), NEW es, es = <<>>
  PROVE  Agrees(es, es, w, w, k)
BY DEF Agrees, AgreesAt, FieldsAgree, ElementsAgree

(* A journal that notes every write has everything to put back. *)
LEMMA AgreesRestoring ==
  ASSUME NEW h, HeapOK(h, game), NEW w, Remembers(w, h.next_identity), NEW js, NEW cs,
         Agrees(js, cs, w, TheWorld(h), h)
  PROVE  Restoring(h, js, DOMAIN js, cs, DOMAIN cs, w)
<1>1. PICK v : v = TheWorld(h)
  OBVIOUS
<1>2. SUFFICES ASSUME NEW o \in DOMAIN w, Live(h, o)
               PROVE  /\ World(h, o)
                      /\ FieldsAgree(js, DOMAIN js, o, w[o][1], Of(h, o).properties)
                      /\ ElementsAgree(cs, DOMAIN cs, o, w[o][2], Of(h, o).elements)
  BY DEF Restoring
<1>3. AgreesAt(js, cs, w, v, o) /\ o \in Old(h.next_identity)
  BY <1>1, <1>2 DEF Agrees, Remembers
<1>4. World(h, o) /\ v[o][1] = Of(h, o).properties /\ v[o][2] = Of(h, o).elements
  BY <1>1, <1>3, WorldIs DEF AgreesAt
<1> QED BY <1>3, <1>4 DEF AgreesAt

(* What a journal that is put back leaves. *)
PutBack(h, k, hs, b, ps) ==
  /\ HeapOK(k, game) /\ Lasts(h, k) /\ (k.status = "live" => h.status = "live" /\ Comes(k, b))
  /\ \A es : es = <<>> => MemoryOK(k, es, es, hs, b, ps)

(* A journal that is put back leaves what was remembered, and the          *)
(* invariant with an empty journal.                                        *)
LEMMA MemoryReverted ==
  ASSUME NEW h, HeapOK(h, game), NEW js, NEW cs, NEW hs, Revertible(h, js, cs, hs),
         NEW b, NEW ps, MemoryOK(h, js, cs, hs, b, ps), DOMAIN hs = DOMAIN ps,
         NEW k, k = PropertiesReverted(ContainersReverted(h, cs), js)
  PROVE  PutBack(h, k, hs, b, ps)
<1> DEFINE m == ContainersReverted(h, cs)
<1>1. k = PropertiesReverted(m, js)
  OBVIOUS
<1>2. m = ContainersReverted(h, cs)
  OBVIOUS
<1> HIDE DEF m
<1>3. PICK none : none = {}
  OBVIOUS
<1>4. /\ IsFiniteSet(DOMAIN js) /\ DOMAIN js \in SUBSET Nat /\ IsFiniteSet(DOMAIN cs) /\ DOMAIN cs \in SUBSET Nat
      /\ ContainersOK(cs, h, game) /\ \A i \in DOMAIN js : PropertyOK(js[i], h, game)
  BY ListFacts DEF Revertible
<1>5. /\ Owning(h) /\ Remembers(b, h.next_identity)
      /\ \A i \in DOMAIN cs : cs[i].object \in DOMAIN b => cs[i].elements = b[cs[i].object][2]
      /\ \A i \in DOMAIN js : js[i].object \in DOMAIN b => js[i].previous = Value(b[js[i].object][1], js[i].property)
  BY DEF MemoryOK, Noted
<1>6. h.status = "live" => Restoring(h, js, DOMAIN js, cs, DOMAIN cs, b)
  BY <1>5, AgreesRestoring DEF MemoryOK
<1>7. Steady(h, m)
  BY <1>2, <1>4, ContainersKeep
<1>8. /\ Lasts(h, m) /\ Owning(m)
      /\ h.status = "live" => Restoring(m, js, DOMAIN js, cs, none, b)
  <2> DEFINE I == DOMAIN js
  <2>1. h.status = "live" => Restoring(h, js, I, cs, DOMAIN cs, b)
    BY <1>6
  <2> HIDE DEF I
  <2>2. Lasts(h, m) /\ Owning(m) /\ (h.status = "live" => Restoring(m, js, I, cs, none, b))
    BY <1>2, <1>3, <1>4, <1>5, <2>1, ContainersRestored
  <2> QED BY <2>2 DEF I
<1>9. /\ HeapOK(m, game) /\ m.next_identity = h.next_identity /\ (m.status = "live" => h.status = "live")
      /\ \A i \in DOMAIN js : PropertyOK(js[i], m, game)
  <2>1. HeapOK(m, game) /\ Descends(h, m) /\ m.next_identity = h.next_identity /\ (m.status = "live" => h.status = "live")
    BY <1>7 DEF Steady, Bears
  <2> QED BY <2>1, <1>4, PropertyLater
<1>10. /\ Keeps(m, k) /\ Lasts(m, k) /\ Owning(k)
       /\ k.status = "live" => Restoring(k, js, none, cs, none, b)
  BY <1>1, <1>3, <1>4, <1>5, <1>8, <1>9, PropertiesRestored
<1>11. HeapOK(k, game) /\ Lasts(h, k) /\ (k.status = "live" => h.status = "live")
  BY <1>8, <1>9, <1>10, LastsJoin DEF Keeps, Bears
<1>12. h.next_identity \in Int /\ k.next_identity \in Int /\ h.next_identity <= k.next_identity
  <2>1. game.identities \in Nat
    BY GameTypes DEF HeapOK
  <2> QED BY <2>1, <1>11 DEF HeapOK, Lasts
<1>13. Remembers(b, k.next_identity) /\ \A l \in DOMAIN ps : Remembers(ps[l], k.next_identity)
  BY <1>12, RemembersLater DEF MemoryOK
<1>14. k.status = "live" => Comes(k, b)
  BY <1>3, <1>10, <1>11, <1>13, RestoredComes
<1>15. ASSUME NEW es, es = <<>> PROVE MemoryOK(k, es, es, hs, b, ps)
  <2>1. DOMAIN es = {}
    BY <1>15, ListEmpty
  <2>2. Noted(es, es, b) /\ \A l \in DOMAIN hs : Noted(hs[l].properties, hs[l].containers, ps[l])
    BY <2>1 DEF Noted, MemoryOK
  <2>3. ASSUME k.status = "live"
        PROVE  /\ Agrees(es, es, b, TheWorld(k), k)
               /\ \A l \in DOMAIN hs :
                    Agrees(hs[l].properties, hs[l].containers, ps[l], After(hs, ps, b, l), k)
    <3>1. Agrees(es, es, b, TheWorld(k), k)
      BY <1>11, <1>13, <1>14, <1>15, <2>3, ComesAgrees
    <3>2. ASSUME NEW l \in DOMAIN hs
          PROVE  Agrees(hs[l].properties, hs[l].containers, ps[l], After(hs, ps, b, l), k)
      <4>1. Agrees(hs[l].properties, hs[l].containers, ps[l], After(hs, ps, b, l), h) /\ Remembers(ps[l], h.next_identity)
        BY <1>11, <2>3, <3>2 DEF MemoryOK
      <4> QED BY <4>1, <1>11, AgreesStays
    <3> QED BY <3>1, <3>2
  <2> QED BY <2>2, <2>3, <1>10, <1>13 DEF MemoryOK
<1> QED BY <1>11, <1>14, <1>15 DEF PutBack

(***************************************************************************)
(* Cycles that end, and cycles that are undone                             *)
(***************************************************************************)

(* The entries of the history after one more, but for the oldest. *)
Follow(hs, ps, b, ht, pt, c, l, d) ==
  \/ \E j \in DOMAIN hs : ht[l] = hs[j] /\ pt[l] = ps[j] /\ After(ht, pt, c, l) = After(hs, ps, b, j)
  \/ ht[l] = d /\ pt[l] = b /\ After(ht, pt, c, l) = c

(* They are the entries before, but maybe the first, and one more. *)
Taken(hs, ps, b, ht, pt, c, d) ==
  /\ DOMAIN ht = DOMAIN pt /\ \A l \in DOMAIN ht : Follow(hs, ps, b, ht, pt, c, l, d)
  /\ \A l \in DOMAIN pt : pt[l] = b \/ \E j \in DOMAIN ps : pt[l] = ps[j]

(* The history holds them once a cycle has ended. *)
LEMMA TakenEntries ==
  ASSUME game \in Games, NEW hs, Listed(hs), Len(hs) <= game.depth, NEW ps, Listed(ps), Len(ps) = Len(hs), NEW d, NEW b,
         NEW ht, ht = Append(Kept(hs), d), NEW pt, pt = Append(Kept(ps), b), NEW c
  PROVE  Taken(hs, ps, b, ht, pt, c, d)
<1>1. game.depth \in Nat \ {0}
  BY GameTypes
<1>2. PICK kh : kh = Kept(hs)
  OBVIOUS
<1>3. PICK kp : kp = Kept(ps)
  OBVIOUS
<1>4. PICK by : by = IF Len(hs) >= game.depth THEN 1 ELSE 0
  OBVIOUS
<1>5. Shifted(hs, kh, by) /\ Shifted(ps, kp, by)
  BY <1>1, <1>2, <1>3, <1>4, KeptShifted
<1>6. Appended(kh, d, ht) /\ Appended(kp, b, pt)
  BY <1>2, <1>3, <1>5, ListAppend DEF Shifted
<1>7. /\ Len(hs) \in Nat /\ DOMAIN hs = 1..Len(hs) /\ DOMAIN ps = 1..Len(hs)
      /\ Len(kh) \in Nat /\ DOMAIN kh = 1..Len(kh) /\ DOMAIN kp = 1..Len(kh)
      /\ Len(kp) = Len(kh) /\ Len(kh) = Len(hs) - by /\ by \in {0, 1}
  BY <1>4, <1>5, ListFacts DEF Shifted
<1>8. /\ DOMAIN ht = 1..(Len(kh) + 1) /\ DOMAIN pt = 1..(Len(kh) + 1) /\ Len(ht) = Len(kh) + 1
      /\ ht[Len(kh) + 1] = d /\ pt[Len(kh) + 1] = b
  BY <1>6, <1>7 DEF Appended
<1>9. \A l \in 1..Len(kh) : l + by \in DOMAIN hs /\ ht[l] = hs[l + by] /\ pt[l] = ps[l + by]
  BY <1>5, <1>6, <1>7 DEF Shifted, Appended
<1>10. ASSUME NEW l \in DOMAIN ht PROVE Follow(hs, ps, b, ht, pt, c, l, d)
  <2>1. CASE l = Len(kh) + 1
    <3>1. After(ht, pt, c, l) = c
      BY <1>8, <2>1 DEF After
    <3> QED BY <3>1, <1>8, <2>1 DEF Follow
  <2>2. CASE l \in 1..Len(kh)
    <3>1. After(ht, pt, c, l) = pt[l + 1]
      BY <1>7, <1>8, <2>2 DEF After
    <3>2. pt[l + 1] = After(hs, ps, b, l + by)
      <4>1. CASE l = Len(kh)
        <5>1. l + by = Len(hs)
          BY <4>1, <1>7
        <5>2. After(hs, ps, b, l + by) = b
          BY <5>1 DEF After
        <5> QED BY <5>2, <4>1, <1>8
      <4>2. CASE l # Len(kh)
        <5>1. l + 1 \in 1..Len(kh) /\ l + by # Len(hs) /\ (l + 1) + by = (l + by) + 1
          BY <4>2, <2>2, <1>7
        <5>2. After(hs, ps, b, l + by) = ps[(l + by) + 1]
          BY <5>1 DEF After
        <5> QED BY <5>1, <5>2, <1>9
      <4> QED BY <4>1, <4>2
    <3> QED BY <3>1, <3>2, <1>9, <2>2 DEF Follow
  <2> QED BY <2>1, <2>2, <1>7, <1>8
<1>11. ASSUME NEW l \in DOMAIN pt PROVE pt[l] = b \/ \E j \in DOMAIN ps : pt[l] = ps[j]
  <2>1. l = Len(kh) + 1 \/ l \in 1..Len(kh)
    BY <1>7, <1>8
  <2> QED BY <2>1, <1>7, <1>8, <1>9
<1> QED BY <1>8, <1>10, <1>11 DEF Taken

(* A journal is started. *)
LEMMA MemoryRestarted ==
  ASSUME NEW h, HeapOK(h, game), NEW js, NEW cs, NEW hs, Listed(hs), Len(hs) <= game.depth,
         NEW b, NEW ps, Listed(ps), Len(ps) = Len(hs), MemoryOK(h, js, cs, hs, b, ps),
         NEW c, c = TheWorld(h), NEW es, es = <<>>, NEW ht, NEW pt,
         \/ js = es /\ cs = es /\ ht = hs /\ pt = ps
         \/ ht = Append(Kept(hs), [properties |-> js, containers |-> cs]) /\ pt = Append(Kept(ps), b)
  PROVE  MemoryOK(h, es, es, ht, c, pt)
<1> DEFINE e == [properties |-> js, containers |-> cs]
<1>1. DOMAIN es = {}
  BY ListEmpty
<1>2. Remembers(c, h.next_identity) /\ Noted(es, es, c)
  BY <1>1, WorldIs DEF Noted
<1>3. Agrees(es, es, c, c, h)
  BY WorldAgrees
<1>e. e.properties = js /\ e.containers = cs
  OBVIOUS
<1>4. CASE js = es /\ cs = es /\ ht = hs /\ pt = ps
  <2>1. ASSUME h.status = "live", NEW l \in DOMAIN ht
        PROVE  Agrees(ht[l].properties, ht[l].containers, pt[l], After(ht, pt, c, l), h)
    <3>1. Agrees(hs[l].properties, hs[l].containers, ps[l], After(hs, ps, b, l), h) /\ Agrees(es, es, b, c, h)
      BY <1>4, <2>1 DEF MemoryOK
    <3>2. CASE l = Len(hs)
      <4>1. After(hs, ps, b, l) = b /\ After(ht, pt, c, l) = c
        BY <3>2, <1>4 DEF After
      <4>2. Agrees(hs[l].properties, hs[l].containers, ps[l], b, h)
        BY <3>1, <4>1
      <4> QED BY <3>1, <4>1, <4>2, <1>4, AgreesThrough
    <3>3. CASE l # Len(hs)
      <4>1. After(ht, pt, c, l) = After(hs, ps, b, l)
        BY <3>3, <1>4 DEF After
      <4> QED BY <3>1, <4>1, <1>4
    <3> QED BY <3>2, <3>3
  <2> QED BY <2>1, <1>2, <1>3, <1>4 DEF MemoryOK
<1>5. CASE ht = Append(Kept(hs), e) /\ pt = Append(Kept(ps), b)
  <2> HIDE DEF e
  <2>1. /\ DOMAIN ht = DOMAIN pt /\ \A l \in DOMAIN ht : Follow(hs, ps, b, ht, pt, c, l, e)
        /\ \A l \in DOMAIN pt : pt[l] = b \/ \E j \in DOMAIN ps : pt[l] = ps[j]
    <3>1. game \in Games
      BY DEF HeapOK
    <3>2. PICK d : d = e
      OBVIOUS
    <3>3. ht = Append(Kept(hs), d) /\ pt = Append(Kept(ps), b)
      BY <1>5, <3>2
    <3>4. Listed(hs) /\ Listed(ps) /\ Len(hs) <= game.depth /\ Len(ps) = Len(hs)
      OBVIOUS
    <3>5. Taken(hs, ps, b, ht, pt, c, d)
      BY ONLY <3>1, <3>3, <3>4, TakenEntries
    <3> QED BY <3>2, <3>5 DEF Taken
  <2>2. \A l \in DOMAIN pt : Remembers(pt[l], h.next_identity)
    BY <2>1 DEF MemoryOK
  <2>3. \A l \in DOMAIN ht : Noted(ht[l].properties, ht[l].containers, pt[l])
    BY <2>1, <1>e DEF Follow, MemoryOK
  <2>4. ASSUME h.status = "live", NEW l \in DOMAIN ht
        PROVE  Agrees(ht[l].properties, ht[l].containers, pt[l], After(ht, pt, c, l), h)
    <3>1. Agrees(js, cs, b, c, h)
      BY <2>4 DEF MemoryOK
    <3> QED BY <3>1, <2>1, <2>4, <1>e DEF Follow, MemoryOK
  <2> QED BY <2>2, <2>3, <2>4, <1>2, <1>3 DEF MemoryOK
<1> QED BY <1>4, <1>5

(* The last finished cycle is the open one again. *)
LEMMA MemoryPopped ==
  ASSUME NEW h, NEW es, es = <<>>, NEW hs, Listed(hs), hs # <<>>, NEW b, NEW ps, Listed(ps), Len(ps) = Len(hs),
         MemoryOK(h, es, es, hs, b, ps), NEW d, d = Last(hs), NEW w, w = Last(ps),
         NEW ht, ht = Front(hs), NEW pt, pt = Front(ps)
  PROVE  MemoryOK(h, d.properties, d.containers, ht, w, pt) /\ DOMAIN ht = DOMAIN pt
<1>1. Len(hs) \in Nat /\ Len(hs) >= 1 /\ DOMAIN hs = 1..Len(hs) /\ DOMAIN ps = 1..Len(hs) /\ ps # <<>>
  BY ListFacts
<1>2. Shortened(hs, ht, 0) /\ d = hs[Len(hs)] /\ Len(hs) \in DOMAIN hs
  BY ListFront
<1>3. Shortened(ps, pt, 0) /\ w = ps[Len(hs)]
  BY <1>1, ListFront
<1>4. /\ Len(ht) = Len(hs) - 1 /\ DOMAIN ht = 1..(Len(hs) - 1) /\ DOMAIN pt = 1..(Len(hs) - 1)
      /\ \A l \in DOMAIN ht : l \in DOMAIN hs /\ ht[l] = hs[l]
      /\ \A l \in DOMAIN pt : l \in DOMAIN ps /\ pt[l] = ps[l]
  BY <1>1, <1>2, <1>3 DEF Shortened
<1>5. ASSUME NEW l \in DOMAIN ht PROVE After(ht, pt, w, l) = After(hs, ps, b, l)
  <2>1. l # Len(hs) /\ l \in 1..(Len(hs) - 1)
    BY <1>1, <1>4
  <2>2. After(hs, ps, b, l) = ps[l + 1]
    BY <2>1 DEF After
  <2>3. CASE l = Len(ht)
    <3>1. l + 1 = Len(hs)
      BY <2>3, <1>1, <1>4
    <3> QED BY <3>1, <2>2, <2>3, <1>3 DEF After
  <2>4. CASE l # Len(ht)
    <3>1. l + 1 \in DOMAIN pt
      BY <2>1, <2>4, <1>1, <1>4
    <3> QED BY <3>1, <2>2, <2>4, <1>4 DEF After
  <2> QED BY <2>3, <2>4
<1>6. After(hs, ps, b, Len(hs)) = b
  BY DEF After
<1>7. ASSUME h.status = "live" PROVE Agrees(d.properties, d.containers, w, TheWorld(h), h)
  <2>1. Agrees(es, es, b, TheWorld(h), h)
    BY <1>7 DEF MemoryOK
  <2>2. Agrees(d.properties, d.containers, w, b, h)
    BY <1>2, <1>3, <1>6, <1>7 DEF MemoryOK
  <2> QED BY <2>1, <2>2, AgreesThrough
<1>8. ASSUME h.status = "live", NEW l \in DOMAIN ht
      PROVE  Agrees(ht[l].properties, ht[l].containers, pt[l], After(ht, pt, w, l), h)
  BY <1>4, <1>5, <1>8 DEF MemoryOK
<1>9. Remembers(w, h.next_identity) /\ \A l \in DOMAIN pt : Remembers(pt[l], h.next_identity)
  BY <1>1, <1>2, <1>3, <1>4 DEF MemoryOK
<1>10. /\ Noted(d.properties, d.containers, w)
       /\ \A l \in DOMAIN ht : Noted(ht[l].properties, ht[l].containers, pt[l])
  BY <1>1, <1>2, <1>3, <1>4 DEF MemoryOK
<1> QED BY <1>4, <1>7, <1>8, <1>9, <1>10 DEF MemoryOK

(***************************************************************************)
(* Writes that are noted                                                   *)
(***************************************************************************)

(* The store remembers, and writes down what is going to change. *)
Recalls ==
  /\ AllOK /\ MemoryOK(heap, journal, containers, history, before, past)
  /\ journalling \/ DOMAIN before = {}

(* The parts of the invariant that the steps need. *)
LEMMA RecallFacts ==
  ASSUME AllOK, MemoryOK(heap, journal, containers, history, before, past)
  PROVE  /\ HeapOK(heap, game) /\ DOMAIN history = DOMAIN past /\ Listed(journal) /\ Listed(containers)
         /\ Listed(history) /\ Listed(past) /\ Len(past) = Len(history) /\ Len(history) <= game.depth
         /\ MemoryOK(heap, journal, containers, history, before, past)
<1>1. /\ HeapOK(heap, game) /\ Listed(journal) /\ Listed(containers) /\ Listed(history) /\ Listed(past)
      /\ Len(past) = Len(history) /\ Len(history) <= game.depth
      /\ MemoryOK(heap, journal, containers, history, before, past)
  BY DEF AllOK, JournalsOK, OtherTypes
<1>2. DOMAIN history = 1..Len(history) /\ DOMAIN past = 1..Len(past)
  BY <1>1, ListFacts
<1> QED BY <1>1, <1>2

(* What is remembered of a live object that was not written to. *)
LEMMA NotNoted ==
  ASSUME Recalls, heap.status = "live", NEW o \in DOMAIN before, Live(heap, o)
  PROVE  /\ World(heap, o) /\ journalling
         /\ FieldsAgree(journal, DOMAIN journal, o, before[o][1], Of(heap, o).properties)
         /\ ElementsAgree(containers, DOMAIN containers, o, before[o][2], Of(heap, o).elements)
<1>1. PICK w : w = TheWorld(heap)
  OBVIOUS
<1>2. HeapOK(heap, game) /\ Agrees(journal, containers, before, w, heap) /\ o \in Old(heap.next_identity)
  BY <1>1 DEF Recalls, AllOK, MemoryOK, Remembers
<1>3. AgreesAt(journal, containers, before, w, o)
  BY <1>2 DEF Agrees
<1>4. World(heap, o)
  BY <1>1, <1>2, <1>3, WorldIs DEF AgreesAt
<1>5. w[o][1] = Of(heap, o).properties /\ w[o][2] = Of(heap, o).elements
  BY <1>1, <1>2, <1>4, WorldIs
<1> QED BY <1>3, <1>4, <1>5 DEF AgreesAt, Recalls

(* Two handles of one slot that are both live are one. *)
LEMMA SameHandle ==
  ASSUME NEW h, HeapOK(h, game), NEW o \in Old(h.next_identity), Live(h, o),
         NEW x \in Old(h.next_identity), Live(h, x), x.slot = o.slot
  PROVE  x = o
<1>1. HandleAt(h, o.slot) = o /\ HandleAt(h, x.slot) = x
  BY HandleFacts
<1> QED BY <1>1

(* A field is set: the first write to it in a cycle is noted, with the     *)
(* value the field had.                                                    *)
LEMMA SetRemembers ==
  ASSUME Recalls, HeapOK(heap', game), NEW o \in OfKind("plain"), NEW p \in Props, NEW v \in Values, Set(o, p, v)
  PROVE  MemoryOK(heap', journal', containers', history', before', past')
<1>1. /\ HeapOK(heap, game) /\ Live(heap, o) /\ o \in Old(heap.next_identity)
      /\ v \in Ref(heap.next_identity) /\ p \in game.props \cup {Field} /\ heap.status = "live"
  BY VisibleOld, ValuesOld DEF Recalls, AllOK, Props, OfKind, Set, May
<1>2. UNCHANGED <<containers, history, before, past>>
  BY DEF Set
<1>3. /\ DOMAIN history = DOMAIN past /\ Listed(journal)
      /\ MemoryOK(heap, journal, containers, history, before, past)
  BY RecallFacts DEF Recalls
<1>4. CASE UNCHANGED <<heap, journal>>
  <2>1. MemoryOK(heap, journal, containers, history, before, past)
    BY <1>3
  <2> QED BY <2>1, <1>2, <1>4
<1>5. CASE heap' = Assigned(heap, o, p, v) /\ journal' = journal /\ ~UNCHANGED <<heap, journal>>
  <2>1. PICK F : F = {p}
    OBVIOUS
  <2>2. PICK E : E = {}
    OBVIOUS
  <2>3. Calm(heap, heap', o, F, E)
    BY <1>1, <1>5, <2>1, AssignedCalm
  <2>4. Goes(journal, journal) /\ Goes(containers, containers) /\ Noted(journal, containers, before)
    BY <1>3 DEF Goes, MemoryOK
  <2>5. Covers(before, heap', o, F, E, journal, containers)
    <3>1. SUFFICES ASSUME NEW x \in DOMAIN before, x.slot = o.slot, Live(heap', x)
                   PROVE  \E i \in DOMAIN journal : journal[i].object = x /\ journal[i].property = p
      BY <2>1, <2>2 DEF Covers
    <3>2. x \in Old(heap.next_identity) /\ Lasts(heap, heap')
      BY <1>3, <2>3, CalmLasts DEF MemoryOK, Remembers
    <3>3. Live(heap, x)
      BY <1>1, <3>1, <3>2, LivedBefore
    <3>4. x = o
      BY <1>1, <3>1, <3>2, <3>3, SameHandle
    <3>5. World(heap, o) /\ journalling
      BY <1>1, <3>1, <3>3, <3>4, NotNoted
    <3> QED BY <1>5, <3>4, <3>5 DEF Set
  <2>6. MemoryOK(heap', journal, containers, history, before, past)
    BY <1>1, <1>3, <2>3, <2>4, <2>5, MemoryMoved
  <2> QED BY <2>6, <1>2, <1>5
<1>6. ASSUME heap' = Assigned(heap, o, p, v),
             \A n \in DOMAIN journal : journal[n].object # o \/ journal[n].property # p,
             NEW d, d.object = o, d.property = p, d.previous = Value(Of(heap, o).properties, p),
             journal' = Append(journal, d)
      PROVE  MemoryOK(heap', journal', containers', history', before', past')
  <2>1. PICK F : F = {p}
    OBVIOUS
  <2>2. PICK E : E = {}
    OBVIOUS
  <2>3. Calm(heap, heap', o, F, E)
    BY <1>1, <1>6, <2>1, AssignedCalm
  <2>4. Appended(journal, d, journal')
    BY <1>3, <1>6, ListAppend
  <2>5. Goes(journal, journal') /\ Goes(containers, containers)
    BY <2>4 DEF Goes, Appended
  <2>6. Noted(journal', containers, before)
    <3>1. SUFFICES ASSUME o \in DOMAIN before PROVE d.previous = Value(before[o][1], p)
      BY <1>3, <1>6, <2>4 DEF Appended, Noted, MemoryOK
    <3>2. FieldsAgree(journal, DOMAIN journal, o, before[o][1], Of(heap, o).properties)
      BY <1>1, <3>1, NotNoted
    <3>3. p \in Fields
      BY <1>1 DEF Fields
    <3> QED BY <1>6, <3>2, <3>3 DEF FieldsAgree
  <2>7. Covers(before, heap', o, F, E, journal', containers)
    <3>1. SUFFICES ASSUME NEW x \in DOMAIN before, x.slot = o.slot, Live(heap', x)
                   PROVE  x = o
      <4>1. \E i \in DOMAIN journal' : journal'[i].object = o /\ journal'[i].property = p
        <5>1. Len(journal) + 1 \in DOMAIN journal' /\ journal'[Len(journal) + 1] = d
          <6>1. Len(journal) \in Nat
            BY <1>3, ListFacts
          <6> QED BY <6>1, <2>4 DEF Appended
        <5> QED BY <5>1, <1>6
      <4> QED BY <2>1, <2>2, <3>1, <4>1 DEF Covers
    <3>2. x \in Old(heap.next_identity) /\ Lasts(heap, heap')
      BY <1>3, <2>3, CalmLasts DEF MemoryOK, Remembers
    <3>3. Live(heap, x)
      BY <1>1, <3>1, <3>2, LivedBefore
    <3> QED BY <1>1, <3>1, <3>2, <3>3, SameHandle
  <2>8. MemoryOK(heap', journal', containers, history, before, past)
    BY <1>1, <1>3, <2>3, <2>5, <2>6, <2>7, MemoryMoved
  <2> QED BY <2>8, <1>2
<1>7. ASSUME heap' = Assigned(heap, o, p, v),
             \A n \in DOMAIN journal : journal[n].object # o \/ journal[n].property # p,
             journal' = Append(journal, [object |-> o, property |-> p,
                               previous |-> IF p \in DOMAIN Of(heap, o).properties
                                            THEN Of(heap, o).properties[p] ELSE Absent])
      PROVE  MemoryOK(heap', journal', containers', history', before', past')
  <2>1. PICK d : d = [object |-> o, property |-> p,
                      previous |-> IF p \in DOMAIN Of(heap, o).properties
                                   THEN Of(heap, o).properties[p] ELSE Absent]
    OBVIOUS
  <2>2. d.object = o /\ d.property = p /\ d.previous = Value(Of(heap, o).properties, p)
    BY <2>1 DEF Value
  <2> QED BY <1>6, <1>7, <2>1, <2>2
<1> QED BY <1>4, <1>5, <1>7 DEF Set

(* A container that is saved before it changes. *)
LEMMA ChangedRemembers ==
  ASSUME Recalls, HeapOK(heap', game), heap.status = "live", NEW o \in Old(heap.next_identity), Live(heap, o),
         NEW stored, Alike(heap, stored), Still(heap, stored), NEW F, F = {}, NEW E, E # {},
         NEW after, HeapOK(after, game) => Calm(stored, after, o, F, E), Changed(o, stored, after)
  PROVE  MemoryOK(heap', journal', containers', history', before', past')
<1>1. UNCHANGED <<journal, history, before, past>>
  BY DEF Changed
<1>2. /\ HeapOK(heap, game) /\ DOMAIN history = DOMAIN past /\ Listed(containers)
      /\ MemoryOK(heap, journal, containers, history, before, past)
  BY RecallFacts DEF Recalls
<1>3. HeapOK(stored, game)
  BY DEF Alike
<1>4. CASE heap' = stored /\ containers' = containers
  <2>1. MemoryOK(heap', journal, containers, history, before, past)
    BY <1>2, <1>3, <1>4, MemoryStill
  <2> QED BY <1>1, <1>4, <2>1
<1>5. CASE heap' = after /\ ~(heap' = stored /\ containers' = containers)
  <2>1. Calm(heap, heap', o, F, E)
    BY <1>2, <1>3, <1>5, CalmAfter
  <2>2. Live(stored, o) /\ Of(stored, o).elements = Of(heap, o).elements
        /\ (World(heap, o) => World(stored, o))
    <3>1. Live(stored, o)
      BY <1>2, AlikeKeeps
    <3>2. Lasts(heap, stored)
      BY StillLasts
    <3>3. o.slot \in DOMAIN heap.records /\ SameButLife(heap.records[o.slot], stored.records[o.slot])
      BY DEF Live, Alike
    <3>4. Lasting(heap.records[o.slot], stored.records[o.slot])
      BY <1>2, <3>1, <3>2, LivedBefore
    <3> QED BY <3>1, <3>3, <3>4 DEF SameButLife, Lasting, World, Of
  <2>3. ASSUME NEW x \in DOMAIN before, x.slot = o.slot, Live(heap', x)
        PROVE  x = o /\ World(stored, o) /\ journalling
    <3>1. x \in Old(heap.next_identity) /\ Lasts(heap, heap')
      BY <1>2, <2>1, CalmLasts DEF MemoryOK, Remembers
    <3>2. Live(heap, x)
      BY <1>2, <2>3, <3>1, LivedBefore
    <3>3. x = o
      BY <1>2, <2>3, <3>1, <3>2, SameHandle
    <3> QED BY <2>2, <2>3, <3>2, <3>3, NotNoted
  <2>4. CASE containers' = containers /\ ~Unsaved(stored, o)
    <3>1. Goes(journal, journal) /\ Goes(containers, containers) /\ Noted(journal, containers, before)
      BY <1>2 DEF Goes, MemoryOK
    <3>2. Covers(before, heap', o, F, E, journal, containers)
      BY <2>3, <2>4 DEF Covers, Unsaved
    <3>3. MemoryOK(heap', journal, containers, history, before, past)
      BY <1>2, <2>1, <3>1, <3>2, MemoryMoved
    <3> QED BY <1>1, <2>4, <3>3
  <2>5. CASE Unsaved(stored, o) /\ containers' = Append(containers, Snapshot(stored, o))
    <3>1. PICK d : d = Snapshot(stored, o)
      OBVIOUS
    <3>2. d.object = o /\ d.elements = Of(heap, o).elements
      BY <2>2, <3>1 DEF Snapshot
    <3>3. Appended(containers, d, containers')
      BY <1>2, <2>5, <3>1, ListAppend
    <3>4. Goes(journal, journal) /\ Goes(containers, containers')
      BY <3>3 DEF Goes, Appended
    <3>5. Noted(journal, containers', before)
      <4>1. SUFFICES ASSUME o \in DOMAIN before PROVE d.elements = before[o][2]
        BY <1>2, <3>2, <3>3 DEF Appended, Noted, MemoryOK
      <4>2. ElementsAgree(containers, DOMAIN containers, o, before[o][2], Of(heap, o).elements)
        BY <4>1, NotNoted
      <4> QED BY <2>5, <3>2, <4>2 DEF ElementsAgree, Unsaved
    <3>6. \E i \in DOMAIN containers' : containers'[i].object = o
      <4>1. Len(containers) \in Nat
        BY <1>2, ListFacts
      <4>2. Len(containers) + 1 \in DOMAIN containers' /\ containers'[Len(containers) + 1] = d
        BY <3>3, <4>1 DEF Appended
      <4> QED BY <3>2, <4>2
    <3>7. Covers(before, heap', o, F, E, journal, containers')
      BY <2>3, <3>6 DEF Covers
    <3>8. MemoryOK(heap', journal, containers', history, before, past)
      BY <1>2, <2>1, <3>4, <3>5, <3>7, MemoryMoved
    <3> QED BY <1>1, <3>8
  <2> QED BY <1>5, <2>4, <2>5 DEF Changed
<1> QED BY <1>4, <1>5 DEF Changed

(***************************************************************************)
(* Containers that change                                                  *)
(***************************************************************************)

(* Only the elements of a record change. *)
LEMMA RefilledCalm ==
  ASSUME NEW h, HeapOK(h, game), NEW k, NEW o, o.slot \in DOMAIN h.records, NEW q,
         k.records = [h.records EXCEPT ![o.slot] = q], k.next_identity = h.next_identity,
         Refilled(h.records[o.slot], q), q.owned = h.records[o.slot].owned, NEW F, NEW E, E # {}
  PROVE  Calm(h, k, o, F, E)
<1>1. IsFun(h.records) /\ h.next_identity \in Int
  BY GameTypes DEF HeapOK, Shaped
<1>2. Altered(h, k, o.slot, q)
  BY <1>1 DEF Altered, Refilled, IsFun
<1>3. Retains(h.records[o.slot], q, TRUE, F, E)
  BY DEF Retains, Refilled
<1>4. Owning(h) => \A p \in DOMAIN q.owned : q.properties[p] = q.owned[p]
  BY DEF Owning, Refilled
<1> QED BY <1>1, <1>2, <1>3, <1>4, AlteredCalm

(* resource_failure. *)
LEMMA FailedCalm ==
  ASSUME NEW h, HeapOK(h, game), NEW k, k = Failed(h), NEW o, NEW F, NEW E
  PROVE  Calm(h, k, o, F, E)
BY FailedFirm, StillCalm

(* vector_append. *)
LEMMA VectorAppendRemembers ==
  ASSUME Recalls, game' = game, NEW o \in OfKind("vector"), NEW v \in Values, VectorAppend(o, v)
  PROVE  MemoryOK(heap', journal', containers', history', before', past')
<1>0. HeapOK(heap', game) /\ AllOK
  <2>1. AllOK' BY VectorAppendOK DEF Recalls
  <2> QED BY <2>1 DEF AllOK, Recalls
<1>1. o \in Visible(heap) /\ Of(heap, o).kind = "vector" /\ v \in Ref(heap.next_identity)
      /\ o \in Old(heap.next_identity) /\ Live(heap, o) /\ heap.status = "live"
  <2>1. heap.status = "live" BY DEF VectorAppend, May
  <2> QED BY <1>0, <2>1, ValuesOld, VisibleOld DEF OfKind, AllOK
<1> DEFINE stored == Stored(heap, o, v)
           r == Of(stored, o)
           l == Cardinality(DOMAIN r.elements)
           more == IF l + 1 > r.capacity THEN (l + 1) - r.capacity ELSE 0
           after == IF more > PropertyLimit - stored.charged THEN Failed(stored)
                    ELSE [stored EXCEPT !.records[o.slot].elements = With(@, l + 1, v),
                                        !.records[o.slot].capacity = @ + more, !.charged = @ + more]
<1>2. Changed(o, stored, after)
  BY ONLY VectorAppend(o, v), Zenon DEF VectorAppend
<1>3. Still(heap, stored) /\ Alike(heap, stored) /\ HeapOK(stored, game)
  <2> HIDE DEF stored
  <2>1. \A x : x = Stored(heap, o, v) => Still(heap, x) /\ Alike(heap, x) /\ HeapOK(x, game)
    BY <1>0, StoredWell
  <2> QED BY <2>1 DEF stored
<1>4. r = stored.records[o.slot] BY DEF Of
<1> HIDE DEF stored, r
<1>5. Shaped(stored) /\ o.slot \in DOMAIN stored.records /\ RecordOK(r, stored.next_identity, game)
  BY <1>0, <1>1, <1>3, <1>4, StoredContainer
<1> HIDE DEF l, more
<1>6. PICK F : F = {} OBVIOUS
<1>7. PICK E : E = {0} OBVIOUS
<1>8. Calm(stored, after, o, F, E)
  <2>1. CASE more > PropertyLimit - stored.charged
    BY <2>1, <1>3, FailedCalm
  <2>2. CASE ~(more > PropertyLimit - stored.charged)
    <3>1. after = [stored EXCEPT !.records[o.slot].elements = With(@, l + 1, v),
                       !.records[o.slot].capacity = @ + more, !.charged = @ + more]
      BY <2>2
    <3> HIDE DEF after
    <3>2. PICK q : q = [r EXCEPT !.elements = With(r.elements, l + 1, v), !.capacity = r.capacity + more] OBVIOUS
    <3>3. after.records = [stored.records EXCEPT ![o.slot] = q] /\ after.next_identity = stored.next_identity
      BY ONLY <1>4, <1>5, <3>1, <3>2 DEF Shaped
    <3>4. Refilled(r, q) /\ q.owned = r.owned
      BY <1>5, <3>2 DEF Refilled, RecordOK
    <3> QED BY <1>3, <1>4, <1>5, <1>7, <3>3, <3>4, RefilledCalm
  <2> QED BY <2>1, <2>2
<1> HIDE DEF after
<1> QED BY <1>0, <1>1, <1>2, <1>3, <1>6, <1>7, <1>8, ChangedRemembers

(* vector_set. *)
LEMMA VectorSetRemembers ==
  ASSUME Recalls, game' = game, NEW o \in OfKind("vector"), NEW v \in Values,
         NEW n \in DOMAIN Of(heap, o).elements, VectorSet(o, n, v)
  PROVE  MemoryOK(heap', journal', containers', history', before', past')
<1>0. HeapOK(heap', game) /\ AllOK
  <2>1. AllOK' BY VectorSetOK DEF Recalls
  <2> QED BY <2>1 DEF AllOK, Recalls
<1>1. o \in Visible(heap) /\ Of(heap, o).kind = "vector" /\ v \in Ref(heap.next_identity)
      /\ o \in Old(heap.next_identity) /\ Live(heap, o) /\ heap.status = "live"
  <2>1. heap.status = "live" BY DEF VectorSet, May
  <2> QED BY <1>0, <2>1, ValuesOld, VisibleOld DEF OfKind, AllOK
<1> DEFINE stored == Stored(heap, o, v)
           r == Of(stored, o)
           after == [stored EXCEPT !.records[o.slot].elements[n] = v]
<1>2. Changed(o, stored, after)
  BY DEF VectorSet
<1>3. Still(heap, stored) /\ Alike(heap, stored) /\ HeapOK(stored, game)
  <2> HIDE DEF stored
  <2>1. \A x : x = Stored(heap, o, v) => Still(heap, x) /\ Alike(heap, x) /\ HeapOK(x, game)
    BY <1>0, StoredWell
  <2> QED BY <2>1 DEF stored
<1>4. r = stored.records[o.slot] BY DEF Of
<1> HIDE DEF stored, r
<1>5. Shaped(stored) /\ o.slot \in DOMAIN stored.records /\ RecordOK(r, stored.next_identity, game)
  BY <1>0, <1>1, <1>3, <1>4, StoredContainer
<1>6. PICK F : F = {} OBVIOUS
<1>7. PICK E : E = {0} OBVIOUS
<1>8. Calm(stored, after, o, F, E)
  <2>1. after = [stored EXCEPT !.records[o.slot].elements[n] = v] OBVIOUS
  <2> HIDE DEF after
  <2>2. PICK q : q = [r EXCEPT !.elements = [r.elements EXCEPT ![n] = v]] OBVIOUS
  <2>3. after.records = [stored.records EXCEPT ![o.slot] = q] /\ after.next_identity = stored.next_identity
    BY ONLY <1>4, <1>5, <2>1, <2>2 DEF Shaped
  <2>4. Refilled(r, q) /\ q.owned = r.owned
    BY <1>5, <2>2 DEF Refilled, RecordOK
  <2> QED BY <1>3, <1>4, <1>5, <1>7, <2>3, <2>4, RefilledCalm
<1> HIDE DEF after
<1> QED BY <1>0, <1>1, <1>2, <1>3, <1>6, <1>7, <1>8, ChangedRemembers

(* vector_remove_range. *)
LEMMA VectorRemoveRemembers ==
  ASSUME Recalls, game' = game, NEW o \in OfKind("vector"), NEW m \in DOMAIN Of(heap, o).elements,
         NEW n \in m..Cardinality(DOMAIN Of(heap, o).elements), VectorRemove(o, m, n)
  PROVE  MemoryOK(heap', journal', containers', history', before', past')
<1>0. HeapOK(heap', game) /\ AllOK
  <2>1. AllOK' BY VectorRemoveOK DEF Recalls
  <2> QED BY <2>1 DEF AllOK, Recalls
<1>1. o \in Visible(heap) /\ o \in Old(heap.next_identity) /\ Live(heap, o) /\ heap.status = "live"
  <2>1. heap.status = "live" BY DEF VectorRemove, May
  <2> QED BY <1>0, <2>1, VisibleOld DEF OfKind, AllOK
<1> DEFINE r == Of(heap, o)
           left == Cardinality(DOMAIN r.elements) - (n - m + 1)
           kept(s) == [x \in 1..left |-> s[IF x < m THEN x ELSE x + n - m + 1]]
           e == kept(r.elements)
           after == [heap EXCEPT !.records[o.slot].elements = kept(@)]
<1>2. Changed(o, heap, after)
  BY DEF VectorRemove
<1>3. Alike(heap, heap) /\ Still(heap, heap) /\ HeapOK(heap, game)
  BY <1>0, AlikeSelf, StillSelf DEF AllOK
<1>4. r = heap.records[o.slot] BY DEF Of
<1>5. Shaped(heap) /\ o.slot \in DOMAIN heap.records /\ RecordOK(r, heap.next_identity, game)
  <2> HIDE DEF r
  <2> QED BY <1>0, <1>1, <1>3, <1>4, StoredContainer
<1>6. PICK F : F = {} OBVIOUS
<1>7. PICK E : E = {0} OBVIOUS
<1>8. Calm(heap, after, o, F, E)
  <2>1. after = [heap EXCEPT !.records[o.slot].elements = e] BY <1>4, <1>5 DEF Shaped
  <2> HIDE DEF after, r, e
  <2>2. PICK q : q = [r EXCEPT !.elements = e] OBVIOUS
  <2>3. after.records = [heap.records EXCEPT ![o.slot] = q] /\ after.next_identity = heap.next_identity
    BY ONLY <1>4, <1>5, <2>1, <2>2 DEF Shaped
  <2>4. Refilled(r, q) /\ q.owned = r.owned
    BY <1>5, <2>2 DEF Refilled, RecordOK
  <2> QED BY <1>3, <1>4, <1>5, <1>7, <2>3, <2>4, RefilledCalm
<1> HIDE DEF after
<1> QED BY <1>0, <1>1, <1>2, <1>3, <1>6, <1>7, <1>8, ChangedRemembers

(* lookup_set. *)
LEMMA LookupSetRemembers ==
  ASSUME Recalls, game' = game, NEW o \in OfKind("table"), NEW v \in Values,
         NEW k \in Keys \cup OfKind("plain") \cup OfKind("table"), LookupSet(o, k, v)
  PROVE  MemoryOK(heap', journal', containers', history', before', past')
<1>0. HeapOK(heap', game) /\ AllOK
  <2>1. AllOK' BY LookupSetOK DEF Recalls
  <2> QED BY <2>1 DEF AllOK, Recalls
<1>1. o \in Visible(heap) /\ Of(heap, o).kind = "table" /\ v \in Ref(heap.next_identity)
      /\ o \in Old(heap.next_identity) /\ Live(heap, o) /\ heap.status = "live"
  <2>1. heap.status = "live" BY DEF LookupSet, May
  <2> QED BY <1>0, <2>1, ValuesOld, VisibleOld DEF OfKind, AllOK
<1> DEFINE stored == Stored(heap, o, v)
           keyed == IF k \in Keys THEN stored ELSE Stored(stored, o, k)
           r == Of(keyed, o)
           more == IF k \in DOMAIN r.elements THEN 0 ELSE 2
           after == IF more > PropertyLimit - keyed.charged THEN Failed(keyed)
               ELSE [keyed EXCEPT !.records[o.slot].elements = With(@, k, v),
                                  !.charged = @ + more]
<1>2. Changed(o, stored, after)
  BY DEF LookupSet
<1>3. Still(heap, stored) /\ Alike(heap, stored) /\ HeapOK(stored, game)
  <2> HIDE DEF stored
  <2>1. \A x : x = Stored(heap, o, v) => Still(heap, x) /\ Alike(heap, x) /\ HeapOK(x, game)
    BY <1>0, StoredWell
  <2> QED BY <2>1 DEF stored
<1>4. Still(stored, keyed) /\ Alike(stored, keyed)
  <2>1. CASE k \in Keys
    <3>1. keyed = stored BY <2>1
    <3> HIDE DEF stored, keyed
    <3> QED BY <3>1, <1>3, StillSelf, AlikeSelf
  <2>2. CASE k \notin Keys
    <3>1. keyed = Stored(stored, o, k) BY <2>2
    <3> HIDE DEF stored, keyed
    <3> QED BY <3>1, <1>3, StoredAlike, StoredFirm
  <2> QED BY <2>1, <2>2
<1>5. r = keyed.records[o.slot] BY DEF Of
<1> HIDE DEF stored, keyed, r
<1>6. Alike(heap, keyed) /\ HeapOK(keyed, game)
  BY <1>3, <1>4, AlikeJoin DEF Alike
<1>7. Shaped(keyed) /\ o.slot \in DOMAIN keyed.records /\ RecordOK(r, keyed.next_identity, game)
  BY <1>0, <1>1, <1>5, <1>6, StoredContainer
<1> HIDE DEF more
<1>8. PICK F : F = {} OBVIOUS
<1>9. PICK E : E = {0} OBVIOUS
<1>10. Calm(keyed, after, o, F, E)
  <2>1. CASE more > PropertyLimit - keyed.charged
    BY <2>1, <1>6, FailedCalm
  <2>2. CASE ~(more > PropertyLimit - keyed.charged)
    <3>1. after = [keyed EXCEPT !.records[o.slot].elements = With(@, k, v), !.charged = @ + more]
      BY <2>2
    <3> HIDE DEF after
    <3>2. PICK q : q = [r EXCEPT !.elements = With(r.elements, k, v)] OBVIOUS
    <3>3. after.records = [keyed.records EXCEPT ![o.slot] = q] /\ after.next_identity = keyed.next_identity
      BY ONLY <1>5, <1>7, <3>1, <3>2 DEF Shaped
    <3>4. Refilled(r, q) /\ q.owned = r.owned
      BY <1>7, <3>2 DEF Refilled, RecordOK
    <3> QED BY <1>5, <1>6, <1>7, <1>9, <3>3, <3>4, RefilledCalm
  <2> QED BY <2>1, <2>2
<1> HIDE DEF after
<1>11. HeapOK(after, game) => Calm(stored, after, o, F, E)
  BY <1>3, <1>4, <1>6, <1>10, CalmAfter
<1> QED BY <1>0, <1>1, <1>2, <1>3, <1>8, <1>9, <1>11, ChangedRemembers

(***************************************************************************)
(* The command cycle                                                       *)
(***************************************************************************)

(* What the phases of a cycle say of the journals. *)
CycleOK ==
  /\ phase \in {"startup", "between"} => journal = <<>> /\ containers = <<>>
  /\ phase = "startup" => ~journalling /\ DOMAIN before = {}
  /\ phase \in {"open", "failed"} /\ "undo" \notin Calls => journalling

(* A game that stops after an undo, or calls none. *)
UndoesLast == QuietUndo \/ "undo" \notin Calls

(* Such a game calls only while its writes are noted, or while there is    *)
(* nothing to remember.                                                    *)
LEMMA CallRecalls ==
  ASSUME AllOK, MemoryOK(heap, journal, containers, history, before, past), CycleOK, UndoesLast, NEW c, May(c)
  PROVE  Recalls
BY DEF Recalls, CycleOK, UndoesLast, May

(* Steps that write nothing down. *)
LEMMA StillRemembers ==
  ASSUME AllOK, MemoryOK(heap, journal, containers, history, before, past),
         HeapOK(heap', game), Still(heap, heap'), heap.status = "live",
         UNCHANGED <<journal, containers, history, before, past>>
  PROVE  MemoryOK(heap', journal', containers', history', before', past')
<1>1. /\ HeapOK(heap, game) /\ DOMAIN history = DOMAIN past
      /\ MemoryOK(heap, journal, containers, history, before, past)
  BY RecallFacts
<1>2. MemoryOK(heap', journal, containers, history, before, past)
  BY <1>1, MemoryStill
<1> QED BY <1>2

(* What is left of a cycle that ends. *)
LEMMA TakenRemembers ==
  ASSUME AllOK, HeapOK(heap', game), MemoryOK(heap', journal, containers, history, before, past),
         Listed(history), Listed(past), Len(past) = Len(history), Len(history) <= game.depth,
         TakeJournals, before' = TheWorld(heap')
  PROVE  MemoryOK(heap', journal', containers', history', before', past')
<1>1. PICK es : es = <<>>
  OBVIOUS
<1>2. journal' = es /\ containers' = es
  BY <1>1 DEF TakeJournals
<1>3. \/ journal = es /\ containers = es /\ history' = history /\ past' = past
      \/ /\ history' = Append(Kept(history), [properties |-> journal, containers |-> containers])
         /\ past' = Append(Kept(past), before)
  BY <1>1 DEF TakeJournals
<1>4. MemoryOK(heap', es, es, history', before', past')
  BY <1>1, <1>3, MemoryRestarted
<1> QED BY <1>2, <1>4

(* Begin. *)
LEMMA BeginRemembers ==
  ASSUME AllOK, MemoryOK(heap, journal, containers, history, before, past), CycleOK, Begin
  PROVE  MemoryOK(heap', journal', containers', history', before', past')
<1>1. PICK es : es = <<>>
  OBVIOUS
<1>2. /\ journal = es /\ containers = es
      /\ UNCHANGED <<heap, journal, containers, history, past>> /\ before' = TheWorld(heap)
  BY <1>1 DEF Begin, CycleOK
<1>3. /\ HeapOK(heap, game) /\ Listed(history) /\ Listed(past) /\ Len(past) = Len(history)
      /\ Len(history) <= game.depth
  BY RecallFacts
<1>4. MemoryOK(heap, es, es, history, before, past)
  BY <1>2
<1>5. MemoryOK(heap, es, es, history, before', past)
  BY <1>1, <1>2, <1>3, <1>4, MemoryRestarted
<1> QED BY <1>2, <1>5

(* A savepoint. *)
LEMMA SavepointRemembers ==
  ASSUME AllOK, MemoryOK(heap, journal, containers, history, before, past), Savepoint
  PROVE  MemoryOK(heap', journal', containers', history', before', past')
<1>1. /\ HeapOK(heap, game) /\ Listed(history) /\ Listed(past) /\ Len(past) = Len(history)
      /\ Len(history) <= game.depth
  BY RecallFacts
<1>2. heap' = heap /\ TakeJournals /\ before' = TheWorld(heap')
  BY DEF Savepoint
<1>3. HeapOK(heap', game) /\ MemoryOK(heap', journal, containers, history, before, past)
  BY <1>1, <1>2
<1> QED BY <1>1, <1>2, <1>3, TakenRemembers

(* The end of a cycle. *)
LEMMA EndRemembers ==
  ASSUME AllOK, MemoryOK(heap, journal, containers, history, before, past), HeapOK(heap', game), End
  PROVE  MemoryOK(heap', journal', containers', history', before', past')
<1>1. /\ HeapOK(heap, game) /\ Listed(history) /\ Listed(past) /\ Len(past) = Len(history)
      /\ Len(history) <= game.depth /\ DOMAIN history = DOMAIN past
  BY RecallFacts
<1>2. heap' = TurnReleased(heap) /\ TakeJournals /\ before' = TheWorld(heap') /\ heap.status = "live"
  BY DEF End, Outside
<1>3. Still(heap, heap')
  BY <1>1, <1>2, TurnReleasedFirm
<1>4. MemoryOK(heap', journal, containers, history, before, past)
  BY <1>1, <1>2, <1>3, MemoryStill
<1> QED BY <1>1, <1>2, <1>4, TakenRemembers

(* What a step that puts back leaves. *)
Result ==
  /\ MemoryOK(heap', journal', containers', history', before', past')
  /\ restored' # Absent /\ heap'.status = "live" => Comes(heap', restored')

(* Rollback. *)
LEMMA RollbackRestores ==
  ASSUME AllOK, MemoryOK(heap, journal, containers, history, before, past), Rollback
  PROVE  Result
<1>1. PICK es : es = <<>>
  OBVIOUS
<1>2. /\ journal' = es /\ containers' = es /\ history' = history /\ before' = before /\ past' = past
      /\ restored' = before /\ heap' = PropertiesReverted(ContainersReverted(heap, containers), journal)
  BY <1>1 DEF Rollback
<1>3. HeapOK(heap, game) /\ Revertible(heap, journal, containers, history)
  BY DEF AllOK, JournalsOK, Revertible
<1>4. DOMAIN history = DOMAIN past
  BY RecallFacts
<1>5. PutBack(heap, heap', history, before, past)
  BY <1>2, <1>3, <1>4, MemoryReverted
<1>6. MemoryOK(heap', es, es, history, before, past) /\ (heap'.status = "live" => Comes(heap', before))
  BY <1>1, <1>5 DEF PutBack
<1> QED BY <1>2, <1>6 DEF Result

(* Undo: the open cycle is put back, and then the last finished one. *)
LEMMA UndoRestores ==
  ASSUME AllOK, MemoryOK(heap, journal, containers, history, before, past), Undo
  PROVE  Result
<1> DEFINE put == PropertiesReverted(ContainersReverted(heap, containers), journal)
<1>1. PICK es : es = <<>>
  OBVIOUS
<1>2. /\ journal' = es /\ containers' = es /\ before' = restored'
      /\ \/ history = <<>> /\ heap' = put /\ restored' = before /\ history' = history /\ past' = past
         \/ /\ history # <<>> /\ history' = Front(history) /\ past' = Front(past) /\ restored' = Last(past)
            /\ heap' = PropertiesReverted(ContainersReverted(put, Last(history).containers), Last(history).properties)
  BY <1>1 DEF Undo
<1>3. HeapOK(heap, game) /\ Revertible(heap, journal, containers, history)
  BY DEF AllOK, JournalsOK, Revertible
<1>4. DOMAIN history = DOMAIN past /\ Listed(history) /\ Listed(past) /\ Len(past) = Len(history)
  BY RecallFacts
<1>5. PutBack(heap, put, history, before, past) /\ Reverts(heap, put, history)
  <2>1. put = PropertiesReverted(ContainersReverted(heap, containers), journal) OBVIOUS
  <2> HIDE DEF put
  <2> QED BY <1>3, <1>4, <2>1, MemoryReverted, RevertedOK
<1> HIDE DEF put
<1>6. /\ HeapOK(put, game) /\ MemoryOK(put, es, es, history, before, past)
      /\ (put.status = "live" => Comes(put, before)) /\ Revertible(put, es, es, history)
  BY <1>1, <1>5 DEF PutBack, Reverts
<1>7. CASE history = <<>> /\ heap' = put /\ restored' = before /\ history' = history /\ past' = past
  BY <1>2, <1>6, <1>7 DEF Result
<1>8. CASE /\ history # <<>> /\ history' = Front(history) /\ past' = Front(past) /\ restored' = Last(past)
           /\ heap' = PropertiesReverted(ContainersReverted(put, Last(history).containers), Last(history).properties)
  <2>1. PICK c : c = Last(history) OBVIOUS
  <2>2. Revertible(put, c.properties, c.containers, history')
    BY <1>6, <1>8, <2>1, LastEntry
  <2>3. MemoryOK(put, c.properties, c.containers, history', restored', past') /\ DOMAIN history' = DOMAIN past'
    BY <1>1, <1>4, <1>6, <1>8, <2>1, MemoryPopped
  <2>4. heap' = PropertiesReverted(ContainersReverted(put, c.containers), c.properties)
    BY <1>8, <2>1
  <2>5. PutBack(put, heap', history', restored', past')
    BY <1>6, <2>2, <2>3, <2>4, MemoryReverted
  <2>6. MemoryOK(heap', es, es, history', restored', past') /\ (heap'.status = "live" => Comes(heap', restored'))
    BY <1>1, <2>5 DEF PutBack
  <2> QED BY <1>2, <2>6 DEF Result
<1> QED BY <1>2, <1>7, <1>8

(* A call leaves the cycle as it is. *)
LEMMA CycleCalled ==
  ASSUME CycleOK, game' = game, UNCHANGED <<phase, journalling, before>>, NEW c, May(c),
         ~journalling => UNCHANGED <<journal, containers>>
  PROVE  CycleOK'
<1>1. Calls' = Calls
  BY DEF Calls
<1>2. phase \notin {"between"}
  BY DEF May
<1> QED BY <1>1, <1>2 DEF CycleOK

(* So does a step that notes nothing. *)
LEMMA CycleStays ==
  ASSUME CycleOK, game' = game, UNCHANGED <<phase, journalling, before, journal, containers>>
  PROVE  CycleOK'
BY DEF CycleOK, Calls

(* The steps of the cycle itself. *)
LEMMA CycleMoves ==
  ASSUME CycleOK, game' = game, Begin \/ End \/ Savepoint \/ Rollback \/ Undo
  PROVE  CycleOK'
<1>1. Calls' = Calls
  BY DEF Calls
<1>2. CASE Begin
  BY <1>1, <1>2 DEF Begin, CycleOK
<1>3. CASE End
  BY <1>1, <1>3 DEF End, TakeJournals, CycleOK
<1>4. CASE Savepoint
  BY <1>1, <1>4 DEF Savepoint, TakeJournals, CycleOK
<1>5. CASE Rollback
  BY <1>1, <1>5 DEF Rollback, CycleOK
<1>6. CASE Undo
  BY <1>1, <1>6 DEF Undo, CycleOK
<1> QED BY <1>2, <1>3, <1>4, <1>5, <1>6

(***************************************************************************)
(* What was there when the cycle began comes back                          *)
(***************************************************************************)
(* What the store remembers goes on being right. *)
Remembering ==
  /\ MemoryOK(heap, journal, containers, history, before, past) /\ CycleOK
  /\ restored # Absent /\ heap.status = "live" => Comes(heap, restored)

(* A call that may note something. *)
LEMMA CalledRemembers ==
  ASSUME Remembering, game' = game, MemoryOK(heap', journal', containers', history', before', past'),
         NEW c, May(c), UNCHANGED <<phase, journalling, before>>,
         ~journalling => UNCHANGED <<journal, containers>>
  PROVE  Result /\ CycleOK'
<1>1. restored' = Absent
  BY DEF May
<1>2. CycleOK'
  BY CycleCalled DEF Remembering
<1> QED BY <1>1, <1>2 DEF Result

(* A step that notes nothing. *)
LEMMA StayedRemembers ==
  ASSUME AllOK, Remembering, game' = game, HeapOK(heap', game), Still(heap, heap'), heap.status = "live",
         UNCHANGED <<journal, containers, history, before, past, phase, journalling>>, restored' = Absent
  PROVE  Result /\ CycleOK'
<1>1. MemoryOK(heap', journal', containers', history', before', past')
  BY StillRemembers DEF Remembering
<1>2. CycleOK'
  BY CycleStays DEF Remembering
<1> QED BY <1>1, <1>2 DEF Result

(* What each step does. *)
LEMMA FrameRemembers ==
  ASSUME AllOK, Remembering, game' = game, HeapOK(heap', game),
         FinishPublished \/ Unwind \/ Throw \/ \E e \in exceptions : Claim(e) \/ Release(e)
  PROVE  Result /\ CycleOK'
<1>1. Still(heap, heap)
  BY StillSelf DEF AllOK
<1>2. CASE FinishPublished
  <2>1. /\ UNCHANGED <<journal, containers, history, before, past, phase, journalling>> /\ restored' = Absent
        /\ heap.status = "live"
    BY <1>2 DEF FinishPublished, journals
  <2>2. Still(heap, heap') BY <1>2, FinishPublishedFirm
  <2> QED BY <2>1, <2>2, StayedRemembers
<1>3. CASE Unwind
  <2>1. /\ UNCHANGED <<journal, containers, history, before, past, phase, journalling>> /\ restored' = Absent
        /\ heap.status = "live"
    BY <1>3 DEF Unwind, journals
  <2>2. Still(heap, heap') BY <1>3, UnwindFirm
  <2> QED BY <2>1, <2>2, StayedRemembers
<1>4. CASE Throw
  <2>1. /\ UNCHANGED <<heap, journal, containers, history, before, past, phase, journalling>> /\ restored' = Absent
        /\ heap.status = "live"
    BY <1>4 DEF Throw, journals
  <2>2. Still(heap, heap') BY <1>1, <2>1
  <2> QED BY <2>1, <2>2, StayedRemembers
<1>5. ASSUME NEW e \in exceptions, Claim(e) PROVE Result /\ CycleOK'
  <2>1. /\ UNCHANGED <<heap, journal, containers, history, before, past, phase, journalling>> /\ restored' = Absent
        /\ heap.status = "live"
    BY <1>5 DEF Claim, journals
  <2>2. Still(heap, heap') BY <1>1, <2>1
  <2> QED BY <2>1, <2>2, StayedRemembers
<1>6. ASSUME NEW e \in exceptions, Release(e) PROVE Result /\ CycleOK'
  <2>1. /\ UNCHANGED <<journal, containers, history, before, past, phase, journalling>> /\ restored' = Absent
        /\ heap.status = "live"
    BY <1>6 DEF Release, journals
  <2>2. Still(heap, heap') BY <1>6, ReleaseFirm
  <2> QED BY <2>1, <2>2, StayedRemembers
<1> QED BY <1>2, <1>3, <1>4, <1>5, <1>6

(* Records are made, related and despawned. *)
LEMMA MadeRemembers ==
  ASSUME AllOK, Remembering, game' = game, HeapOK(heap', game),
         \/ \E owner \in {"Published", "Owned"} : BeginConstruction(owner)
         \/ NewContainer("table", 0) \/ \E n \in 0..1 : NewContainer("vector", n)
         \/ \E x, y \in OfKind("plain") : Relate(x, y)
         \/ \E o \in Visible(heap) : Despawn(o)
  PROVE  Result /\ CycleOK'
<1>1. ASSUME NEW owner \in {"Published", "Owned"}, BeginConstruction(owner) PROVE Result /\ CycleOK'
  <2>1. /\ UNCHANGED <<journal, containers, history, before, past, phase, journalling>> /\ restored' = Absent
        /\ heap.status = "live"
    BY <1>1 DEF BeginConstruction, May, journals
  <2>2. Still(heap, heap') BY <1>1, BeginConstructionFirm
  <2> QED BY <2>1, <2>2, StayedRemembers
<1>2. ASSUME NEW kind \in {"vector", "table"}, NEW c \in 0..1, NewContainer(kind, c), kind = "table" => c = 0
      PROVE  Result /\ CycleOK'
  <2>1. /\ UNCHANGED <<journal, containers, history, before, past, phase, journalling>> /\ restored' = Absent
        /\ heap.status = "live"
    BY <1>2 DEF NewContainer, May, journals
  <2>2. Still(heap, heap') BY <1>2, NewContainerFirm
  <2> QED BY <2>1, <2>2, StayedRemembers
<1>3. ASSUME NEW x \in OfKind("plain"), NEW y \in OfKind("plain"), Relate(x, y) PROVE Result /\ CycleOK'
  <2>1. /\ UNCHANGED <<journal, containers, history, before, past, phase, journalling>> /\ restored' = Absent
        /\ heap.status = "live"
    BY <1>3 DEF Relate, May, journals
  <2>2. Still(heap, heap') BY <1>3, RelateFirm
  <2> QED BY <2>1, <2>2, StayedRemembers
<1>4. ASSUME NEW o \in Visible(heap), Despawn(o) PROVE Result /\ CycleOK'
  <2>1. /\ UNCHANGED <<journal, containers, history, before, past, phase, journalling>> /\ restored' = Absent
        /\ heap.status = "live"
    BY <1>4 DEF Despawn, May, journals
  <2>2. Still(heap, heap') BY <1>4, DespawnFirm
  <2> QED BY <2>1, <2>2, StayedRemembers
<1> QED BY <1>1, <1>2, <1>3, <1>4

(* Fields and containers are written to. *)
LEMMA WrittenRemembers ==
  ASSUME AllOK, Remembering, UndoesLast, game' = game, HeapOK(heap', game),
         \/ \E o \in OfKind("plain"), p \in Props, v \in Values : Set(o, p, v)
         \/ \E o \in OfKind("vector"), v \in Values :
              VectorAppend(o, v) \/ \E n \in DOMAIN Of(heap, o).elements : VectorSet(o, n, v)
         \/ \E o \in OfKind("vector") : \E m \in DOMAIN Of(heap, o).elements :
              \E n \in m..Cardinality(DOMAIN Of(heap, o).elements) : VectorRemove(o, m, n)
         \/ \E o \in OfKind("table"), v \in Values :
              \E k \in Keys \cup OfKind("plain") \cup OfKind("table") : LookupSet(o, k, v)
  PROVE  Result /\ CycleOK'
<1>1. ASSUME NEW c, May(c) PROVE Recalls
  BY <1>1, CallRecalls DEF Remembering
<1>2. ASSUME NEW o, NEW stored, NEW after, Changed(o, stored, after)
      PROVE  /\ UNCHANGED <<phase, journalling, before>>
             /\ ~journalling => UNCHANGED <<journal, containers>>
  BY <1>2 DEF Changed, Unsaved
<1>3. ASSUME NEW o \in OfKind("plain"), NEW p \in Props, NEW v \in Values, Set(o, p, v) PROVE Result /\ CycleOK'
  <2>1. /\ UNCHANGED <<phase, journalling, before>>
        /\ ~journalling => UNCHANGED <<journal, containers>>
    BY <1>3 DEF Set
  <2>2. PICK c : c = "set" OBVIOUS
  <2>3. May(c) BY <1>3, <2>2 DEF Set
  <2>4. MemoryOK(heap', journal', containers', history', before', past') BY <1>1, <1>3, <2>3, SetRemembers
  <2> QED BY <2>1, <2>3, <2>4, CalledRemembers
<1>4. ASSUME NEW o \in OfKind("vector"), NEW v \in Values, VectorAppend(o, v) PROVE Result /\ CycleOK'
  <2>1. /\ UNCHANGED <<phase, journalling, before>>
        /\ ~journalling => UNCHANGED <<journal, containers>>
    BY <1>2, <1>4, Zenon DEF VectorAppend
  <2>2. PICK c : c = "append" OBVIOUS
  <2>3. May(c) BY <1>4, <2>2, Zenon DEF VectorAppend
  <2>4. MemoryOK(heap', journal', containers', history', before', past') BY <1>1, <1>4, <2>3, VectorAppendRemembers
  <2> QED BY <2>1, <2>3, <2>4, CalledRemembers
<1>5. ASSUME NEW o \in OfKind("vector"), NEW v \in Values, NEW n \in DOMAIN Of(heap, o).elements, VectorSet(o, n, v)
      PROVE  Result /\ CycleOK'
  <2>1. /\ UNCHANGED <<phase, journalling, before>>
        /\ ~journalling => UNCHANGED <<journal, containers>>
    BY <1>2, <1>5, Zenon DEF VectorSet
  <2>2. PICK c : c = "element" OBVIOUS
  <2>3. May(c) BY <1>5, <2>2, Zenon DEF VectorSet
  <2>4. MemoryOK(heap', journal', containers', history', before', past') BY <1>1, <1>5, <2>3, VectorSetRemembers
  <2> QED BY <2>1, <2>3, <2>4, CalledRemembers
<1>6. ASSUME NEW o \in OfKind("vector"), NEW m \in DOMAIN Of(heap, o).elements,
             NEW n \in m..Cardinality(DOMAIN Of(heap, o).elements), VectorRemove(o, m, n)
      PROVE  Result /\ CycleOK'
  <2>1. /\ UNCHANGED <<phase, journalling, before>>
        /\ ~journalling => UNCHANGED <<journal, containers>>
    BY <1>2, <1>6, Zenon DEF VectorRemove
  <2>2. PICK c : c = "remove" OBVIOUS
  <2>3. May(c) BY <1>6, <2>2, Zenon DEF VectorRemove
  <2>4. MemoryOK(heap', journal', containers', history', before', past') BY <1>1, <1>6, <2>3, VectorRemoveRemembers
  <2> QED BY <2>1, <2>3, <2>4, CalledRemembers
<1>7. ASSUME NEW o \in OfKind("table"), NEW v \in Values,
             NEW k \in Keys \cup OfKind("plain") \cup OfKind("table"), LookupSet(o, k, v)
      PROVE  Result /\ CycleOK'
  <2>1. /\ UNCHANGED <<phase, journalling, before>>
        /\ ~journalling => UNCHANGED <<journal, containers>>
    BY <1>2, <1>7, Zenon DEF LookupSet
  <2>2. PICK c : c = "key" OBVIOUS
  <2>3. May(c) BY <1>7, <2>2, Zenon DEF LookupSet
  <2>4. MemoryOK(heap', journal', containers', history', before', past') BY <1>1, <1>7, <2>3, LookupSetRemembers
  <2> QED BY <2>1, <2>3, <2>4, CalledRemembers
<1> QED BY <1>3, <1>4, <1>5, <1>6, <1>7

(* The steps of the command cycle. *)
LEMMA CycleRemembers ==
  ASSUME AllOK, Remembering, game' = game, HeapOK(heap', game), Begin \/ End \/ Savepoint \/ Rollback \/ Undo
  PROVE  Result /\ CycleOK'
<1>1. CycleOK'
  BY CycleMoves DEF Remembering
<1>2. CASE Begin
  <2>1. restored' = Absent BY <1>2 DEF Begin
  <2> QED BY <1>1, <1>2, <2>1, BeginRemembers DEF Remembering, Result
<1>3. CASE End
  <2>1. restored' = Absent BY <1>3 DEF End
  <2> QED BY <1>1, <1>3, <2>1, EndRemembers DEF Remembering, Result
<1>4. CASE Savepoint
  <2>1. restored' = Absent BY <1>4 DEF Savepoint
  <2> QED BY <1>1, <1>4, <2>1, SavepointRemembers DEF Remembering, Result
<1>5. CASE Rollback
  BY <1>1, <1>5, RollbackRestores DEF Remembering
<1>6. CASE Undo
  BY <1>1, <1>6, UndoRestores DEF Remembering
<1> QED BY <1>2, <1>3, <1>4, <1>5, <1>6

(* A store that has failed stays as it is. *)
LEMMA RefusedRemembers ==
  ASSUME Remembering, game' = game, Refused
  PROVE  Result /\ CycleOK'
<1>1. UNCHANGED <<heap, journal, containers, history, before, past, phase, journalling>> /\ heap.status # "live"
  BY DEF Refused, journals, aux
<1>2. CycleOK'
  BY <1>1, CycleStays DEF Remembering
<1>3. MemoryOK(heap, journal, containers, history, before, past)
  BY DEF Remembering
<1>4. MemoryOK(heap', journal', containers', history', before', past')
  BY <1>1, <1>3
<1> QED BY <1>1, <1>2, <1>4 DEF Result

(* Every step. *)
LEMMA RemembersStep ==
  ASSUME AllOK, Remembering, UndoesLast, Next
  PROVE  Result /\ CycleOK'
<1>1. Step /\ game' = game
  BY DEF Next
<1>2. HeapOK(heap', game)
  <2>1. AllOK' BY StepOK
  <2> QED BY <1>1, <2>1 DEF AllOK
<1> QED BY <1>1, <1>2, FrameRemembers, MadeRemembers, WrittenRemembers, CycleRemembers, RefusedRemembers DEF Step

(* What a field of a static owns is what it holds. *)
LEMMA MemoryStart ==
  ASSUME Init PROVE Remembering
<1>1. /\ heap = Started(game.statics) /\ journal = <<>> /\ containers = <<>> /\ history = <<>> /\ past = <<>>
      /\ before = Nothing /\ ~journalling /\ phase = "startup" /\ restored = Absent
  BY DEF Init, Begun, Statics
<1>2. DOMAIN journal = {} /\ DOMAIN containers = {} /\ DOMAIN history = {} /\ DOMAIN past = {}
  BY <1>1, ListEmpty
<1>3. DOMAIN before = {}
  BY <1>1 DEF Nothing
<1>4. PICK statics : statics = game.statics OBVIOUS
<1>5. heap.records = StaticRecords(statics) BY <1>1, <1>4, StartedIs
<1>6. ASSUME NEW s PROVE StaticRecord(statics, s).properties = StaticRecord(statics, s).owned
  <2>1. \A n : Blank(n, "World").properties = Nothing /\ Blank(n, "World").owned = Nothing BY DEF Blank
  <2>2. PICK i : i = CHOOSE j \in Filled(statics) : Place(statics, j) = s OBVIOUS
  <2>3. PICK q : q = [Blank(s, "World") EXCEPT !.kind = statics[i], !.parent = NamedObject(i)] OBVIOUS
  <2>4. q.properties = Nothing /\ q.owned = Nothing
    BY <2>3 DEF Blank
  <2>5. PICK f : f = With(Nothing, Field, Container(statics, s)) OBVIOUS
  <2>6. PICK p : p = [Blank(s, "World") EXCEPT !.children = {Container(statics, s)},
                                               !.properties = f, !.owned = f] OBVIOUS
  <2>7. p.properties = f /\ p.owned = f
    BY <2>6 DEF Blank
  <2>8. StaticRecord(statics, s) = Blank(s, "World") \/ StaticRecord(statics, s) = p \/ StaticRecord(statics, s) = q
    BY <2>2, <2>3, <2>5, <2>6 DEF StaticRecord
  <2> QED BY <2>1, <2>4, <2>7, <2>8
<1>7. Owning(heap)
  BY <1>5, <1>6 DEF Owning, StaticRecords
<1>8. MemoryOK(heap, journal, containers, history, before, past)
  BY <1>2, <1>3, <1>7 DEF MemoryOK, Remembers, Noted, Agrees
<1> QED BY <1>1, <1>3, <1>8 DEF Remembering, CycleOK

(* A turn that fails, an undo, and a failure or an undo after those, leave every *)
(* World record that is still there with the fields and elements it had when the *)
(* cycle began, whatever was promoted, released or despawned since, in every game *)
(* that changes nothing after an undo in the same turn: undo stops the journals *)
(* (native_objects.rs op 139, objects.rs revert_properties, revert_containers). *)
THEOREM CyclesUndone == Spec => [](UndoesLast => Restored)
<1> DEFINE Inv == UndoesLast => Remembering
<1>1. Init => Inv
  BY MemoryStart
<1>2. AllOK /\ Inv /\ [Next]_vars => Inv'
  <2>1. SUFFICES ASSUME AllOK, Inv, [Next]_vars, UndoesLast', game' = game
                 PROVE  Remembering'
    BY DEF vars, Next
  <2>2. UndoesLast /\ Remembering
    BY <2>1 DEF UndoesLast, QuietUndo, Calls
  <2>3. ASSUME MemoryOK(heap', journal', containers', history', before', past')
        PROVE  MemoryOK(heap, journal, containers, history, before, past)'
    BY <2>1, <2>3 DEF MemoryOK, Remembers, Fields, Noted, Agrees, AgreesAt, FieldsAgree, ElementsAgree, Owning, After
  <2>4. CASE Next
    <3>1. Result /\ CycleOK'
      BY <2>1, <2>2, <2>4, RemembersStep
    <3> QED BY <2>3, <3>1 DEF Result, Remembering, Comes
  <2>5. CASE UNCHANGED vars
    <3>1. /\ UNCHANGED <<heap, journal, containers, history, before, past, phase, journalling, restored>>
      BY <2>5 DEF vars, journals, aux
    <3>2. MemoryOK(heap', journal', containers', history', before', past')
      BY <2>2, <3>1 DEF Remembering
    <3>3. CycleOK'
      BY <2>1, <2>2, <3>1, CycleStays DEF Remembering
    <3> QED BY <2>2, <2>3, <3>1, <3>2, <3>3 DEF Remembering, Comes
  <2> QED BY <2>1, <2>4, <2>5
<1>3. Inv => (UndoesLast => Restored)
  BY DEF Remembering, Restored, Comes
<1> QED BY <1>1, <1>2, <1>3, StoreInvariant, PTL DEF Spec
=============================================================================
