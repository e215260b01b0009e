---------------------------- MODULE LivesProofs ----------------------------
(***************************************************************************)
(* Proofs about Objects, continued.  A reference that a World record holds *)
(* goes on naming its object: what constructors are made under is never    *)
(* handed out, an instance is taken from its activation before that goes,  *)
(* the end of a turn frees roots that own nothing, and only the field of a *)
(* static destroys what it owned, which such a game leaves alone; what is  *)
(* saved comes back as it was.                                             *)
(***************************************************************************)
EXTENDS WorldProofs, Saving

(***************************************************************************)
(* What a game can reach                                                   *)
(***************************************************************************)
(* The references a record holds. *)
Refs(r, g) == (Range(r.properties) \ {Nil}) \cup ElementRefs(r.elements, r.kind, g)

(* A handle a game may hold: it names no activation, if it names anything. *)
Shown(h, v, n) ==
  Live(h, v) => ~(Of(h, v).kind = "plain" /\ Of(h, v).prototypes = 0 /\ v.born > n)
Open(h, n) == {v \in Old(h.next_identity) : Shown(h, v, n)}

(* The activations of constructors, with the instance each of them owns. *)
Running(cs) == {<<cs[i].activation, cs[i].object>> : i \in DOMAIN cs}

(* Only statics and activations own anything, and only through the field   *)
(* of a static; a static is World.                                         *)
RecordTidy(r, o, n, A) ==
  /\ DOMAIN r.owned \subseteq {Field}
  /\ \A c \in r.children : r.born <= n \/ <<o, c>> \in A
  /\ r.born <= n => r.lifetime = "World"
Tidy(h, n, A) ==
  \A s \in DOMAIN h.records :
    RecordTidy(h.records[s], HandleAt(h, s), n, A) /\ Refs(h.records[s], game) \subseteq Open(h, n)

(* A record stays, and refers to more in X. *)
More(r, q, X) ==
  q.born = r.born /\ q.children \subseteq r.children /\ Refs(q, game) \subseteq Refs(r, game) \cup X

(* All of them stay. *)
Rests(h, k, X) ==
  DOMAIN k.records = DOMAIN h.records /\ \A s \in DOMAIN h.records : More(h.records[s], k.records[s], X)

(* All of them stayed, but for the new ones. *)
Fresh(h, q, o, B) ==
  /\ q.born >= h.next_identity /\ DOMAIN q.owned = {} /\ Refs(q, game) = {}
  /\ \A c \in q.children : <<o, c>> \in B
Draws(h, k, B, X) ==
  \A s \in DOMAIN k.records :
    \/ Fresh(h, k.records[s], HandleAt(k, s), B)
    \/ s \in DOMAIN h.records /\ More(h.records[s], k.records[s], X)

(* What World records refer to lives on, but for what a game despawns. *)
Spares(h, k, ds) ==
  \A s \in DOMAIN h.records : h.records[s].lifetime = "World" =>
    \A v \in Refs(h.records[s], game) : Live(h, v) => Live(k, v) \/ v \in ds

(* What may be held may still be held later. *)
LEMMA OpenLater ==
  ASSUME NEW h, NEW k, HeapOK(h, game), HeapOK(k, game), Descends(h, k), NEW n
  PROVE  Open(h, n) \subseteq Open(k, n)
<1>1. Old(h.next_identity) \subseteq Old(k.next_identity)
  <2>1. h.next_identity \in Int /\ k.next_identity \in Int /\ h.next_identity <= k.next_identity
    BY DEF HeapOK, Descends
  <2> QED BY <2>1, OldGrows
<1>2. ASSUME NEW v \in Old(h.next_identity), Shown(h, v, n) PROVE Shown(k, v, n)
  <2>1. Live(k, v) => /\ Live(h, v) /\ Of(k, v).kind = Of(h, v).kind
                      /\ Of(k, v).prototypes = Of(h, v).prototypes
    BY LiveBefore DEF Kin, Of
  <2> QED BY <1>2, <2>1 DEF Shown
<1> QED BY <1>1, <1>2 DEF Open

(* Tidy records stay tidy when their references are drawn from what may be *)
(* held and owners that return have nothing left.                          *)
LEMMA TidyLater ==
  ASSUME NEW h, NEW k, HeapOK(h, game), HeapOK(k, game), Descends(h, k), Lasts(h, k),
         NEW n \in Int, n < h.next_identity, NEW A, NEW B,
         \A a \in A : a \in B \/ ~Live(k, a[1]) \/ ~Live(k, a[2]),
         Tidy(h, n, A), Draws(h, k, B, Open(h, n))
  PROVE  Tidy(k, n, B)
<1>1. SUFFICES ASSUME NEW s \in DOMAIN k.records
               PROVE  /\ RecordTidy(k.records[s], HandleAt(k, s), n, B)
                      /\ Refs(k.records[s], game) \subseteq Open(k, n)
  BY DEF Tidy
<1> DEFINE q == k.records[s]
           r == h.records[s]
<1>2. h.next_identity \in Int /\ q.born \in Int /\ Open(h, n) \subseteq Open(k, n)
  <2>1. RecordOK(q, k.next_identity, game) BY DEF HeapOK
  <2> QED BY <2>1, OpenLater DEF HeapOK, RecordOK
<1>3. CASE Fresh(h, q, HandleAt(k, s), B)
  BY <1>2, <1>3 DEF RecordTidy, Fresh
<1>4. CASE s \in DOMAIN h.records /\ More(r, q, Open(h, n))
  <2>1. RecordTidy(r, HandleAt(h, s), n, A) /\ Refs(r, game) \subseteq Open(h, n) BY <1>4 DEF Tidy
  <2>2. r.born < h.next_identity /\ q.born = r.born
    <3>1. RecordOK(r, h.next_identity, game) BY <1>4 DEF HeapOK
    <3> QED BY <3>1, <1>2, <1>4 DEF RecordOK, More
  <2>3. DOMAIN q.owned \subseteq DOMAIN r.owned BY <1>2, <1>4, <2>2 DEF Descends, Kin
  <2>4. r.lifetime = "World" => q.lifetime = "World" BY <1>2, <1>4, <2>2 DEF Lasts, Lasting
  <2>5. HandleAt(k, s) = HandleAt(h, s) BY <2>2 DEF HandleAt
  <2>6. \A c \in q.children : Live(k, c) BY DEF HeapOK, TreeOK
  <2>7. Live(k, HandleAt(k, s)) BY HandleFacts
  <2> HIDE DEF q, r
  <2>8. ASSUME NEW c \in q.children PROVE q.born <= n \/ <<HandleAt(k, s), c>> \in B
    <3>1. r.born <= n \/ <<HandleAt(h, s), c>> \in A BY <1>4, <2>1, <2>8 DEF More, RecordTidy
    <3>2. PICK a : a = <<HandleAt(h, s), c>> OBVIOUS
    <3> QED BY <2>2, <2>5, <2>6, <2>7, <2>8, <3>1, <3>2
  <2>9. RecordTidy(q, HandleAt(k, s), n, B) BY <2>1, <2>2, <2>3, <2>4, <2>8 DEF RecordTidy
  <2> QED BY <1>2, <1>4, <2>1, <2>9 DEF q, More
<1> QED BY <1>3, <1>4 DEF Draws

(* Nothing moves. *)
LEMMA RestsSelf == ASSUME NEW h, NEW X PROVE Rests(h, h, X)
BY DEF Rests, More

(* Nor in two operations. *)
LEMMA RestsJoin ==
  ASSUME NEW h, NEW k, NEW m, NEW X, Rests(h, k, X), Rests(k, m, X) PROVE Rests(h, m, X)
<1>1. ASSUME NEW s \in DOMAIN h.records PROVE More(h.records[s], m.records[s], X)
  BY DEF Rests, More
<1> QED BY <1>1 DEF Rests

(* Records that stay draw on X and go on living. *)
LEMMA RestsDraws ==
  ASSUME NEW h, NEW k, NEW X, Rests(h, k, X), NEW B, NEW ds
  PROVE  Draws(h, k, B, X) /\ Spares(h, k, ds)
<1>1. Draws(h, k, B, X) BY DEF Rests, Draws
<1>2. Spares(h, k, ds) BY DEF Rests, Spares, Live, More
<1> QED BY <1>1, <1>2

(* So do records that are left. *)
LEMMA FewerDraws ==
  ASSUME NEW h, NEW k, Fewer(h, k), NEW B, NEW X PROVE Draws(h, k, B, X)
BY DEF Fewer, Lesser, Draws, More, Refs

(* And records that are left of those that stayed. *)
LEMMA LeftDraws ==
  ASSUME NEW h, NEW m, NEW k, NEW X, Rests(h, m, X), Fewer(m, k), NEW B PROVE Draws(h, k, B, X)
<1>1. ASSUME NEW s \in DOMAIN k.records PROVE s \in DOMAIN h.records /\ More(h.records[s], k.records[s], X)
  <2>1. s \in DOMAIN m.records /\ Lesser(m.records[s], k.records[s]) BY DEF Fewer
  <2>2. s \in DOMAIN h.records /\ More(h.records[s], m.records[s], X) BY <2>1 DEF Rests
  <2>3. Refs(k.records[s], game) = Refs(m.records[s], game) BY <2>1 DEF Lesser, Refs
  <2> QED BY <2>1, <2>2, <2>3 DEF Lesser, More
<1> QED BY <1>1 DEF Draws

(* Lifetimes change. *)
LEMMA AlikeRests ==
  ASSUME NEW h, NEW k, Alike(h, k), NEW X PROVE Rests(h, k, X)
<1>1. ASSUME NEW s \in DOMAIN h.records PROVE SameButLife(h.records[s], k.records[s]) BY DEF Alike
<1> QED BY <1>1 DEF Alike, Rests, SameButLife, Refs, More

(* One record refers to something else. *)
LEMMA RewrittenRests ==
  ASSUME NEW h, IsFun(h.records), NEW k, NEW s \in DOMAIN h.records, NEW q, k.records = [h.records EXCEPT ![s] = q],
         NEW X, More(h.records[s], q, X)
  PROVE  Rests(h, k, X)
<1>1. DOMAIN k.records = DOMAIN h.records /\ \A t \in DOMAIN h.records : k.records[t] = IF t = s THEN q ELSE h.records[t]
  BY DEF IsFun
<1> QED BY <1>1 DEF Rests, More

(* set, of a field that owns nothing. *)
LEMMA AssignedRests ==
  ASSUME NEW h, HeapOK(h, game), NEW o \in Old(h.next_identity), Live(h, o), NEW p, p \notin DOMAIN Of(h, o).owned,
         NEW v, NEW k, k = Assigned(h, o, p, v), k.status = "live", NEW X, v \in X \cup {Nil}
  PROVE  Rests(h, k, X)
<1>1. PICK m : m = Stored(h, o, v) OBVIOUS
<1>2. Alike(h, m) /\ HeapOK(m, game) BY <1>1, StoredAlike DEF Alike
<1>3. PICK new : new = (p \notin DOMAIN Of(h, o).properties) OBVIOUS
<1>4. CASE new /\ m.charged >= PropertyLimit
  <2>1. k = Failed(m) BY <1>1, <1>3, <1>4 DEF Assigned
  <2> QED BY <2>1, <1>2, FailedOK
<1>5. CASE ~(new /\ m.charged >= PropertyLimit)
  <2> DEFINE s == o.slot
             r == m.records[s]
             f == With(r.properties, p, v)
  <2>1. k = [m EXCEPT !.records[o.slot].properties = With(@, p, v), !.charged = @ + (IF new THEN 1 ELSE 0)]
    BY <1>1, <1>3, <1>5 DEF Assigned
  <2>2. s \in DOMAIN m.records /\ Shaped(m) /\ RecordOK(r, m.next_identity, game) BY <1>2 DEF HeapOK, Alike, Live
  <2>3. PICK q : q = [r EXCEPT !.properties = f] OBVIOUS
  <2>4. k.records = [m.records EXCEPT ![s] = q] BY <2>1, <2>2, <2>3 DEF Shaped, IsFun
  <2>5. More(r, q, X)
    <3>1. q.born = r.born /\ q.children = r.children /\ q.kind = r.kind /\ q.elements = r.elements /\ q.properties = f
      <4> HIDE DEF r, f
      <4> QED BY <2>2, <2>3 DEF RecordOK
    <3>2. Range(f) \subseteq Range(r.properties) \cup {v} BY DEF Range, With
    <3> HIDE DEF f, r
    <3> QED BY <3>1, <3>2 DEF More, Refs
  <2> HIDE DEF s
  <2>6. Rests(m, k, X) BY <2>2, <2>4, <2>5, RewrittenRests DEF Shaped
  <2> QED BY <1>2, <2>6, AlikeRests, RestsJoin
<1> QED BY <1>4, <1>5

(* clear_property, of a field that owns nothing. *)
LEMMA ClearedRests ==
  ASSUME NEW h, HeapOK(h, game), NEW o, Live(h, o), NEW p, p \notin DOMAIN Of(h, o).owned,
         NEW k, k = Cleared(h, o, p), NEW X
  PROVE  Rests(h, k, X)
<1>1. CASE p \notin DOMAIN Of(h, o).properties BY <1>1, RestsSelf DEF Cleared
<1>2. CASE p \in DOMAIN Of(h, o).properties
  <2> DEFINE s == o.slot
             r == h.records[s]
             f == Restrict(r.properties, (DOMAIN r.properties) \ {p})
  <2>1. k = [h EXCEPT !.records[o.slot].properties = Restrict(@, DOMAIN @ \ {p}),
                      !.charged = IF @ = 0 THEN 0 ELSE @ - 1]
    BY <1>2 DEF Cleared
  <2>2. s \in DOMAIN h.records /\ Shaped(h) /\ RecordOK(r, h.next_identity, game) BY DEF HeapOK, Live
  <2>3. PICK q : q = [r EXCEPT !.properties = f] OBVIOUS
  <2>4. k.records = [h.records EXCEPT ![s] = q] BY <2>1, <2>2, <2>3 DEF Shaped, IsFun
  <2>5. More(r, q, X)
    <3>1. q.born = r.born /\ q.children = r.children /\ q.kind = r.kind /\ q.elements = r.elements /\ q.properties = f
      <4> HIDE DEF r, f
      <4> QED BY <2>2, <2>3 DEF RecordOK
    <3>2. Range(f) \subseteq Range(r.properties) BY DEF Range, Restrict
    <3> HIDE DEF f, r
    <3> QED BY <3>1, <3>2 DEF More, Refs
  <2> HIDE DEF s
  <2> QED BY <2>2, <2>4, <2>5, RewrittenRests DEF Shaped
<1> QED BY <1>1, <1>2

(* A snapshot is put back. *)
LEMMA SnapshotRests ==
  ASSUME NEW h, HeapOK(h, game), NEW d, Live(h, d.object), NEW X,
         ElementRefs(d.elements, Of(h, d.object).kind, game) \subseteq X, NEW now,
         now = [Of(h, d.object) EXCEPT !.elements = d.elements, !.capacity = d.capacity],
         NEW k, k = [h EXCEPT !.records[d.object.slot] = now,
                              !.charged = @ - Charge(Of(h, d.object)) + Charge(now)]
  PROVE  Rests(h, k, X)
<1>1. PICK s : s = d.object.slot OBVIOUS
<1>2. PICK r : r = h.records[s] OBVIOUS
<1>3. s \in DOMAIN h.records /\ Shaped(h) /\ RecordOK(r, h.next_identity, game) /\ Of(h, d.object) = r
  BY <1>1, <1>2 DEF HeapOK, Live, Of
<1>4. k.records = [h.records EXCEPT ![s] = now] BY <1>1, <1>3 DEF Shaped
<1>5. now.born = r.born /\ now.children = r.children /\ now.kind = r.kind /\ now.properties = r.properties
      /\ now.elements = d.elements
  BY <1>3 DEF RecordOK
<1>6. More(r, now, X) BY <1>3, <1>5 DEF More, Refs
<1>7. IsFun(h.records) /\ More(h.records[s], now, X) BY <1>2, <1>3, <1>6 DEF Shaped
<1> QED BY ONLY <1>3, <1>4, <1>7, RewrittenRests

(* A journalled write puts back what may be held, into a field that owns   *)
(* nothing.                                                                *)
WriteTidy(d, X) == d.property # Field /\ d.previous \in X \cup {Nil, Absent}
SnapTidy(d, h, X) == Live(h, d.object) => ElementRefs(d.elements, Of(h, d.object).kind, game) \subseteq X
Tied(h) == \A s \in DOMAIN h.records : DOMAIN h.records[s].owned \subseteq {Field}

(* Records own through the same fields, if any. *)
LEMMA TiedLater ==
  ASSUME NEW h, NEW k, HeapOK(h, game), HeapOK(k, game), Tied(h), Descends(h, k), DOMAIN k.records = DOMAIN h.records,
         \A s \in DOMAIN h.records : k.records[s].born = h.records[s].born
  PROVE  Tied(k)
<1>1. ASSUME NEW s \in DOMAIN k.records PROVE DOMAIN k.records[s].owned \subseteq DOMAIN h.records[s].owned
  <2>1. RecordOK(h.records[s], h.next_identity, game) /\ h.next_identity \in Int BY DEF HeapOK
  <2>2. ~(k.records[s].born >= h.next_identity) BY <2>1 DEF RecordOK
  <2> QED BY <2>2 DEF Descends, Kin
<1> QED BY <1>1 DEF Tied

(* Records that stayed own through no other field. *)
LEMMA TiedRests ==
  ASSUME NEW h, NEW k, HeapOK(h, game), HeapOK(k, game), Tied(h), Descends(h, k), NEW X, Rests(h, k, X)
  PROVE  Tied(k)
BY TiedLater DEF Rests, More

(* revert_containers. *)
LEMMA ContainersRests ==
  ASSUME NEW h, HeapOK(h, game), NEW list, IsFiniteSet(DOMAIN list), DOMAIN list \in SUBSET Nat,
         ContainersOK(list, h, game), NEW X, \A i \in DOMAIN list : SnapTidy(list[i], h, X),
         NEW k, k = ContainersReverted(h, list)
  PROVE  Rests(h, k, X)
<1> DEFINE D == DOMAIN list
           P(g, t) == /\ Steady(h, g) /\ Rests(h, g, X)
                      /\ \A q : SnapOK(q, h, game) /\ (\A i \in t : Lighter(q, list[i], h)) => SnapOK(q, g, game)
<1>1. PICK f : Folding("containers", list, h, f, D) /\ ContainersReverted(h, list) = f[D]
  BY ContainersFold
<1>2. Pickable("containers", D)
  BY ListPickable
<1>f. /\ f[{}] = h
      /\ \A t \in SUBSET D : t # {} =>
           Picked("containers", t) \in t
           /\ f[t] = Folds("containers", list, Picked("containers", t), f[t \ {Picked("containers", t)}])
  <2> HIDE DEF P, D
  <2> QED BY <1>1, <1>2, FoldStep
<1> DEFINE G == {t \in SUBSET D : P(f[t], t)}
<1>3. {} \in G
  BY <1>f, SteadySelf, RestsSelf
<1>4. ASSUME NEW t \in SUBSET D, t # {}, t \ {Picked("containers", t)} \in G PROVE t \in G
  <2> DEFINE x == Picked("containers", t)
             g == f[t \ {x}]
             d == list[x]
             m == f[t]
  <2>1. x \in t /\ m = Folds("containers", list, x, g)
    BY <1>4, <1>f
  <2>2. P(g, t \ {x})
    BY <1>4
  <2>3. HeapOK(g, game) /\ Descends(h, g) /\ Steady(h, g) /\ Rests(h, g, X)
    BY <2>2 DEF Steady
  <2>4. \A i \in t \ {x} : x < i
    <3>1. x = Min(t)
      BY DEF Picked
    <3>2. \A i \in t : x <= i
      BY <3>1, <1>4, LeastMember
    <3> QED BY <3>2, <2>1
  <2>5. SnapOK(d, g, game) /\ SnapTidy(d, g, X)
    <3>1. SnapOK(d, h, game) /\ SnapTidy(d, h, X) /\ d.object \in Old(h.next_identity)
      BY <2>1 DEF ContainersOK, SnapOK
    <3>2. \A i \in t \ {x} : Lighter(d, list[i], h)
      BY <2>1, <2>4 DEF ContainersOK
    <3>3. SnapOK(d, g, game)
      BY <2>2, <3>1, <3>2
    <3>4. SnapTidy(d, g, X)
      <4> HIDE DEF d, g
      <4> QED BY <2>3, <3>1 DEF SnapTidy, Steady, Live, Of
    <3> QED BY <3>3, <3>4
  <2> HIDE DEF g, m, x
  <2>6. Steady(g, m) /\ Rests(g, m, X) /\ \A q : SnapOK(q, g, game) /\ Lighter(q, d, g) => SnapOK(q, m, game)
    <3>1. CASE ~Live(g, d.object)
      <4>1. m = g
        BY <3>1, <2>1 DEF Folds
      <4> QED BY <4>1, <2>3, SteadySelf, RestsSelf
    <3>2. CASE Live(g, d.object)
      <4> DEFINE now == [Of(g, d.object) EXCEPT !.elements = d.elements, !.capacity = d.capacity]
      <4>1. m = [g EXCEPT !.records[d.object.slot] = now,
                          !.charged = @ - Charge(Of(g, d.object)) + Charge(now)]
        BY <3>2, <2>1 DEF Folds
      <4> HIDE DEF d
      <4>2. now = [Of(g, d.object) EXCEPT !.elements = d.elements, !.capacity = d.capacity]
        OBVIOUS
      <4> HIDE DEF now
      <4>3. Steady(g, m) /\ \A q : SnapOK(q, g, game) /\ Lighter(q, d, g) => SnapOK(q, m, game)
        BY <4>1, <4>2, <3>2, <2>3, <2>5, SnapshotPut
      <4>4. ElementRefs(d.elements, Of(g, d.object).kind, game) \subseteq X
        BY <2>5, <3>2 DEF SnapTidy
      <4>5. Rests(g, m, X)
        BY <4>1, <4>2, <4>4, <3>2, <2>3, SnapshotRests
      <4> QED BY <4>3, <4>5
    <3> QED BY <3>1, <3>2
  <2>7. Steady(h, m) /\ Rests(h, m, X)
    BY <2>3, <2>6, SteadyJoin, RestsJoin
  <2>8. ASSUME NEW q, SnapOK(q, h, game), \A i \in t : Lighter(q, list[i], h) PROVE SnapOK(q, m, game)
    <3>1. SnapOK(q, g, game)
      BY <2>2, <2>8
    <3>2. Lighter(q, d, g)
      <4>1. Lighter(q, d, h) /\ q.object \in Old(h.next_identity)
        BY <2>1, <2>8 DEF SnapOK
      <4> HIDE DEF d
      <4> QED BY <4>1, <2>3, LighterLater
    <3> QED BY <3>1, <3>2, <2>6
  <2> QED BY <2>7, <2>8 DEF m
<1>5. D \in G
  <2>1. \A t \in SUBSET D : t # {} /\ t \ {Picked("containers", t)} \in G => t \in G
    BY <1>4
  <2> HIDE DEF G, D
  <2>2. \A t \in SUBSET D : t \in G
    BY <1>2, <1>3, <2>1, FoldSets
  <2> QED BY <2>2
<1> QED BY <1>1, <1>5

(* revert_properties, if nothing fails. *)
LEMMA PropertiesRests ==
  ASSUME NEW h, HeapOK(h, game), Tied(h), NEW list, IsFiniteSet(DOMAIN list), DOMAIN list \in SUBSET Nat,
         \A i \in DOMAIN list : PropertyOK(list[i], h, game), NEW X, \A i \in DOMAIN list : WriteTidy(list[i], X),
         NEW k, k = PropertiesReverted(h, list), k.status = "live"
  PROVE  Rests(h, k, X)
<1> DEFINE D == DOMAIN list
           P(g) == Keeps(h, g) /\ (g.status = "live" => Rests(h, g, X))
<1>1. PICK f : Folding("properties", list, h, f, D) /\ PropertiesReverted(h, list) = f[D]
  BY PropertiesFold
<1>2. Pickable("properties", D)
  BY ListPickable
<1>f. /\ f[{}] = h
      /\ \A t \in SUBSET D : t # {} =>
           Picked("properties", t) \in t
           /\ f[t] = Folds("properties", list, Picked("properties", t), f[t \ {Picked("properties", t)}])
  <2> HIDE DEF P, D
  <2> QED BY <1>1, <1>2, FoldStep
<1> DEFINE G == {t \in SUBSET D : P(f[t])}
<1>3. {} \in G
  BY <1>f, KeepsSelf, RestsSelf
<1>4. ASSUME NEW t \in SUBSET D, t # {}, t \ {Picked("properties", t)} \in G PROVE t \in G
  <2> DEFINE x == Picked("properties", t)
             g == f[t \ {x}]
             d == list[x]
             m == f[t]
  <2>1. x \in D /\ m = Folds("properties", list, x, g)
    BY <1>4, <1>f
  <2>2. P(g)
    BY <1>4
  <2>3. HeapOK(g, game) /\ Descends(h, g)
    BY <2>2, FollowsDescends DEF Keeps
  <2>4. PropertyOK(d, g, game) /\ WriteTidy(d, X)
    <3> HIDE DEF g
    <3>1. PropertyOK(d, h, game) /\ WriteTidy(d, X)
      BY <2>1
    <3> HIDE DEF d
    <3> QED BY <3>1, <2>3, PropertyLater
  <2> HIDE DEF g, m, x
  <2>5. Keeps(g, m) /\ (m.status = "live" => g.status = "live" /\ Rests(g, m, X))
    <3>0. ASSUME g.status = "live", Live(g, d.object) PROVE d.property \notin DOMAIN Of(g, d.object).owned
      <4>1. Tied(g) BY <2>2, <2>3, <3>0, TiedRests
      <4> QED BY <2>4, <3>0, <4>1 DEF Tied, WriteTidy, Live, Of
    <3>1. CASE ~Live(g, d.object)
      <4>1. m = g
        BY <3>1, <2>1 DEF Folds
      <4> QED BY <4>1, <2>3, KeepsSelf, RestsSelf
    <3>2. CASE Live(g, d.object) /\ d.previous = Absent
      <4>1. m = Cleared(g, d.object, d.property)
        BY <3>2, <2>1 DEF Folds
      <4>2. d.object \in Old(g.next_identity) /\ d.property \notin DOMAIN Of(g, d.object).owned
        BY <3>2, <2>4 DEF PropertyOK
      <4> HIDE DEF d
      <4>3. Keeps(g, m)
        BY <4>1, <4>2, <3>2, <2>3, ClearedKeeps
      <4>4. Rests(g, m, X)
        BY <4>1, <4>2, <3>2, <2>3, ClearedRests
      <4> QED BY <4>3, <4>4 DEF Keeps, Bears
    <3>3. CASE Live(g, d.object) /\ d.previous # Absent
      <4>1. m = Assigned(g, d.object, d.property, d.previous)
        BY <3>3, <2>1 DEF Folds
      <4>2. d.object \in Old(g.next_identity) /\ d.property \in game.props \cup {Field}
            /\ d.previous \in Ref(g.next_identity) /\ d.previous \in X \cup {Nil}
        BY <3>3, <2>4 DEF PropertyOK, WriteTidy
      <4> HIDE DEF d
      <4>3. Keeps(g, m)
        BY <4>1, <4>2, <3>3, <2>3, AssignedKeeps
      <4>4. m.status = "live" => g.status = "live"
        BY <4>3 DEF Keeps, Bears
      <4>5. m.status = "live" => Rests(g, m, X)
        BY <4>1, <4>2, <4>4, <3>0, <3>3, <2>3, AssignedRests
      <4> QED BY <4>3, <4>4, <4>5
    <3> QED BY <3>1, <3>2, <3>3
  <2>6. P(m)
    <3>1. Keeps(h, m) BY <2>2, <2>5, KeepsJoin
    <3>2. m.status = "live" => Rests(h, m, X) BY <2>2, <2>5, RestsJoin
    <3> QED BY <3>1, <3>2
  <2> QED BY <2>6 DEF m
<1>5. D \in G
  <2>1. \A t \in SUBSET D : t # {} /\ t \ {Picked("properties", t)} \in G => t \in G
    BY <1>4
  <2> HIDE DEF G, D
  <2>2. \A t \in SUBSET D : t \in G
    BY <1>2, <1>3, <2>1, FoldSets
  <2> QED BY <2>2
<1> QED BY <1>1, <1>5

(* One cycle is put back. *)
LEMMA RevertedRests ==
  ASSUME NEW h, HeapOK(h, game), Tied(h), NEW js, NEW cs, NEW hs, Revertible(h, js, cs, hs),
         NEW X, \A i \in DOMAIN cs : SnapTidy(cs[i], h, X), \A i \in DOMAIN js : WriteTidy(js[i], X),
         NEW k, k = PropertiesReverted(ContainersReverted(h, cs), js), k.status = "live"
  PROVE  Rests(h, k, X)
<1>1. PICK m : m = ContainersReverted(h, cs) OBVIOUS
<1>2. /\ Listed(cs) /\ ContainersOK(cs, h, game) /\ Listed(js)
      /\ \A i \in DOMAIN js : PropertyOK(js[i], h, game)
  BY DEF Revertible
<1>3. IsFiniteSet(DOMAIN cs) /\ DOMAIN cs \in SUBSET Nat /\ IsFiniteSet(DOMAIN js) /\ DOMAIN js \in SUBSET Nat
  BY <1>2, ListFacts
<1>4. Steady(h, m) /\ Rests(h, m, X)
  BY <1>1, <1>2, <1>3, ContainersKeep, ContainersRests
<1>5. HeapOK(m, game) /\ Descends(h, m) /\ Tied(m)
  BY <1>4, TiedRests DEF Steady
<1>6. \A i \in DOMAIN js : PropertyOK(js[i], m, game)
  BY <1>2, <1>5, PropertyLater
<1>7. Rests(m, k, X)
  BY <1>1, <1>3, <1>5, <1>6, PropertiesRests
<1> QED BY <1>4, <1>7, RestsJoin

(* The journalled writes of the open cycle and of the finished ones. *)
Writes(js, hs) ==
  {js[i] : i \in DOMAIN js}
  \cup UNION {{hs[l].properties[i] : i \in DOMAIN hs[l].properties} : l \in DOMAIN hs}

(* Records refer to what may be held, and will when it is put back. *)
Tended(h, n, cs, js, ds, hs) ==
  /\ Tidy(h, n, Running(cs))
  /\ \A d \in Writes(js, hs) : WriteTidy(d, Open(h, n))
  /\ \A d \in Snaps(ds, hs) : SnapTidy(d, h, Open(h, n))

(* What a step does to such a heap: constructors that return leave nothing *)
(* and what World records refer to is spared,                              *)
Drawn(h, k, n, cs, ct, ds) ==
  /\ Draws(h, k, Running(ct), Open(h, n)) /\ Spares(h, k, ds)
  /\ \A a \in Running(cs) : a \in Running(ct) \/ ~Live(k, a[1]) \/ ~Live(k, a[2])
(* and to the journals.                                                    *)
Jotted(h, n, js, hs, jt, ht) == \A d \in Writes(jt, ht) : d \in Writes(js, hs) \/ WriteTidy(d, Open(h, n))
Copied(h, k, n, ds, hs, dt, ht) == \A d \in Snaps(dt, ht) : d \in Snaps(ds, hs) \/ SnapTidy(d, k, Open(h, n))

(* A snapshot of a container that stays one. *)
LEMMA SnapTidyLater ==
  ASSUME NEW h, NEW k, HeapOK(h, game), HeapOK(k, game), Descends(h, k), NEW n, NEW d,
         d.object \in Old(h.next_identity), SnapTidy(d, h, Open(h, n))
  PROVE  SnapTidy(d, k, Open(h, n))
<1>1. SUFFICES ASSUME Live(k, d.object) PROVE ElementRefs(d.elements, Of(k, d.object).kind, game) \subseteq Open(h, n)
  BY DEF SnapTidy
<1>2. Live(h, d.object) /\ Of(k, d.object).kind = Of(h, d.object).kind
  BY <1>1, LiveBefore DEF Kin, Of
<1> QED BY <1>2 DEF SnapTidy

(* So a step keeps everything tidy. *)
LEMMA TendedLater ==
  ASSUME NEW h, NEW k, HeapOK(h, game), HeapOK(k, game), Descends(h, k), Lasts(h, k),
         NEW n \in Int, n < h.next_identity, NEW cs, NEW js, NEW ds, NEW hs, JournalsOK(h, game, js, ds, hs),
         Tended(h, n, cs, js, ds, hs), NEW ct, NEW jt, NEW dt, NEW ht, NEW gone, Drawn(h, k, n, cs, ct, gone),
         Jotted(h, n, js, hs, jt, ht), Copied(h, k, n, ds, hs, dt, ht)
  PROVE  Tended(k, n, ct, jt, dt, ht)
<1>1. Open(h, n) \subseteq Open(k, n) BY OpenLater
<1>2. PICK A, B : A = Running(cs) /\ B = Running(ct) OBVIOUS
<1>3. /\ Tidy(h, n, A) /\ Draws(h, k, B, Open(h, n))
      /\ \A a \in A : a \in B \/ ~Live(k, a[1]) \/ ~Live(k, a[2])
  BY <1>2 DEF Tended, Drawn
<1>4. Tidy(k, n, B) BY <1>3, TidyLater
<1>5. ASSUME NEW d \in Writes(jt, ht) PROVE WriteTidy(d, Open(k, n))
  <2>1. WriteTidy(d, Open(h, n)) BY DEF Tended, Jotted
  <2> QED BY <2>1, <1>1 DEF WriteTidy
<1>6. ASSUME NEW d \in Snaps(dt, ht) PROVE SnapTidy(d, k, Open(k, n))
  <2>1. SnapTidy(d, k, Open(h, n))
    <3>1. CASE d \in Snaps(ds, hs)
      <4>1. d.object \in Old(h.next_identity) /\ SnapTidy(d, h, Open(h, n)) BY <3>1, SnapsOld DEF Tended
      <4> QED BY <4>1, SnapTidyLater
    <3> QED BY <3>1 DEF Copied
  <2> QED BY <2>1, <1>1 DEF SnapTidy
<1> QED BY <1>2, <1>4, <1>5, <1>6 DEF Tended

(***************************************************************************)
(* What each step draws on                                                 *)
(***************************************************************************)
(* A game that makes no tables in play, throws nothing and does not set    *)
(* the field of a static, with its store and its journals.                 *)
Plain == "table" \notin Calls /\ "throw" \notin Calls /\ Field \notin Props
Tending ==
  /\ AllOK /\ WorldWell(heap, containers, history) /\ Plain /\ heap.status = "live"
  /\ exceptions = {} /\ \A i \in DOMAIN constructions : constructions[i].owner = "Published"
  /\ Tended(heap, Len(Statics), constructions, journal, containers, history)
Hand == Open(heap, Len(Statics))

(* What a step of such a game does. *)
Careful ==
  /\ Drawn(heap, heap', Len(Statics), constructions, constructions', despawned')
  /\ Jotted(heap, Len(Statics), journal, history, journal', history')
  /\ Copied(heap, heap', Len(Statics), containers, history, containers', history')

(* A step that makes and frees nothing. *)
LEMMA RestsCareful ==
  ASSUME Rests(heap, heap', Hand), constructions' = constructions,
         Jotted(heap, Len(Statics), journal, history, journal', history'),
         Copied(heap, heap', Len(Statics), containers, history, containers', history')
  PROVE  Careful
<1>1. Draws(heap, heap', Running(constructions'), Hand) /\ Spares(heap, heap', despawned') BY RestsDraws
<1> QED BY <1>1 DEF Careful, Drawn, Hand

(* Journals that stay. *)
LEMMA JottedStay == ASSUME NEW h, NEW n, NEW js, NEW hs PROVE Jotted(h, n, js, hs, js, hs)
BY DEF Jotted
LEMMA CopiedStay == ASSUME NEW h, NEW k, NEW n, NEW ds, NEW hs PROVE Copied(h, k, n, ds, hs, ds, hs)
BY DEF Copied

(* What a game is given may be held. *)
LEMMA ValuesOpen ==
  ASSUME Tending PROVE Values \subseteq Hand \cup {Nil} /\ Visible(heap) \subseteq Hand
<1>1. HeapOK(heap, game) BY DEF Tending, AllOK
<1>2. Visible(heap) \subseteq Hand
  <2>1. SUFFICES ASSUME NEW o \in Visible(heap) PROVE o \in Hand OBVIOUS
  <2>2. o \in Old(heap.next_identity) /\ ~Private(heap, o) BY <1>1, VisibleOld
  <2> QED BY <2>2 DEF Hand, Open, Shown, Private
<1>3. ASSUME NEW r \in Range(heap.records) PROVE Held(r) \subseteq Hand
  <2>1. PICK s \in DOMAIN heap.records : r = heap.records[s] BY DEF Range
  <2>2. Refs(r, game) \subseteq Hand BY <2>1 DEF Tending, Tended, Tidy, Hand
  <2> QED BY <2>2 DEF Refs, Held, ElementRefs, Keys
<1> QED BY <1>2, <1>3 DEF Values

(* A field is set. *)
LEMMA SetCareful ==
  ASSUME Tending, NEW o \in OfKind("plain"), NEW p \in Props, NEW v \in Values, Set(o, p, v), heap'.status = "live"
  PROVE  Careful
<1>1. /\ HeapOK(heap, game) /\ Live(heap, o) /\ o \in Old(heap.next_identity) /\ o.slot \in DOMAIN heap.records
      /\ v \in Hand \cup {Nil}
  BY VisibleOld, ValuesOpen DEF AllOK, Props, OfKind, Tending
<1>2. constructions' = constructions /\ containers' = containers /\ history' = history
  BY DEF Set, frames
<1>3. PICK r : r = Of(heap, o) OBVIOUS
<1>4. DOMAIN r.owned \subseteq {Field} /\ Refs(r, game) \subseteq Hand /\ p # Field
  <2>1. RecordTidy(heap.records[o.slot], HandleAt(heap, o.slot), Len(Statics), Running(constructions))
    BY <1>1 DEF Tending, Tended, Tidy
  <2>2. Refs(r, game) \subseteq Hand BY <1>1, <1>3 DEF Tending, Tended, Tidy, Hand, Of
  <2> QED BY <2>1, <2>2, <1>3 DEF RecordTidy, Tending, Plain, Of
<1>5. Rests(heap, heap', Hand)
  <2>1. heap' = heap \/ heap' = Assigned(heap, o, p, v) BY DEF Set
  <2>2. p \notin DOMAIN Of(heap, o).owned BY <1>3, <1>4
  <2> QED BY <1>1, <2>1, <2>2, AssignedRests, RestsSelf
<1>6. PICK d : d = [object |-> o, property |-> p, previous |-> IF p \in DOMAIN r.properties THEN r.properties[p] ELSE Absent]
  OBVIOUS
<1>7. WriteTidy(d, Hand)
  <2>1. p \in DOMAIN r.properties => r.properties[p] \in Hand \cup {Nil} BY <1>4 DEF Refs, Range
  <2> QED BY <1>4, <1>6, <2>1 DEF WriteTidy
<1>8. journal' = journal \/ journal' = Append(journal, d)
  BY <1>3, <1>6 DEF Set
<1>9. \A x \in Writes(journal', history') : x \in Writes(journal, history) \/ x = d
  <2>1. CASE journal' = journal BY <1>2, <2>1
  <2>2. CASE journal' = Append(journal, d)
    <3>1. Listed(journal) BY DEF Tending, AllOK, JournalsOK
    <3>2. Appended(journal, d, journal') BY <2>2, <3>1, ListAppend
    <3>3. \A i \in DOMAIN journal' : journal'[i] = d \/ journal'[i] \in {journal[j] : j \in DOMAIN journal}
      BY <3>2 DEF Appended
    <3> QED BY <1>2, <3>3 DEF Writes
  <2> QED BY <1>8, <2>1, <2>2
<1>10. Jotted(heap, Len(Statics), journal, history, journal', history') BY <1>7, <1>9 DEF Jotted, Hand
<1>11. Copied(heap, heap', Len(Statics), containers, history, containers', history') BY <1>2, CopiedStay
<1> QED BY <1>2, <1>5, <1>10, <1>11, RestsCareful

(* Records are related. *)
LEMMA RelateCareful ==
  ASSUME Tending, NEW x, NEW y, Relate(x, y) PROVE Careful
<1>1. constructions' = constructions /\ UNCHANGED <<journal, containers, history>> BY DEF Relate, frames, journals
<1>2. PICK m : m = Stored(heap, x, y) OBVIOUS
<1>3. heap' = Stored(m, y, x) BY <1>2 DEF Relate
<1>4. Alike(heap, m) BY <1>2, StoredAlike DEF Tending, AllOK
<1>5. Alike(m, heap') BY <1>3, <1>4, StoredAlike DEF Alike
<1>6. Rests(heap, heap', Hand) BY <1>4, <1>5, AlikeJoin, AlikeRests
<1> QED BY <1>1, <1>6, RestsCareful, JottedStay, CopiedStay

(* A container gets elements that may be held. *)
LEMMA RefilledRests ==
  ASSUME NEW h, HeapOK(h, game), NEW k, NEW s \in DOMAIN h.records, NEW q, NEW X,
         k.records = [h.records EXCEPT ![s] = q], Refilled(h.records[s], q),
         ElementRefs(q.elements, q.kind, game)
           \subseteq ElementRefs(h.records[s].elements, h.records[s].kind, game) \cup X
  PROVE  Rests(h, k, X)
<1>1. IsFun(h.records) BY DEF HeapOK, Shaped
<1>2. More(h.records[s], q, X) BY DEF Refilled, More, Refs
<1> QED BY ONLY <1>1, <1>2, s \in DOMAIN h.records, k.records = [h.records EXCEPT ![s] = q], RewrittenRests

(* Such a store's records, and those of one that only promoted something. *)
LEMMA TendingHeld ==
  ASSUME Tending, NEW stored, Alike(heap, stored), NEW o \in Visible(heap)
  PROVE  ElementRefs(Of(stored, o).elements, Of(stored, o).kind, game) \subseteq Hand
<1>1. HeapOK(heap, game) BY DEF Tending, AllOK
<1>2. o.slot \in DOMAIN heap.records BY <1>1, VisibleOld
<1>3. Refs(heap.records[o.slot], game) \subseteq Hand BY <1>2 DEF Tending, Tended, Tidy, Hand
<1>4. SameButLife(heap.records[o.slot], stored.records[o.slot]) BY <1>2 DEF Alike
<1> QED BY <1>3, <1>4 DEF SameButLife, Refs, Of

(* A container is changed. *)
LEMMA ChangedCareful ==
  ASSUME Tending, HeapOK(heap', game), Descends(heap, heap'), NEW o \in Visible(heap), NEW stored, NEW after,
         Alike(heap, stored), after.status = "live" => Rests(stored, after, Hand), Changed(o, stored, after),
         heap'.status = "live"
  PROVE  Careful
<1>1. HeapOK(heap, game) /\ Listed(containers) /\ o \in Old(heap.next_identity)
  BY VisibleOld DEF Tending, AllOK, JournalsOK
<1>2. constructions' = constructions /\ journal' = journal /\ history' = history
  BY DEF Changed, frames
<1>3. Rests(heap, heap', Hand)
  <2>1. Rests(heap, stored, Hand) BY AlikeRests
  <2>2. heap' = stored \/ heap' = after BY DEF Changed
  <2> QED BY <2>1, <2>2, RestsJoin
<1>4. PICK d : d = Snapshot(stored, o) OBVIOUS
<1>5. SnapTidy(d, heap', Hand)
  <2>1. d.object = o /\ d.elements = Of(stored, o).elements BY <1>4 DEF Snapshot
  <2>2. SUFFICES ASSUME Live(heap', o) PROVE ElementRefs(d.elements, Of(heap', o).kind, game) \subseteq Hand
    BY <2>1 DEF SnapTidy
  <2>3. Of(heap', o).kind = Of(heap, o).kind /\ o.slot \in DOMAIN heap.records BY <1>1, <2>2, LiveBefore DEF Kin, Of
  <2>4. Of(stored, o).kind = Of(heap, o).kind BY <2>3 DEF Alike, SameButLife, Of
  <2> QED BY <2>1, <2>3, <2>4, TendingHeld
<1>6. \A x \in Snaps(containers', history') : x \in Snaps(containers, history) \/ x = d
  <2>1. CASE containers' = containers BY <1>2, <2>1
  <2>2. CASE containers' = Append(containers, Snapshot(stored, o))
    <3>1. Appended(containers, d, containers') BY <1>1, <1>4, <2>2, ListAppend
    <3>2. \A i \in DOMAIN containers' : containers'[i] = d \/ containers'[i] \in {containers[j] : j \in DOMAIN containers}
      BY <3>1 DEF Appended
    <3> QED BY <1>2, <3>2 DEF Snaps
  <2> QED BY <2>1, <2>2 DEF Changed
<1>7. Copied(heap, heap', Len(Statics), containers, history, containers', history')
  BY <1>5, <1>6 DEF Copied, Hand
<1>8. Jotted(heap, Len(Statics), journal, history, journal', history') BY <1>2, JottedStay
<1> QED BY <1>2, <1>3, <1>7, <1>8, RestsCareful

(* vector_append. *)
LEMMA VectorAppendCareful ==
  ASSUME Tending, HeapOK(heap', game), Descends(heap, heap'), NEW o \in OfKind("vector"), NEW v \in Values,
         VectorAppend(o, v), heap'.status = "live"
  PROVE  Careful
<1>1. AllOK /\ HeapOK(heap, game) /\ o \in Visible(heap) /\ Of(heap, o).kind = "vector" /\ v \in Hand \cup {Nil}
  BY ValuesOpen DEF OfKind, AllOK, Tending
<1> DEFINE stored == Stored(heap, o, v)
           r == Of(stored, o)
           l == Cardinality(DOMAIN r.elements)
           e == With(r.elements, l + 1, v)
           more == IF l + 1 > r.capacity THEN (l + 1) - r.capacity ELSE 0
           after == IF more > PropertyLimit - stored.charged THEN Failed(stored)
                    ELSE [stored EXCEPT !.records[o.slot].elements = With(@, l + 1, v),
                                        !.records[o.slot].capacity = @ + more, !.charged = @ + more]
<1>2. Changed(o, stored, after)
  BY ONLY VectorAppend(o, v), Zenon DEF VectorAppend
<1>3. Alike(heap, stored)
  <2> HIDE DEF stored
  <2>1. \A x : x = Stored(heap, o, v) => Alike(heap, x) BY <1>1, StoredAlike
  <2> QED BY <2>1 DEF stored
<1>4. r = stored.records[o.slot] BY DEF Of
<1> HIDE DEF stored, r
<1>5. Shaped(stored) /\ o.slot \in DOMAIN stored.records /\ RecordOK(r, stored.next_identity, game)
      /\ r.kind = "vector" /\ HeapOK(stored, game)
  BY <1>1, <1>3, <1>4, StoredContainer
<1> HIDE DEF l, more
<1>6. ASSUME after.status = "live" PROVE Rests(stored, after, Hand)
  <2>1. CASE more > PropertyLimit - stored.charged
    <3>1. after = Failed(stored) BY <2>1
    <3> HIDE DEF after
    <3> QED BY <1>5, <1>6, <3>1, FailedOK
  <2>2. CASE ~(more > PropertyLimit - stored.charged)
    <3>1. after = [stored EXCEPT !.records[o.slot].elements = With(@, l + 1, v),
                       !.records[o.slot].capacity = @ + more, !.charged = @ + more]
      BY <2>2
    <3> HIDE DEF after
    <3>2. PICK q : q = [r EXCEPT !.elements = With(r.elements, l + 1, v), !.capacity = r.capacity + more] OBVIOUS
    <3>3. after.records = [stored.records EXCEPT ![o.slot] = q]
      BY ONLY <1>4, <1>5, <3>1, <3>2 DEF Shaped
    <3>4. Refilled(r, q) /\ q.elements = e
      BY <1>5, <3>2 DEF Refilled, RecordOK
    <3>5. ElementRefs(q.elements, q.kind, game) \subseteq ElementRefs(r.elements, r.kind, game) \cup Hand
      <4>1. Range(e) \subseteq Range(r.elements) \cup {v} BY DEF Range, With
      <4> HIDE DEF e
      <4> QED BY <1>1, <1>5, <3>4, <4>1 DEF ElementRefs, Refilled
    <3> QED BY <1>4, <1>5, <3>3, <3>4, <3>5, RefilledRests
  <2> QED BY <2>1, <2>2
<1> HIDE DEF after
<1> QED BY <1>1, <1>2, <1>3, <1>6, ChangedCareful

(* vector_set. *)
LEMMA VectorSetCareful ==
  ASSUME Tending, HeapOK(heap', game), Descends(heap, heap'), NEW o \in OfKind("vector"), NEW v \in Values,
         NEW n \in DOMAIN Of(heap, o).elements, VectorSet(o, n, v), heap'.status = "live"
  PROVE  Careful
<1>1. AllOK /\ HeapOK(heap, game) /\ o \in Visible(heap) /\ Of(heap, o).kind = "vector" /\ v \in Hand \cup {Nil}
  BY ValuesOpen DEF OfKind, AllOK, Tending
<1> DEFINE stored == Stored(heap, o, v)
           r == Of(stored, o)
           e == [r.elements EXCEPT ![n] = v]
           after == [stored EXCEPT !.records[o.slot].elements[n] = v]
<1>2. Changed(o, stored, after)
  BY DEF VectorSet
<1>3. Alike(heap, stored)
  <2> HIDE DEF stored
  <2>1. \A x : x = Stored(heap, o, v) => Alike(heap, x) BY <1>1, StoredAlike
  <2> QED BY <2>1 DEF stored
<1>4. r = stored.records[o.slot] BY DEF Of
<1> HIDE DEF stored, r
<1>5. Shaped(stored) /\ o.slot \in DOMAIN stored.records /\ RecordOK(r, stored.next_identity, game)
      /\ r.kind = "vector" /\ IsFun(r.elements) /\ HeapOK(stored, game)
  BY <1>1, <1>3, <1>4, StoredContainer DEF ElementsOK
<1>6. Rests(stored, after, Hand)
  <2>1. after = [stored EXCEPT !.records[o.slot].elements[n] = v] OBVIOUS
  <2> HIDE DEF after
  <2>2. PICK q : q = [r EXCEPT !.elements = [r.elements EXCEPT ![n] = v]] OBVIOUS
  <2>3. after.records = [stored.records EXCEPT ![o.slot] = q]
    BY ONLY <1>4, <1>5, <2>1, <2>2 DEF Shaped
  <2>4. Refilled(r, q) /\ q.elements = e
    BY <1>5, <2>2 DEF Refilled, RecordOK
  <2>5. ElementRefs(q.elements, q.kind, game) \subseteq ElementRefs(r.elements, r.kind, game) \cup Hand
    <3>1. Range(e) \subseteq Range(r.elements) \cup {v} BY <1>5 DEF Range, IsFun
    <3> HIDE DEF e
    <3> QED BY <1>1, <1>5, <2>4, <3>1 DEF ElementRefs, Refilled
  <2> QED BY <1>4, <1>5, <2>3, <2>4, <2>5, RefilledRests
<1> HIDE DEF after
<1> QED BY <1>1, <1>2, <1>3, <1>6, ChangedCareful

(* vector_remove_range. *)
LEMMA VectorRemoveCareful ==
  ASSUME Tending, HeapOK(heap', game), Descends(heap, heap'), NEW o \in OfKind("vector"),
         NEW m \in DOMAIN Of(heap, o).elements,
         NEW n \in m..Cardinality(DOMAIN Of(heap, o).elements), VectorRemove(o, m, n), heap'.status = "live"
  PROVE  Careful
<1>1. AllOK /\ HeapOK(heap, game) /\ o \in Visible(heap) /\ Of(heap, o).kind = "vector"
  BY DEF OfKind, AllOK, Tending
<1> DEFINE r == Of(heap, o)
           c == Cardinality(DOMAIN r.elements)
           left == c - (n - m + 1)
           kept(s) == [x \in 1..left |-> s[IF x < m THEN x ELSE x + n - m + 1]]
           e == kept(r.elements)
           after == [heap EXCEPT !.records[o.slot].elements = kept(@)]
<1>2. Changed(o, heap, after)
  BY DEF VectorRemove
<1>3. Alike(heap, heap) BY <1>1, AlikeSelf
<1>4. r = heap.records[o.slot] BY DEF Of
<1>5. /\ Shaped(heap) /\ o.slot \in DOMAIN heap.records /\ RecordOK(r, heap.next_identity, game)
      /\ r.kind = "vector" /\ ElementsOK(r.elements, "vector", heap.next_identity, game)
  <2> HIDE DEF r
  <2> QED BY <1>1, <1>3, <1>4, StoredContainer
<1>6. Range(e) \subseteq Range(r.elements)
  <2>1. m \in DOMAIN r.elements /\ n \in m..c /\ DOMAIN r.elements = 1..c /\ c \in Nat
    <3>1. n \in m..c /\ m \in DOMAIN r.elements OBVIOUS
    <3>2. DOMAIN r.elements = 1..c /\ IsFiniteSet(DOMAIN r.elements)
      <4> HIDE DEF r
      <4> QED BY <1>5 DEF ElementsOK
    <3>3. c \in Nat BY <3>2, FS_CardinalityType
    <3> QED BY <3>1, <3>2, <3>3
  <2> HIDE DEF r, c
  <2>2. \A x \in 1..left : (IF x < m THEN x ELSE x + n - m + 1) \in 1..c
    BY <2>1
  <2> QED BY <2>1, <2>2 DEF Range
<1>7. Rests(heap, after, Hand)
  <2>1. after = [heap EXCEPT !.records[o.slot].elements = e] BY <1>4, <1>5 DEF Shaped
  <2> HIDE DEF after, r, e
  <2>2. PICK q : q = [r EXCEPT !.elements = e] OBVIOUS
  <2>3. after.records = [heap.records EXCEPT ![o.slot] = q]
    BY ONLY <1>4, <1>5, <2>1, <2>2 DEF Shaped
  <2>4. Refilled(r, q) /\ q.elements = e
    BY <1>5, <2>2 DEF Refilled, RecordOK
  <2>5. ElementRefs(q.elements, q.kind, game) \subseteq ElementRefs(r.elements, r.kind, game) \cup Hand
    BY <1>5, <1>6, <2>4 DEF ElementRefs, Refilled
  <2> QED BY <1>1, <1>4, <1>5, <2>3, <2>4, <2>5, RefilledRests
<1> HIDE DEF after
<1> QED BY <1>1, <1>2, <1>3, <1>7, ChangedCareful

(* lookup_set. *)
LEMMA LookupSetCareful ==
  ASSUME Tending, HeapOK(heap', game), Descends(heap, heap'), NEW o \in OfKind("table"), NEW v \in Values,
         NEW k \in Keys \cup OfKind("plain") \cup OfKind("table"), LookupSet(o, k, v), heap'.status = "live"
  PROVE  Careful
<1>1. AllOK /\ HeapOK(heap, game) /\ o \in Visible(heap) /\ Of(heap, o).kind = "table" /\ v \in Hand \cup {Nil}
      /\ k \in game.keys \cup Hand
  BY ValuesOpen DEF OfKind, AllOK, Tending, Keys
<1> DEFINE stored == Stored(heap, o, v)
           keyed == IF k \in Keys THEN stored ELSE Stored(stored, o, k)
           r == Of(keyed, o)
           more == IF k \in DOMAIN r.elements THEN 0 ELSE 2
           e == With(r.elements, k, v)
           after == IF more > PropertyLimit - keyed.charged THEN Failed(keyed)
               ELSE [keyed EXCEPT !.records[o.slot].elements = With(@, k, v),
                                  !.charged = @ + more]
<1>2. Changed(o, stored, after)
  BY DEF LookupSet
<1>3. Alike(heap, stored)
  <2> HIDE DEF stored
  <2>1. \A x : x = Stored(heap, o, v) => Alike(heap, x) BY <1>1, StoredAlike
  <2> QED BY <2>1 DEF stored
<1>4. Alike(stored, keyed)
  <2>0. HeapOK(stored, game)
    <3> HIDE DEF stored
    <3> QED BY <1>3 DEF Alike
  <2>1. CASE k \in Keys
    <3>1. keyed = stored BY <2>1
    <3> HIDE DEF stored, keyed
    <3> QED BY <3>1, <2>0, AlikeSelf
  <2>2. CASE k \notin Keys
    <3>1. keyed = Stored(stored, o, k) BY <2>2
    <3> HIDE DEF stored, keyed
    <3> QED BY <3>1, <2>0, StoredAlike
  <2> QED BY <2>1, <2>2
<1>5. r = keyed.records[o.slot] BY DEF Of
<1> HIDE DEF stored, keyed, r
<1>6. Alike(heap, keyed) BY <1>3, <1>4, AlikeJoin
<1>7. Shaped(keyed) /\ o.slot \in DOMAIN keyed.records /\ RecordOK(r, keyed.next_identity, game)
      /\ r.kind = "table" /\ HeapOK(keyed, game)
  BY <1>1, <1>5, <1>6, StoredContainer
<1> HIDE DEF more
<1>8. ASSUME after.status = "live" PROVE Rests(keyed, after, Hand)
  <2>1. CASE more > PropertyLimit - keyed.charged
    <3>1. after = Failed(keyed) BY <2>1
    <3> HIDE DEF after
    <3> QED BY <1>7, <1>8, <3>1, FailedOK
  <2>2. CASE ~(more > PropertyLimit - keyed.charged)
    <3>1. after = [keyed EXCEPT !.records[o.slot].elements = With(@, k, v), !.charged = @ + more]
      BY <2>2
    <3> HIDE DEF after
    <3>2. PICK q : q = [r EXCEPT !.elements = With(r.elements, k, v)] OBVIOUS
    <3>3. after.records = [keyed.records EXCEPT ![o.slot] = q]
      BY ONLY <1>5, <1>7, <3>1, <3>2 DEF Shaped
    <3>4. Refilled(r, q) /\ q.elements = e
      BY <1>7, <3>2 DEF Refilled, RecordOK
    <3>5. ElementRefs(q.elements, q.kind, game) \subseteq ElementRefs(r.elements, r.kind, game) \cup Hand
      <4>1. Range(e) \subseteq Range(r.elements) \cup {v} /\ DOMAIN e = DOMAIN r.elements \cup {k}
        BY DEF Range, With
      <4> HIDE DEF e
      <4> QED BY <1>1, <1>7, <3>4, <4>1 DEF ElementRefs, Refilled
    <3> QED BY <1>5, <1>7, <3>3, <3>4, <3>5, RefilledRests
  <2> QED BY <2>1, <2>2
<1> HIDE DEF after
<1>9. after.status = "live" => Rests(stored, after, Hand)
  <2>1. Rests(stored, keyed, Hand) BY <1>4, AlikeRests
  <2> QED BY <1>8, <2>1, RestsJoin
<1> QED BY <1>1, <1>2, <1>3, <1>9, ChangedCareful

(* Records stay, beside new ones. *)
Gains(h, k, B, X) ==
  /\ DOMAIN h.records \subseteq DOMAIN k.records
  /\ \A s \in DOMAIN k.records : IF s \in DOMAIN h.records THEN More(h.records[s], k.records[s], X)
                                 ELSE Fresh(h, k.records[s], HandleAt(k, s), B)

LEMMA GainsDraws ==
  ASSUME NEW h, NEW k, NEW B, NEW X, Gains(h, k, B, X), NEW ds
  PROVE  Draws(h, k, B, X) /\ Spares(h, k, ds)
<1>1. Draws(h, k, B, X) BY DEF Gains, Draws
<1>2. ASSUME NEW v, Live(h, v) PROVE Live(k, v)
  <2>1. v.slot \in DOMAIN h.records /\ v.slot \in DOMAIN k.records BY <1>2 DEF Live, Gains
  <2>2. k.records[v.slot].born = h.records[v.slot].born BY <2>1 DEF Gains, More
  <2> QED BY <1>2, <2>1, <2>2 DEF Live
<1> QED BY <1>1, <1>2 DEF Spares


(* A vector is made. *)
LEMMA NewContainerCareful ==
  ASSUME Tending, NEW c \in 0..1, NewContainer("vector", c), heap'.status = "live"
  PROVE  Careful
<1>0. HeapOK(heap, game) /\ default_lifetime \in {"World", "Turn"} /\ heap.next_identity \in Int
      /\ constructions' = constructions /\ UNCHANGED <<journal, containers, history>>
  <2>1. HeapOK(heap, game) /\ default_lifetime \in {"World", "Turn"} BY DEF Tending, AllOK, OtherTypes
  <2>2. heap.next_identity \in Int BY <2>1 DEF HeapOK
  <2> QED BY <2>1, <2>2 DEF NewContainer, frames, journals
<1>1. heap' # Failed(heap) BY <1>0, FailedOK
<1>2. CanCreate(heap) /\ \E s \in Slots(heap) :
                heap' = [Created(heap, s, default_lifetime) EXCEPT
                           !.records[s].kind = "vector", !.records[s].capacity = c,
                           !.charged = @ + c]
  BY <1>1 DEF NewContainer
<1>3. PICK s \in Slots(heap) :
                heap' = [Created(heap, s, default_lifetime) EXCEPT
                           !.records[s].kind = "vector", !.records[s].capacity = c,
                           !.charged = @ + c]
  BY <1>2
<1>4. PICK m : m = Created(heap, s, default_lifetime) OBVIOUS
<1>5. HeapOK(m, game) /\ s \in DOMAIN m.records
      /\ m.records[s] = Blank(heap.next_identity, default_lifetime) /\ s \notin DOMAIN heap.records
      /\ DOMAIN m.records = DOMAIN heap.records \cup {s}
      /\ \A t \in DOMAIN heap.records : m.records[t] = heap.records[t]
  BY <1>0, <1>2, <1>4, CreatedOK
<1>6. PICK q : q = [m.records[s] EXCEPT !.kind = "vector", !.capacity = c] OBVIOUS
<1>7. Shaped(m) BY <1>5 DEF HeapOK
<1>8. heap'.records = [m.records EXCEPT ![s] = q]
  <2>1. heap' = [m EXCEPT !.records[s].kind = "vector", !.records[s].capacity = c, !.charged = @ + c]
    BY <1>3, <1>4
  <2> QED BY ONLY <1>5, <1>6, <1>7, <2>1 DEF Shaped
<1>9. /\ DOMAIN heap'.records = DOMAIN heap.records \cup {s} /\ heap'.records[s] = q
      /\ \A t \in DOMAIN heap.records : heap'.records[t] = heap.records[t]
  BY <1>5, <1>7, <1>8 DEF Shaped, IsFun
<1>10. q.born = heap.next_identity /\ Refs(q, game) = {} /\ DOMAIN q.owned = {} /\ q.children = {}
  BY <1>5, <1>6 DEF Blank, Refs, ElementRefs, Nothing, Range
<1>11. Fresh(heap, q, HandleAt(heap', s), Running(constructions'))
  BY <1>0, <1>10 DEF Fresh
<1>12. Gains(heap, heap', Running(constructions'), Hand)
  BY <1>5, <1>9, <1>11 DEF Gains, More
<1>13. Draws(heap, heap', Running(constructions'), Hand) /\ Spares(heap, heap', despawned')
  BY <1>12, GainsDraws
<1> QED BY <1>0, <1>13, JottedStay, CopiedStay DEF Careful, Drawn, Hand

(* An activation with its instance. *)
Raises(h, s, adopted, B, X) ==
  \A k : k = [adopted EXCEPT !.records[s].prototypes = 1, !.charged = @ + 1] => Gains(h, k, B, X)

LEMMA BegunGains ==
  ASSUME NEW h, HeapOK(h, game), NEW l \in {"World", "Turn"}, CanCreate(h), NEW x \in Slots(h),
         NEW first, first = Created(h, x, l), CanCreate(first), NEW a, a = HandleAt(first, x),
         NEW s \in Slots(first), NEW second, second = Created(first, s, l), NEW o, o = HandleAt(second, s),
         NEW adopted, adopted = Adopted(second, a, o), NEW B, <<a, o>> \in B, NEW X
  PROVE  Raises(h, s, adopted, B, X)
<1> SUFFICES ASSUME NEW k, k = [adopted EXCEPT !.records[s].prototypes = 1, !.charged = @ + 1]
             PROVE  Gains(h, k, B, X)
  BY DEF Raises
<1>1. /\ HeapOK(first, game) /\ DOMAIN first.records = DOMAIN h.records \cup {x} /\ x \notin DOMAIN h.records
      /\ first.records[x] = Blank(h.next_identity, l) /\ first.next_identity = h.next_identity + 1
      /\ \A t \in DOMAIN h.records : first.records[t] = h.records[t]
  BY CreatedOK
<1>2. /\ HeapOK(second, game) /\ DOMAIN second.records = DOMAIN first.records \cup {s}
      /\ s \notin DOMAIN first.records /\ \A t \in DOMAIN first.records : second.records[t] = first.records[t]
      /\ second.records[s] = Blank(first.next_identity, l)
      /\ second.next_identity = first.next_identity + 1
      /\ second.roots = first.roots \cup {[slot |-> s, born |-> first.next_identity]}
  BY <1>1, CreatedOK
<1>3. a = [slot |-> x, born |-> h.next_identity] /\ o = [slot |-> s, born |-> first.next_identity]
  BY <1>1, <1>2 DEF HandleAt, Blank
<1>4. h.next_identity \in Int
  BY DEF HeapOK
<1>5. a.slot = x /\ o.slot = s /\ a.born = h.next_identity /\ o.born = h.next_identity + 1 /\ x # s
  BY <1>1, <1>2, <1>3
<1>6. a \in Old(first.next_identity) /\ a # Nil /\ Live(first, a)
  BY <1>1, HandleFacts
<1>7. Live(second, a) /\ a \in Old(second.next_identity)
  <2>1. Live(second, a)
    BY <1>2, <1>6 DEF Live
  <2>2. first.next_identity \in Int /\ second.next_identity \in Int /\ first.next_identity <= second.next_identity
    BY <1>1, <1>2, <1>4
  <2> QED BY <1>6, <2>1, <2>2, OldGrows
<1>8. o \in second.roots /\ a.born < o.born
  BY <1>2, <1>3, <1>4, <1>5
<1>9. /\ HeapOK(adopted, game) /\ DOMAIN adopted.records = DOMAIN second.records
      /\ adopted.records[s] = [second.records[s] EXCEPT !.parent = a]
      /\ \A t \in DOMAIN second.records \ {s, x} : adopted.records[t] = second.records[t]
      /\ adopted.records[x] = [second.records[x] EXCEPT !.children = @ \cup {o}]
  <2>1. HeapOK(second, game) /\ adopted = Adopted(second, a, o) BY <1>2
  <2>2. /\ HeapOK(adopted, game) /\ DOMAIN adopted.records = DOMAIN second.records
        /\ adopted.records[o.slot] = [second.records[o.slot] EXCEPT !.parent = a]
        /\ \A t \in DOMAIN second.records \ {o.slot, a.slot} : adopted.records[t] = second.records[t]
        /\ adopted.records[a.slot] = [second.records[a.slot] EXCEPT !.children = @ \cup {o}]
    BY ONLY <2>1, <1>7, <1>8, AdoptedOK
  <2> QED BY <1>5, <2>2
<1>10. PICK q : q = [adopted.records[s] EXCEPT !.prototypes = 1] OBVIOUS
<1>11. DOMAIN k.records = DOMAIN adopted.records /\ k.records[s] = q
       /\ \A t \in DOMAIN adopted.records : t # s => k.records[t] = adopted.records[t]
  <2>1. Shaped(adopted) /\ s \in DOMAIN adopted.records BY <1>2, <1>9 DEF HeapOK
  <2> QED BY ONLY <2>1, <1>10, k = [adopted EXCEPT !.records[s].prototypes = 1, !.charged = @ + 1] DEF Shaped, IsFun
<1>12. Fresh(h, k.records[s], HandleAt(k, s), B)
  <2>1. q.born = h.next_identity + 1 /\ q.children = {} /\ DOMAIN q.owned = {} /\ Refs(q, game) = {}
    <3>1. /\ q.born = h.next_identity + 1 /\ q.children = {} /\ q.owned = Nothing /\ q.properties = Nothing
          /\ q.elements = Nothing /\ q.kind = "plain"
      BY <1>1, <1>2, <1>9, <1>10 DEF Blank
    <3>2. DOMAIN Nothing = {} /\ Range(Nothing) = {} BY DEF Nothing, Range
    <3>3. Refs(q, game) = {} BY ONLY <3>1, <3>2 DEF Refs, ElementRefs
    <3> QED BY <3>1, <3>2, <3>3
  <2>2. Fresh(h, q, HandleAt(k, s), B)
    <3> HIDE DEF Refs
    <3> QED BY <1>4, <2>1 DEF Fresh
  <2> QED BY <1>11, <2>2
<1>13. Fresh(h, k.records[x], HandleAt(k, x), B)
  <2>0. x \in DOMAIN first.records /\ x \in DOMAIN adopted.records /\ x # s BY <1>1, <1>2, <1>5, <1>9
  <2>1. k.records[x] = [Blank(h.next_identity, l) EXCEPT !.children = @ \cup {o}]
    <3>1. k.records[x] = adopted.records[x] BY <2>0, <1>11
    <3>2. second.records[x] = Blank(h.next_identity, l) BY <2>0, <1>1, <1>2
    <3> QED BY <3>1, <3>2, <1>9
  <2>2. k.records[x].born = h.next_identity /\ k.records[x].children = {o} /\ DOMAIN k.records[x].owned = {}
        /\ Refs(k.records[x], game) = {}
    <3>1. PICK w : w = k.records[x] OBVIOUS
    <3>2. /\ w.born = h.next_identity /\ w.children = {o} /\ w.owned = Nothing /\ w.properties = Nothing
          /\ w.elements = Nothing /\ w.kind = "plain"
      BY ONLY <2>1, <3>1 DEF Blank
    <3>3. DOMAIN Nothing = {} /\ Range(Nothing) = {} BY DEF Nothing, Range
    <3>4. Refs(w, game) = {} BY ONLY <3>2, <3>3 DEF Refs, ElementRefs
    <3> QED BY <3>1, <3>2, <3>3, <3>4
  <2>3. HandleAt(k, x) = a BY <1>3, <2>2 DEF HandleAt
  <2> QED BY <1>4, <2>2, <2>3 DEF Fresh
<1>14. \A t \in DOMAIN h.records : k.records[t] = h.records[t]
  BY <1>1, <1>2, <1>9, <1>11
<1> QED BY <1>1, <1>2, <1>9, <1>11, <1>12, <1>13, <1>14 DEF Gains, More

(* A constructor begins. *)
LEMMA BeginConstructionCareful ==
  ASSUME Tending, NEW owner \in {"Published", "Owned"}, BeginConstruction(owner), heap'.status = "live"
  PROVE  Careful
<1>0. HeapOK(heap, game) /\ default_lifetime \in {"World", "Turn"} /\ Listed(constructions)
      /\ UNCHANGED <<journal, containers, history>>
  BY DEF Tending, AllOK, OtherTypes, FramesWell, FrameTypes, BeginConstruction, journals
<1>1. CanCreate(heap)
  <2>1. SUFFICES ASSUME ~CanCreate(heap) PROVE FALSE OBVIOUS
  <2>2. heap' = Failed(heap) BY <2>1 DEF BeginConstruction
  <2> QED BY <1>0, <2>2, FailedOK
<1>2. PICK x \in Slots(heap) :
          LET first == Created(heap, x, default_lifetime)
              activation == HandleAt(first, x)
          IN  IF ~CanCreate(first) THEN heap' = Failed(first) /\ UNCHANGED constructions
              ELSE \E s \in Slots(first) :
                LET second == Created(first, s, default_lifetime)
                    object == HandleAt(second, s)
                    adopted == Adopted(second, activation, object)
                IN  IF adopted.charged >= PropertyLimit
                    THEN heap' = Failed(adopted) /\ UNCHANGED constructions
                    ELSE /\ heap' = [adopted EXCEPT !.records[s].prototypes = 1,
                                                 !.charged = @ + 1]
                         /\ constructions' = Append(constructions,
                              [owner |-> owner, activation |-> activation, object |-> object])
  BY <1>1 DEF BeginConstruction
<1> DEFINE first == Created(heap, x, default_lifetime)
           a == HandleAt(first, x)
<1>3. HeapOK(first, game)
  <2>1. first = Created(heap, x, default_lifetime) OBVIOUS
  <2> HIDE DEF first
  <2> QED BY <1>0, <1>1, <2>1, CreatedOK
<1>4. CanCreate(first)
  <2>1. SUFFICES ASSUME ~CanCreate(first) PROVE FALSE OBVIOUS
  <2>2. heap' = Failed(first) BY <1>2, <2>1
  <2> HIDE DEF first
  <2> QED BY <1>3, <2>2, FailedOK
<1>5. PICK s \in Slots(first) :
                LET second == Created(first, s, default_lifetime)
                    object == HandleAt(second, s)
                    adopted == Adopted(second, a, object)
                IN  IF adopted.charged >= PropertyLimit
                    THEN heap' = Failed(adopted) /\ UNCHANGED constructions
                    ELSE /\ heap' = [adopted EXCEPT !.records[s].prototypes = 1, !.charged = @ + 1]
                         /\ constructions' = Append(constructions,
                              [owner |-> owner, activation |-> a, object |-> object])
  BY <1>2, <1>4
<1> DEFINE second == Created(first, s, default_lifetime)
           o == HandleAt(second, s)
           adopted == Adopted(second, a, o)
           d == [owner |-> owner, activation |-> a, object |-> o]
<1>6. \/ heap' = Failed(adopted)
      \/ /\ heap' = [adopted EXCEPT !.records[s].prototypes = 1, !.charged = @ + 1]
         /\ constructions' = Append(constructions, d)
  BY <1>5
<1>7. d.activation = a /\ d.object = o OBVIOUS
<1>8. /\ first = Created(heap, x, default_lifetime) /\ a = HandleAt(first, x)
      /\ second = Created(first, s, default_lifetime) /\ o = HandleAt(second, s)
      /\ adopted = Adopted(second, a, o)
  OBVIOUS
<1> HIDE DEF first, a, second, o, adopted, d
<1>9. HeapOK(adopted, game)
  <2>1. Constructs(heap, s, a, o, adopted) BY <1>0, <1>1, <1>4, <1>8, BegunOK
  <2> QED BY <2>1 DEF Constructs, Keeps
<1>10. /\ heap' = [adopted EXCEPT !.records[s].prototypes = 1, !.charged = @ + 1]
       /\ constructions' = Append(constructions, d)
  BY <1>6, <1>9, FailedOK
<1>11. Appended(constructions, d, constructions') BY <1>0, <1>10, ListAppend
<1>12. PICK B : B = Running(constructions') OBVIOUS
<1>13. <<a, o>> \in B /\ Running(constructions) \subseteq B
  <2>1. /\ \A i \in DOMAIN constructions : i \in DOMAIN constructions' /\ constructions'[i] = constructions[i]
        /\ Len(constructions) + 1 \in DOMAIN constructions' /\ constructions'[Len(constructions) + 1] = d
    <3>1. Len(constructions) \in Nat BY <1>0, ListFacts
    <3> QED BY <1>11, <3>1 DEF Appended
  <2> QED BY <1>7, <1>12, <2>1 DEF Running
<1>14. Gains(heap, heap', B, Hand)
  <2>1. <<a, o>> \in B /\ x \in Slots(heap) /\ s \in Slots(first) BY <1>13
  <2>2. Raises(heap, s, adopted, B, Hand) BY ONLY <1>0, <1>1, <1>4, <1>8, <2>1, BegunGains
  <2> QED BY <1>10, <2>2 DEF Raises
<1>15. Draws(heap, heap', B, Hand) /\ Spares(heap, heap', despawned') BY <1>14, GainsDraws
<1> QED BY <1>0, <1>12, <1>13, <1>15, JottedStay, CopiedStay DEF Careful, Drawn, Hand

(* The constructors that run on when the innermost is done. *)
LEMMA FrontRunning ==
  ASSUME NEW cs, Listed(cs), cs # <<>>, NEW c, c = Last(cs), NEW x \in Running(cs)
  PROVE  x \in Running(Front(cs)) \/ x = <<c.activation, c.object>>
<1>1. PICK t : t = Front(cs) OBVIOUS
<1>2. Shortened(cs, t, 0) /\ c = cs[Len(cs)] BY <1>1, ListFront
<1>3. PICK i \in DOMAIN cs : x = <<cs[i].activation, cs[i].object>> BY DEF Running
<1>4. Len(cs) \in Nat /\ DOMAIN cs = 1..Len(cs) BY ListFacts
<1>5. CASE i = Len(cs) BY <1>2, <1>3, <1>5
<1>6. CASE i # Len(cs)
  <2>1. i \in DOMAIN t /\ i + 0 = i BY <1>2, <1>4, <1>6 DEF Shortened
  <2>2. t[i] = cs[i] BY <1>2, <2>1 DEF Shortened
  <2> QED BY <1>1, <1>3, <2>1, <2>2 DEF Running
<1> QED BY <1>5, <1>6

(* What an instance is taken from is left alone. *)
LEMMA PublishedGone ==
  ASSUME NEW h, HeapOK(h, game), NEW c, c.activation \in h.roots, Live(h, c.object),
         c.object \in Old(h.next_identity), Of(h, c.object).parent = c.activation,
         Of(h, c.activation).children \subseteq {c.object}, DOMAIN Of(h, c.activation).owned = {},
         NEW k, k = Published(h, c)
  PROVE  HeapOK(k, game) /\ Fewer(h, k) /\ ~Live(k, c.activation)
         /\ \A s \in DOMAIN h.records : s # c.activation.slot => s \in DOMAIN k.records
<1> DEFINE a == c.activation
           o == c.object
<1>1. PICK m : m = Orphaned(h, a, o) OBVIOUS
<1>2. Live(h, a) /\ a \in Old(h.next_identity) /\ o \in Of(h, a).children
  <2>1. Live(h, a) /\ a \in Old(h.next_identity) BY DEF HeapOK, TreeOK
  <2>2. a # Nil /\ HandleAt(h, o.slot) = o /\ o.slot \in DOMAIN h.records
    BY <2>1, HandleFacts DEF Live
  <2>3. h.records[o.slot].parent = a BY DEF Of
  <2> QED BY <2>1, <2>2, <2>3 DEF HeapOK, TreeOK
<1>3. Fewer(h, k) /\ HeapOK(k, game) BY PublishedFirm DEF Firm
<1>4. k = DestroyedRoot(m, a) BY <1>1 DEF Published
<1>5. Of(h, a).children \subseteq {o} /\ a \in h.roots /\ DOMAIN Of(h, a).owned = {} OBVIOUS
<1> HIDE DEF a, o
<1>6. HeapOK(m, game) /\ m.roots = h.roots \cup {o} /\ DOMAIN m.records = DOMAIN h.records
  BY <1>1, <1>2, <1>5, OrphanedOK
<1>7. m.records[a.slot].children = {}
  <2>1. a.slot \in DOMAIN h.records /\ Shaped(h) BY <1>2 DEF Live, HeapOK
  <2>2. o.slot # a.slot
    <3>1. Of(h, o).parent = a /\ Of(h, a).parent = Nil /\ a # Nil
      BY <1>2, <1>5 DEF HeapOK, TreeOK, Live, a, o
    <3> QED BY <3>1 DEF Of
  <2>3. m.records[a.slot] = [h.records[a.slot] EXCEPT !.children = @ \ {o}]
    <3>1. /\ m.records = [[h.records EXCEPT ![o.slot].parent = Nil] EXCEPT ![a.slot].children = @ \ {o}]
      BY ONLY <1>1, <2>1 DEF Orphaned, Shaped
    <3> QED BY <2>1, <2>2, <3>1 DEF IsFun
  <2>4. RecordOK(h.records[a.slot], h.next_identity, game) BY <2>1 DEF HeapOK
  <2>5. m.records[a.slot].children = h.records[a.slot].children \ {o} BY <2>3, <2>4 DEF RecordOK
  <2> QED BY <1>5, <2>5 DEF Of
<1>8. PICK S : S = Subtree(m, {a.slot}) OBVIOUS
<1>9. S \subseteq {a.slot} /\ a.slot \in S
  <2>1. Cardinality(DOMAIN m.records) \in Nat /\ Closed(m, {a.slot})
    BY <1>6, <1>7, HeapFinite DEF Closed
  <2>2. a.slot \in DOMAIN m.records BY <1>2, <1>6 DEF Live
  <2>3. Rooted(m, {a.slot}) BY <1>6, <2>2, HeapFinite DEF Rooted
  <2> QED BY <1>8, <2>1, <2>3, SubtreeLeast, SubtreeClosed
<1> DEFINE d == Destroyed(m, {a.slot})
<1>10. k.records = d.records
  BY <1>4 DEF DestroyedRoot, Destroyed
<1>11. Destroys(m, d, S)
  <2>1. Shaped(m) BY <1>6 DEF HeapOK
  <2> HIDE DEF d
  <2>2. \A x : x = Destroyed(m, {a.slot}) => Destroys(m, x, S) BY <1>8, <2>1, DestroyedIs
  <2> QED BY <2>2 DEF d
<1> HIDE DEF d
<1>12. DOMAIN k.records = (DOMAIN h.records) \ S BY <1>6, <1>10, <1>11 DEF Destroys
<1>13. ~Live(k, a) BY <1>9, <1>12 DEF Live
<1> QED BY <1>3, <1>9, <1>12, <1>13 DEF a

(* The innermost activation has no other child than its instance. *)
LEMMA RunningTidy ==
  ASSUME Tending, constructions # <<>>, NEW c, c = Last(constructions)
  PROVE  /\ c.activation \in heap.roots /\ c.object \in Old(heap.next_identity) /\ c.owner = "Published"
         /\ Live(heap, c.object) => Of(heap, c.object).parent = c.activation
         /\ Of(heap, c.activation).children \subseteq {c.object}
         /\ c.activation \notin Hand /\ DOMAIN Of(heap, c.activation).owned = {}
<1>1. PICK n : n = Len(Statics) OBVIOUS
<1>2. /\ FrameTypes(heap.next_identity, constructions, exceptions) /\ HeapOK(heap, game) /\ AllOK
      /\ FramesOK(heap, n, constructions, exceptions, despawned) /\ heap.status = "live" /\ n \in Int
  BY <1>1, GameTypes DEF Tending, AllOK, FramesWell, HeapOK, Statics
<1>3. Listed(constructions) BY <1>2 DEF FrameTypes
<1>4. Len(constructions) \in DOMAIN constructions /\ c = constructions[Len(constructions)]
  <2>1. PICK t : t = Front(constructions) OBVIOUS
  <2> QED BY <1>3, <2>1, ListFront
<1>5. /\ c.activation \in heap.roots /\ c.object \in Old(heap.next_identity)
      /\ Live(heap, c.object) => Of(heap, c.object).parent = c.activation
      /\ DOMAIN Of(heap, c.activation).owned = {}
  BY <1>2, RunningOK
<1>6. c.owner = "Published" BY <1>4 DEF Tending
<1>7. PICK a : a = c.activation OBVIOUS
<1>8. Live(heap, a) /\ a \in Old(heap.next_identity) /\ a.slot \in DOMAIN heap.records /\ HandleAt(heap, a.slot) = a
  <2>1. Live(heap, a) /\ a \in Old(heap.next_identity) BY <1>2, <1>5, <1>7 DEF HeapOK, TreeOK
  <2> QED BY <1>2, <2>1, HandleFacts DEF Live
<1>9. Of(heap, a).kind = "plain" /\ Of(heap, a).prototypes = 0 /\ a.born > n
  BY <1>2, <1>4, <1>7 DEF FramesOK, FrameOK
<1>10. a \notin Hand BY <1>1, <1>8, <1>9 DEF Hand, Open, Shown
<1>11. ASSUME NEW x \in Of(heap, a).children PROVE x = c.object
  <2>1. RecordTidy(heap.records[a.slot], a, n, Running(constructions))
    <3>1. RecordTidy(heap.records[a.slot], HandleAt(heap, a.slot), n, Running(constructions))
      BY <1>1, <1>8 DEF Tending, Tended, Tidy
    <3> QED BY <1>8, <3>1
  <2>2. heap.records[a.slot].born = a.born /\ a.born \in Int BY <1>8 DEF Live, Old
  <2>3. <<a, x>> \in Running(constructions)
    <3>1. heap.records[a.slot].born <= n \/ <<a, x>> \in Running(constructions)
      BY <1>11, <2>1 DEF RecordTidy, Of
    <3> QED BY <1>2, <1>9, <2>2, <3>1
  <2>4. PICK i \in DOMAIN constructions : <<a, x>> = <<constructions[i].activation, constructions[i].object>>
    BY <2>3 DEF Running
  <2>5. constructions[i].activation = a /\ constructions[i].object = x BY <2>4
  <2>6. i = Len(constructions) BY <1>2, <1>4, <1>7, <2>5 DEF FramesOK
  <2> QED BY <1>4, <2>5, <2>6
<1> QED BY <1>5, <1>6, <1>7, <1>10, <1>11

(* An instance is handed out. *)
LEMMA PublishedCareful ==
  ASSUME Tending, constructions # <<>>, NEW c, c = Last(constructions), Live(heap, c.object),
         heap' = Published(heap, c), constructions' = Front(constructions), UNCHANGED <<journal, containers, history>>
  PROVE  Careful
<1>1. HeapOK(heap, game) /\ Listed(constructions) BY DEF Tending, AllOK, FramesWell, FrameTypes
<1>2. PICK a : a = c.activation OBVIOUS
<1>3. /\ a \in heap.roots /\ a \in Old(heap.next_identity) /\ Live(heap, a) /\ a \notin Hand
      /\ HeapOK(heap', game) /\ Fewer(heap, heap') /\ ~Live(heap', a)
      /\ \A s \in DOMAIN heap.records : s # a.slot => s \in DOMAIN heap'.records
  <2>1. /\ c.activation \in heap.roots /\ c.object \in Old(heap.next_identity)
        /\ Of(heap, c.object).parent = c.activation /\ c.activation \notin Hand
        /\ Of(heap, c.activation).children \subseteq {c.object}
        /\ DOMAIN Of(heap, c.activation).owned = {}
    BY RunningTidy
  <2>2. /\ HeapOK(heap', game) /\ Fewer(heap, heap') /\ ~Live(heap', c.activation)
        /\ \A s \in DOMAIN heap.records : s # c.activation.slot => s \in DOMAIN heap'.records
    BY <1>1, <2>1, PublishedGone
  <2>3. a \in Old(heap.next_identity) /\ Live(heap, a) BY <1>1, <1>2, <2>1 DEF HeapOK, TreeOK
  <2> QED BY <1>2, <2>1, <2>2, <2>3
<1>4. Draws(heap, heap', Running(constructions'), Hand) BY <1>3, FewerDraws
<1>5. Spares(heap, heap', despawned')
  <2>1. SUFFICES ASSUME NEW s \in DOMAIN heap.records, NEW v \in Refs(heap.records[s], game), Live(heap, v)
                 PROVE  Live(heap', v)
    BY DEF Spares
  <2>2. v \in Hand BY DEF Tending, Tended, Tidy, Hand
  <2>3. v \in Old(heap.next_identity) /\ v # a BY <1>3, <2>2 DEF Hand, Open
  <2>4. v.slot # a.slot
    <3>1. HandleAt(heap, v.slot) = v /\ HandleAt(heap, a.slot) = a BY <1>1, <1>3, <2>1, <2>3, HandleFacts
    <3> QED BY <2>3, <3>1
  <2>5. v.slot \in DOMAIN heap'.records BY <1>3, <2>1, <2>4 DEF Live
  <2>6. heap'.records[v.slot].born = heap.records[v.slot].born BY <1>3, <2>5 DEF Fewer, Lesser
  <2> QED BY <2>1, <2>5, <2>6 DEF Live
<1>6. \A x \in Running(constructions) : x \in Running(constructions') \/ ~Live(heap', x[1])
  <2>1. SUFFICES ASSUME NEW x \in Running(constructions), x \notin Running(constructions') PROVE ~Live(heap', x[1])
    OBVIOUS
  <2>2. x = <<c.activation, c.object>> BY <1>1, <2>1, FrontRunning
  <2>3. x[1] = a BY <1>2, <2>2
  <2> QED BY <1>3, <2>3
<1> QED BY <1>4, <1>5, <1>6, JottedStay, CopiedStay DEF Careful, Drawn, Hand

(* A constructor returns. *)
LEMMA FinishPublishedCareful ==
  ASSUME Tending, FinishPublished PROVE Careful
<1>1. PICK c : c = Last(constructions) OBVIOUS
<1>2. /\ constructions # <<>> /\ constructions' = Front(constructions)
      /\ heap' = IF Live(heap, c.object) THEN Published(heap, c) ELSE heap
      /\ UNCHANGED <<journal, containers, history>>
  BY <1>1 DEF FinishPublished, journals
<1>3. CASE Live(heap, c.object) BY <1>1, <1>2, <1>3, PublishedCareful
<1>4. CASE ~Live(heap, c.object)
  <2>1. Listed(constructions) BY DEF Tending, AllOK, FramesWell, FrameTypes
  <2>2. heap' = heap BY <1>2, <1>4
  <2>3. Draws(heap, heap', Running(constructions'), Hand) /\ Spares(heap, heap', despawned')
    BY <2>2, RestsSelf, RestsDraws
  <2>4. \A x \in Running(constructions) : x \in Running(constructions') \/ ~Live(heap', x[2])
    <3>1. SUFFICES ASSUME NEW x \in Running(constructions), x \notin Running(constructions') PROVE ~Live(heap', x[2])
      OBVIOUS
    <3>2. x = <<c.activation, c.object>> BY <1>1, <1>2, <2>1, <3>1, FrontRunning
    <3>3. x[2] = c.object BY <3>2
    <3> QED BY <1>4, <2>2, <3>3
  <2> QED BY <1>2, <2>3, <2>4, JottedStay, CopiedStay DEF Careful, Drawn, Hand
<1> QED BY <1>3, <1>4

(* A constructor throws. *)
LEMMA UnwindCareful ==
  ASSUME Tending, Unwind, heap'.status = "live" PROVE Careful
<1>1. PICK c : c = Last(constructions) OBVIOUS
<1>2. /\ constructions # <<>> /\ constructions' = Front(constructions)
      /\ heap' = IF c.owner = "Owned" THEN DestroyedRoot(heap, c.activation)
                 ELSE IF Live(heap, c.object) THEN Published(heap, c)
                 ELSE Failed(heap)
      /\ UNCHANGED <<journal, containers, history>>
  BY <1>1 DEF Unwind, journals
<1>3. c.owner = "Published" BY <1>1, <1>2, RunningTidy
<1>4. HeapOK(heap, game) BY DEF Tending, AllOK
<1>5. Live(heap, c.object)
  <2>1. SUFFICES ASSUME ~Live(heap, c.object) PROVE FALSE OBVIOUS
  <2>2. heap' = Failed(heap) BY <1>2, <1>3, <2>1
  <2> QED BY <1>4, <2>2, FailedOK
<1>6. heap' = Published(heap, c) BY <1>2, <1>3, <1>5
<1> QED BY <1>1, <1>2, <1>5, <1>6, PublishedCareful

(* The writes that a cycle leaves were journalled before. *)
LEMMA TakenWrites ==
  ASSUME AllOK, TakeJournals
  PROVE  Writes(journal', history') \subseteq Writes(journal, history)
<1>1. /\ Listed(history) /\ Len(history) <= game.depth /\ game.depth \in Nat \ {0}
  BY GameTypes DEF AllOK, HeapOK, JournalsOK
<1>2. journal' = <<>> /\ DOMAIN journal' = {}
  <2>1. journal' = <<>> BY DEF TakeJournals
  <2> QED BY <2>1, ListEmpty
<1>3. CASE journal = <<>> /\ containers = <<>>
  <2>1. history' = history BY <1>3 DEF TakeJournals
  <2> QED BY <2>1, <1>2 DEF Writes
<1>4. CASE ~(journal = <<>> /\ containers = <<>>)
  <2>1. PICK d : d = [properties |-> journal, containers |-> containers] OBVIOUS
  <2>2. PICK kept : kept = Kept(history) OBVIOUS
  <2>3. history' = Append(kept, d) /\ d.properties = journal BY <1>4, <2>1, <2>2 DEF TakeJournals
  <2>4. PICK by : Shifted(history, kept, by) BY <1>1, <2>2, KeptShifted
  <2>5. Appended(kept, d, history') BY <2>3, <2>4, ListAppend DEF Shifted
  <2>6. \A l \in DOMAIN history' : history'[l] = d \/ \E m \in DOMAIN history : history'[l] = history[m]
    BY <2>4, <2>5 DEF Shifted, Appended
  <2>7. SUFFICES ASSUME NEW x \in Writes(journal', history') PROVE x \in Writes(journal, history)
    OBVIOUS
  <2>8. PICK l \in DOMAIN history' : x \in {history'[l].properties[i] : i \in DOMAIN history'[l].properties}
    BY <1>2, <2>7 DEF Writes
  <2>9. CASE history'[l] = d BY <2>3, <2>8, <2>9 DEF Writes
  <2>10. ASSUME NEW m \in DOMAIN history, history'[l] = history[m] PROVE x \in Writes(journal, history)
    BY <2>8, <2>10 DEF Writes
  <2> QED BY <2>6, <2>9, <2>10
<1> QED BY <1>3, <1>4

(* The end of a turn takes Turn records only: a root that a game sees owns *)
(* nothing.                                                                *)
LEMMA TurnEnds ==
  ASSUME NEW h, HeapOK(h, game), NEW n \in Int, NEW A, A = {}, Tidy(h, n, A), NEW k, k = TurnReleased(h), NEW B, NEW X
  PROVE  /\ Draws(h, k, B, X)
         /\ \A s \in DOMAIN h.records : s \in DOMAIN k.records \/ h.records[s].lifetime = "Turn"
         /\ \A s \in DOMAIN k.records : k.records[s].born = h.records[s].born
<1> DEFINE turn == {o \in LiveHandles(h) : Of(h, o).lifetime = "Turn"}
           owned(o) == Of(h, o).parent # Nil /\ World(h, Of(h, o).parent)
           R == {o \in turn : Of(h, o).parent = Nil}
           P == {o \in turn : owned(o)}
           m == PromotedAll(h, P)
           slots == {o.slot : o \in R}
           d == Destroyed(m, slots)
           S == Subtree(m, slots)
<1>1. k = [d EXCEPT !.roots = @ \ R]
  BY DEF TurnReleased
<1>2. Alike(h, m)
  <2>1. IsFiniteSet(P)
    <3>1. IsFiniteSet(DOMAIN h.records) BY HeapFinite
    <3>2. IsFiniteSet(LiveHandles(h))
      <4> DEFINE f == [s \in DOMAIN h.records |-> HandleAt(h, s)]
      <4>1. f \in Surjection(DOMAIN h.records, LiveHandles(h))
        BY DEF Surjection, LiveHandles
      <4> HIDE DEF f
      <4> QED BY <3>1, <4>1, FS_Surjection
    <3> QED BY <3>2, FS_Subset
  <2> HIDE DEF P
  <2> QED BY <2>1, PromotedAllAlike
<1>3. ASSUME NEW s \in slots
      PROVE  s \in DOMAIN h.records /\ h.records[s].lifetime = "Turn" /\ h.records[s].children = {}
  <2>1. PICK o \in R : s = o.slot OBVIOUS
  <2>2. PICK t \in DOMAIN h.records : o = HandleAt(h, t) BY <2>1 DEF LiveHandles
  <2>3. t = s BY <2>1, <2>2, HandleFacts
  <2>4. h.records[s].lifetime = "Turn" BY <2>1 DEF Of
  <2>5. RecordTidy(h.records[s], HandleAt(h, s), n, A) BY <2>2, <2>3 DEF Tidy
  <2> HIDE DEF R
  <2> QED BY <2>2, <2>3, <2>4, <2>5 DEF RecordTidy
<1> HIDE DEF slots, m, R
<1>4. HeapOK(m, game) /\ DOMAIN m.records = DOMAIN h.records /\ Shaped(m)
  BY <1>2 DEF Alike, HeapOK
<1>5. S \subseteq slots
  <2>1. \A s \in slots : m.records[s].children = {} BY <1>2, <1>3 DEF Alike, SameButLife
  <2>2. Closed(m, slots) BY <2>1 DEF Closed
  <2>3. Cardinality(DOMAIN m.records) \in Nat BY <1>4, HeapFinite
  <2> QED BY <2>2, <2>3, SubtreeLeast
<1>6. Destroys(m, d, S)
  <2> HIDE DEF S
  <2>1. S = Subtree(m, slots) BY DEF S
  <2> QED BY <2>1, <1>4, DestroyedIs
<1>7. Fewer(m, d)
  <2>1. d = Destroyed(m, slots) OBVIOUS
  <2> HIDE DEF d
  <2> QED BY <1>4, <2>1, DestroyedFewer
<1>8. k.records = d.records /\ k.next_identity = d.next_identity
  BY <1>1 DEF Destroyed
<1> HIDE DEF d, S
<1>9. Fewer(m, k) BY <1>7, <1>8 DEF Fewer
<1>10. Rests(h, m, X) BY <1>2, AlikeRests
<1>11. Draws(h, k, B, X) BY <1>9, <1>10, LeftDraws
<1>12. \A s \in DOMAIN h.records : s \in DOMAIN k.records \/ h.records[s].lifetime = "Turn"
  BY <1>3, <1>4, <1>5, <1>6, <1>8 DEF Destroys
<1>13. \A s \in DOMAIN k.records : k.records[s].born = h.records[s].born
  BY <1>2, <1>9 DEF Fewer, Lesser, Alike, SameButLife
<1> QED BY <1>11, <1>12, <1>13

(* The end of a cycle. *)
LEMMA EndCareful ==
  ASSUME Tending, End PROVE Careful
<1>1. /\ TakeJournals /\ heap' = TurnReleased(heap) /\ constructions = <<>> /\ constructions' = constructions
  BY DEF End, Outside, frames
<1>2. AllOK /\ HeapOK(heap, game) /\ Closes(heap, game) BY DEF Tending, AllOK, WorldWell
<1>3. PICK n : n = Len(Statics) OBVIOUS
<1>4. PICK A : A = Running(constructions) OBVIOUS
<1>5. A = {}
  <2>1. DOMAIN constructions = {} BY <1>1, ListEmpty
  <2> QED BY <1>4, <2>1 DEF Running
<1>6. n \in Int /\ Tidy(heap, n, A) BY <1>2, <1>3, <1>4, GameTypes DEF Tending, Tended, HeapOK, Statics
<1>7. /\ Draws(heap, heap', Running(constructions'), Hand)
      /\ \A s \in DOMAIN heap.records : s \in DOMAIN heap'.records \/ heap.records[s].lifetime = "Turn"
      /\ \A s \in DOMAIN heap'.records : heap'.records[s].born = heap.records[s].born
  BY <1>1, <1>2, <1>5, <1>6, TurnEnds
<1>8. Spares(heap, heap', despawned')
  <2>1. SUFFICES ASSUME NEW s \in DOMAIN heap.records, heap.records[s].lifetime = "World",
                        NEW v \in Refs(heap.records[s], game), Live(heap, v)
                 PROVE  Live(heap', v)
    BY DEF Spares
  <2>2. RecordClosed(heap.records[s], heap, game) BY <1>2 DEF Closes
  <2>3. v \in LeadsTo(heap.records[s], game) BY DEF LeadsTo, Refs
  <2>4. World(heap, v) BY <2>1, <2>2, <2>3 DEF RecordClosed, Safe
  <2>5. v.slot \in DOMAIN heap.records /\ heap.records[v.slot].lifetime = "World" BY <2>4 DEF World, Live, Of
  <2>6. v.slot \in DOMAIN heap'.records BY <1>7, <2>5
  <2> QED BY <1>7, <2>1, <2>6 DEF Live
<1>9. Jotted(heap, Len(Statics), journal, history, journal', history')
  BY <1>1, <1>2, TakenWrites DEF Jotted
<1>10. Copied(heap, heap', Len(Statics), containers, history, containers', history')
  BY <1>1, <1>2, TakenSnaps DEF Copied
<1>11. \A a \in Running(constructions) : a \in Running(constructions') BY <1>1
<1> QED BY <1>7, <1>8, <1>9, <1>10, <1>11 DEF Careful, Drawn, Hand

(* A savepoint. *)
LEMMA SavepointCareful ==
  ASSUME Tending, Savepoint PROVE Careful
<1>1. TakeJournals /\ heap' = heap /\ constructions' = constructions BY DEF Savepoint, frames
<1>2. AllOK BY DEF Tending
<1>3. Jotted(heap, Len(Statics), journal, history, journal', history')
  BY <1>1, <1>2, TakenWrites DEF Jotted
<1>4. Copied(heap, heap', Len(Statics), containers, history, containers', history')
  BY <1>1, <1>2, TakenSnaps DEF Copied
<1>5. Rests(heap, heap', Hand) BY <1>1, RestsSelf
<1> QED BY <1>1, <1>3, <1>4, <1>5, RestsCareful

(* A cycle begins. *)
LEMMA BeginCareful ==
  ASSUME Tending, Begin PROVE Careful
<1>1. heap' = heap /\ constructions' = constructions /\ UNCHANGED <<journal, containers, history>> BY DEF Begin, frames
<1>2. Rests(heap, heap', Hand) BY <1>1, RestsSelf
<1> QED BY <1>1, <1>2, RestsCareful, JottedStay, CopiedStay

(* What tidy records own. *)
LEMMA TendingTied == ASSUME Tending PROVE Tied(heap)
BY DEF Tending, Tended, Tidy, RecordTidy, Tied

(* Rollback. *)
LEMMA RollbackCareful ==
  ASSUME Tending, Rollback, heap'.status = "live" PROVE Careful
<1>1. /\ journal' = <<>> /\ containers' = <<>> /\ history' = history /\ constructions' = constructions
      /\ heap' = PropertiesReverted(ContainersReverted(heap, containers), journal)
  BY DEF Rollback, frames
<1>2. HeapOK(heap, game) /\ Revertible(heap, journal, containers, history) /\ Tied(heap)
  BY TendingTied DEF Tending, AllOK, JournalsOK, Revertible
<1>3. \A i \in DOMAIN containers : SnapTidy(containers[i], heap, Hand)
  BY DEF Tending, Tended, Snaps, Hand
<1>4. \A i \in DOMAIN journal : WriteTidy(journal[i], Hand)
  BY DEF Tending, Tended, Writes, Hand
<1>5. Rests(heap, heap', Hand) BY <1>1, <1>2, <1>3, <1>4, RevertedRests
<1>6. DOMAIN containers' = {} /\ DOMAIN journal' = {} BY <1>1, ListEmpty
<1>7. Jotted(heap, Len(Statics), journal, history, journal', history')
  BY <1>1, <1>6 DEF Jotted, Writes
<1>8. Copied(heap, heap', Len(Statics), containers, history, containers', history')
  BY <1>1, <1>6 DEF Copied, Snaps
<1> QED BY <1>1, <1>5, <1>7, <1>8, RestsCareful

(* Undo. *)
LEMMA UndoCareful ==
  ASSUME Tending, Undo, heap'.status = "live" PROVE Careful
<1> DEFINE put == PropertiesReverted(ContainersReverted(heap, containers), journal)
<1>1. /\ journal' = <<>> /\ containers' = <<>> /\ constructions' = constructions
      /\ \/ history = <<>> /\ heap' = put /\ history' = history
         \/ /\ history # <<>> /\ history' = Front(history)
            /\ heap' = PropertiesReverted(ContainersReverted(put, Last(history).containers), Last(history).properties)
  BY DEF Undo, frames
<1>2. /\ HeapOK(heap, game) /\ Revertible(heap, journal, containers, history) /\ Listed(history) /\ Tied(heap)
      /\ JournalsOK(heap, game, journal, containers, history)
  BY TendingTied DEF Tending, AllOK, JournalsOK, Revertible
<1>3. \A i \in DOMAIN containers : SnapTidy(containers[i], heap, Hand)
  BY DEF Tending, Tended, Snaps, Hand
<1>4. \A i \in DOMAIN journal : WriteTidy(journal[i], Hand)
  BY DEF Tending, Tended, Writes, Hand
<1>5. Reverts(heap, put, history) /\ (put.status = "live" => Rests(heap, put, Hand))
  <2>1. put = PropertiesReverted(ContainersReverted(heap, containers), journal) OBVIOUS
  <2> HIDE DEF put
  <2>2. Reverts(heap, put, history) BY <1>2, <2>1, RevertedOK
  <2>3. ASSUME put.status = "live" PROVE Rests(heap, put, Hand) BY <1>2, <1>3, <1>4, <2>1, <2>3, RevertedRests
  <2> QED BY <2>2, <2>3
<1>6. DOMAIN containers' = {} /\ DOMAIN journal' = {} BY <1>1, ListEmpty
<1>7. PICK es : es = <<>> OBVIOUS
<1>8. HeapOK(put, game) /\ Descends(heap, put) /\ Revertible(put, es, es, history)
  BY <1>5, <1>7 DEF Reverts
<1> HIDE DEF put
<1>9. CASE history = <<>> /\ heap' = put /\ history' = history
  <2>1. Rests(heap, heap', Hand) BY <1>5, <1>9
  <2>2. Jotted(heap, Len(Statics), journal, history, journal', history')
    BY <1>6, <1>9 DEF Jotted, Writes
  <2>3. Copied(heap, heap', Len(Statics), containers, history, containers', history')
    BY <1>6, <1>9 DEF Copied, Snaps
  <2> QED BY <1>1, <2>1, <2>2, <2>3, RestsCareful
<1>10. CASE /\ history # <<>> /\ history' = Front(history)
            /\ heap' = PropertiesReverted(ContainersReverted(put, Last(history).containers), Last(history).properties)
  <2>1. PICK c : c = Last(history) OBVIOUS
  <2>2. PICK front : front = Front(history) OBVIOUS
  <2>3. Shortened(history, front, 0) /\ Len(history) \in DOMAIN history /\ c = history[Len(history)]
    BY <1>2, <1>10, <2>1, <2>2, ListFront
  <2>4. Revertible(put, c.properties, c.containers, front)
    BY <1>8, <1>10, <2>1, <2>2, LastEntry
  <2>5. heap' = PropertiesReverted(ContainersReverted(put, c.containers), c.properties) BY <1>10, <2>1
  <2>6. put.status = "live"
    <3>1. Reverts(put, heap', front) BY <1>8, <2>4, <2>5, RevertedOK
    <3> QED BY <3>1 DEF Reverts, Bears
  <2>7. Rests(heap, put, Hand) /\ Tied(put) BY <1>2, <1>5, <1>8, <2>6, TiedRests
  <2>8. \A i \in DOMAIN c.properties : WriteTidy(c.properties[i], Hand)
    BY <2>3 DEF Tending, Tended, Writes, Hand
  <2>9. \A i \in DOMAIN c.containers : SnapTidy(c.containers[i], put, Hand)
    <3>1. SUFFICES ASSUME NEW i \in DOMAIN c.containers PROVE SnapTidy(c.containers[i], put, Hand) OBVIOUS
    <3>2. PICK x : x = c.containers[i] OBVIOUS
    <3>3. x \in Snaps(containers, history) BY <2>3, <3>2 DEF Snaps
    <3>4. x.object \in Old(heap.next_identity) /\ SnapTidy(x, heap, Open(heap, Len(Statics)))
      BY <1>2, <3>3, SnapsOld DEF Tending, Tended
    <3>5. SnapTidy(x, put, Open(heap, Len(Statics)))
      BY <1>2, <1>8, <3>4, SnapTidyLater
    <3> QED BY <3>2, <3>5 DEF Hand
  <2>10. Rests(put, heap', Hand) BY <1>8, <2>4, <2>5, <2>7, <2>8, <2>9, RevertedRests
  <2>11. Rests(heap, heap', Hand) BY <2>7, <2>10, RestsJoin
  <2>12. \A l \in DOMAIN front : l \in DOMAIN history /\ front[l] = history[l]
    <3>1. Len(history) \in Nat /\ DOMAIN front = 1..(Len(history) - 1)
      BY <1>2, <2>3, ListFacts DEF Shortened
    <3>2. \A l \in DOMAIN front : l + 0 = l BY <3>1
    <3> QED BY <2>3, <3>2 DEF Shortened
  <2>13. history' = front BY <1>10, <2>2
  <2>14. Jotted(heap, Len(Statics), journal, history, journal', history')
    BY <1>6, <2>12, <2>13 DEF Jotted, Writes
  <2>15. Copied(heap, heap', Len(Statics), containers, history, containers', history')
    BY <1>6, <2>12, <2>13 DEF Copied, Snaps
  <2> QED BY <1>1, <2>11, <2>14, <2>15, RestsCareful
<1> QED BY <1>1, <1>9, <1>10

(* Despawning takes what is noted as despawned. *)
LEMMA DespawnCareful ==
  ASSUME Tending, NEW o \in Visible(heap), Despawn(o) PROVE Careful
<1>1. HeapOK(heap, game) /\ Live(heap, o) /\ o \in Old(heap.next_identity) /\ o.slot \in DOMAIN heap.records
  BY VisibleOld DEF Tending, AllOK
<1>2. PICK m : m = IF o \in heap.roots THEN [heap EXCEPT !.roots = @ \ {o}]
                   ELSE [heap EXCEPT !.records[Of(heap, o).parent.slot].children = @ \ {o}]
  OBVIOUS
<1>3. /\ heap' = Destroyed(m, {o.slot})
      /\ despawned' = despawned \cup {HandleAt(heap, s) : s \in Subtree(heap, {o.slot})}
      /\ constructions' = constructions /\ UNCHANGED <<journal, containers, history>>
  BY <1>2 DEF Despawn, frames, journals
<1>4. \/ o \in heap.roots /\ m = [heap EXCEPT !.roots = @ \ {o}]
      \/ o \notin heap.roots /\ m = [heap EXCEPT !.records[Of(heap, o).parent.slot].children = @ \ {o}]
  BY <1>2
<1>5. PICK S : Gone(heap, heap', o, S)
  <2>1. PICK S : S = Subtree(heap, {o.slot}) OBVIOUS
  <2>2. CASE o \in heap.roots
    <3>1. Gone(heap, heap', o, S) BY <1>1, <1>3, <1>4, <2>1, <2>2, RootDespawned
    <3> QED BY <3>1
  <2>3. CASE o \notin heap.roots
    BY <1>1, <1>3, <1>4, <2>3, ChildDespawned
  <2> QED BY <2>2, <2>3
<1>6. Fewer(heap, heap') BY <1>1, <1>3, <1>4, <1>5, DespawnedFirm DEF Gone
<1>7. Draws(heap, heap', Running(constructions'), Hand) BY <1>6, FewerDraws
<1>8. Spares(heap, heap', despawned')
  <2>1. SUFFICES ASSUME NEW s \in DOMAIN heap.records, NEW v \in Refs(heap.records[s], game), Live(heap, v),
                        ~Live(heap', v)
                 PROVE  v \in despawned'
    BY DEF Spares
  <2>2. v \in Hand BY DEF Tending, Tended, Tidy, Hand
  <2>3. v \in Old(heap.next_identity) BY <2>2 DEF Hand, Open
  <2>4. HandleAt(heap, v.slot) = v /\ v.slot \in DOMAIN heap.records /\ v # Nil BY <1>1, <2>1, <2>3, HandleFacts DEF Live
  <2>5. v.slot \in S
    <3>1. SUFFICES ASSUME v.slot \notin S PROVE FALSE OBVIOUS
    <3>2. v.slot \in DOMAIN heap'.records BY <1>5, <2>4, <3>1 DEF Gone, Cuts
    <3>3. heap'.records[v.slot].born = heap.records[v.slot].born BY <1>6, <3>2 DEF Fewer, Lesser
    <3> QED BY <2>1, <3>2, <3>3 DEF Live
  <2>6. v.slot \in Subtree(heap, {o.slot}) BY <1>5, <2>5 DEF Gone
  <2> QED BY <1>3, <2>4, <2>6
<1>9. \A a \in Running(constructions) : a \in Running(constructions') BY <1>3
<1> QED BY <1>3, <1>7, <1>8, <1>9, JottedStay, CopiedStay DEF Careful, Drawn, Hand

(* What a step of a game that throws nothing does to its constructors. *)
Unthrown ==
  exceptions' = {} /\ \A i \in DOMAIN constructions' : constructions'[i].owner = "Published"

LEMMA FrontUnthrown ==
  ASSUME Tending, constructions # <<>>, constructions' = Front(constructions), exceptions' = exceptions
  PROVE  Unthrown
<1>1. Listed(constructions) BY DEF Tending, AllOK, FramesWell, FrameTypes
<1>2. PICK t : t = Front(constructions) OBVIOUS
<1>3. Shortened(constructions, t, 0) BY <1>1, <1>2, ListFront
<1>4. \A i \in DOMAIN t : i + 0 \in DOMAIN constructions /\ t[i] = constructions[i + 0]
  BY <1>3 DEF Shortened
<1> QED BY <1>2, <1>4 DEF Unthrown, Tending

LEMMA BegunUnthrown ==
  ASSUME Tending, NEW owner \in {"Published", "Owned"}, BeginConstruction(owner)
  PROVE  Unthrown
<1>1. owner = "Published"
  BY DEF BeginConstruction, May, Tending, Plain
<1>2. exceptions' = exceptions /\ Listed(constructions)
  BY DEF BeginConstruction, Tending, AllOK, FramesWell, FrameTypes
<1>3. constructions' = constructions
      \/ \E a, o : constructions' = Append(constructions, [owner |-> owner, activation |-> a, object |-> o])
  BY DEF BeginConstruction
<1>4. CASE constructions' = constructions BY <1>2, <1>4 DEF Unthrown, Tending
<1>5. ASSUME NEW a, NEW o, constructions' = Append(constructions, [owner |-> owner, activation |-> a, object |-> o])
      PROVE  Unthrown
  <2>1. PICK c : c = [owner |-> owner, activation |-> a, object |-> o] OBVIOUS
  <2>2. Appended(constructions, c, constructions') BY <1>2, <1>5, <2>1, ListAppend
  <2>3. c.owner = "Published" BY <1>1, <2>1
  <2>4. \A i \in DOMAIN constructions' : constructions'[i] = c
             \/ (i \in DOMAIN constructions /\ constructions'[i] = constructions[i])
    BY <2>2 DEF Appended
  <2> QED BY <1>2, <2>3, <2>4 DEF Unthrown, Tending
<1> QED BY <1>3, <1>4, <1>5

(* What each step does. *)
LEMMA CarefulStep ==
  ASSUME Tending, Next, heap'.status = "live" PROVE Careful /\ Unthrown
<1>1. Step /\ game' = game BY DEF Next
<1>2. HeapOK(heap', game) /\ Descends(heap, heap') /\ Plain /\ AllOK
  <2>1. AllOK' /\ Descends(heap, heap') BY StepOK DEF Tending
  <2>2. HeapOK(heap', game') BY <2>1 DEF AllOK
  <2> QED BY <1>1, <2>1, <2>2 DEF Tending
<1>3. (constructions' = constructions /\ exceptions' = exceptions) => Unthrown
  BY DEF Unthrown, Tending
<1>4. exceptions = {} /\ heap.status = "live" BY DEF Tending
<1>5. ASSUME NEW owner \in {"Published", "Owned"}, BeginConstruction(owner) PROVE Careful /\ Unthrown
  BY <1>5, BeginConstructionCareful, BegunUnthrown
<1>6. CASE FinishPublished
  <2>1. Unthrown BY <1>6, FrontUnthrown DEF FinishPublished
  <2> QED BY <1>6, <2>1, FinishPublishedCareful
<1>7. CASE Unwind
  <2>1. Unthrown BY <1>7, FrontUnthrown DEF Unwind
  <2> QED BY <1>7, <2>1, UnwindCareful
<1>8. ~Throw
  <2>1. SUFFICES ASSUME Throw PROVE FALSE OBVIOUS
  <2>2. PICK c : c = Last(constructions) OBVIOUS
  <2>3. constructions # <<>> /\ c.owner = "Owned" BY <2>1, <2>2 DEF Throw
  <2>4. c.owner = "Published" BY <2>2, <2>3, RunningTidy
  <2> QED BY <2>3, <2>4
<1>9. ASSUME NEW e \in exceptions, Claim(e) \/ Release(e) PROVE Careful /\ Unthrown
  BY <1>4
<1>10. ~NewContainer("table", 0)
  BY <1>2 DEF NewContainer, May, Plain
<1>11. ASSUME NEW n \in 0..1, NewContainer("vector", n) PROVE Careful /\ Unthrown
  <2>1. constructions' = constructions /\ exceptions' = exceptions BY <1>11 DEF NewContainer, frames
  <2> QED BY <2>1, <1>3, <1>11, NewContainerCareful
<1>12. ASSUME NEW o \in OfKind("plain"), NEW p \in Props, NEW v \in Values, Set(o, p, v) PROVE Careful /\ Unthrown
  <2>1. constructions' = constructions /\ exceptions' = exceptions BY <1>12 DEF Set, frames
  <2> QED BY <2>1, <1>3, <1>12, SetCareful
<1>13. ASSUME NEW o \in OfKind("vector"), NEW v \in Values,
              VectorAppend(o, v) \/ \E n \in DOMAIN Of(heap, o).elements : VectorSet(o, n, v)
       PROVE  Careful /\ Unthrown
  <2>1. constructions' = constructions /\ exceptions' = exceptions
    BY <1>13 DEF VectorAppend, VectorSet, Changed, frames
  <2> QED BY <2>1, <1>2, <1>3, <1>13, VectorAppendCareful, VectorSetCareful
<1>14. ASSUME NEW o \in OfKind("vector"), NEW m \in DOMAIN Of(heap, o).elements,
              NEW n \in m..Cardinality(DOMAIN Of(heap, o).elements), VectorRemove(o, m, n)
       PROVE  Careful /\ Unthrown
  <2>1. constructions' = constructions /\ exceptions' = exceptions BY <1>14 DEF VectorRemove, Changed, frames
  <2> QED BY <2>1, <1>2, <1>3, <1>14, VectorRemoveCareful
<1>15. ASSUME NEW o \in OfKind("table"), NEW v \in Values,
              NEW k \in Keys \cup OfKind("plain") \cup OfKind("table"), LookupSet(o, k, v)
       PROVE  Careful /\ Unthrown
  <2>1. constructions' = constructions /\ exceptions' = exceptions BY <1>15 DEF LookupSet, Changed, frames
  <2> QED BY <2>1, <1>2, <1>3, <1>15, LookupSetCareful
<1>16. ASSUME NEW x \in OfKind("plain"), NEW y \in OfKind("plain"), Relate(x, y) PROVE Careful /\ Unthrown
  <2>1. constructions' = constructions /\ exceptions' = exceptions BY <1>16 DEF Relate, frames
  <2> QED BY <2>1, <1>3, <1>16, RelateCareful
<1>17. ASSUME NEW o \in Visible(heap), Despawn(o) PROVE Careful /\ Unthrown
  <2>1. constructions' = constructions /\ exceptions' = exceptions BY <1>17 DEF Despawn, frames
  <2> QED BY <2>1, <1>3, <1>17, DespawnCareful
<1>18. CASE Begin \/ End \/ Savepoint
  <2>1. constructions' = constructions /\ exceptions' = exceptions BY <1>18 DEF Begin, End, Savepoint, frames
  <2> QED BY <2>1, <1>3, <1>18, BeginCareful, EndCareful, SavepointCareful
<1>19. CASE Rollback \/ Undo
  <2>1. constructions' = constructions /\ exceptions' = exceptions BY <1>19 DEF Rollback, Undo, frames
  <2> QED BY <2>1, <1>3, <1>19, RollbackCareful, UndoCareful
<1>20. ~Refused BY <1>4 DEF Refused
<1> QED BY <1>1, <1>5, <1>6, <1>7, <1>8, <1>9, <1>10, <1>11, <1>12, <1>13, <1>14, <1>15, <1>16, <1>17,
           <1>18, <1>19, <1>20 DEF Step

(* A store that has failed stays so. *)
LEMMA LiveBeforeStep ==
  ASSUME Next, heap'.status = "live" PROVE heap.status = "live"
<1>1. SUFFICES ASSUME heap.status # "live" PROVE FALSE OBVIOUS
<1>2. (\A c : ~May(c)) /\ ~Outside BY <1>1 DEF May, Outside
<1>3. /\ \A w : ~BeginConstruction(w)
      /\ \A k, n : ~NewContainer(k, n)
      /\ \A o, p, v : ~Set(o, p, v) /\ ~VectorAppend(o, v) /\ ~VectorSet(o, p, v) /\ ~VectorRemove(o, p, v)
      /\ \A o, k, v : ~LookupSet(o, k, v) /\ ~Relate(o, k) /\ ~Despawn(o)
  <2>1. \A w : ~BeginConstruction(w) BY <1>2 DEF BeginConstruction
  <2>2. \A k, n : ~NewContainer(k, n) BY <1>2 DEF NewContainer
  <2>3. \A o, p, v : ~Set(o, p, v) BY <1>2 DEF Set
  <2>4. \A o, v : ~VectorAppend(o, v) BY <1>2 DEF VectorAppend
  <2>5. \A o, p, v : ~VectorSet(o, p, v) BY <1>2 DEF VectorSet
  <2>6. \A o, p, v : ~VectorRemove(o, p, v) BY <1>2 DEF VectorRemove
  <2>7. \A o, k, v : ~LookupSet(o, k, v) BY <1>2 DEF LookupSet
  <2>8. \A o, k : ~Relate(o, k) /\ ~Despawn(o) BY <1>2 DEF Relate, Despawn
  <2> QED BY <2>1, <2>2, <2>3, <2>4, <2>5, <2>6, <2>7, <2>8
<1>4. /\ ~FinishPublished /\ ~Unwind /\ ~Throw /\ ~Begin /\ ~End /\ ~Savepoint /\ ~Rollback /\ ~Undo
      /\ \A e : ~Claim(e) /\ ~Release(e)
  BY <1>1, <1>2 DEF FinishPublished, Unwind, Throw, Begin, End, Savepoint, Rollback, Undo, Claim, Release
<1>5. Refused
  BY <1>3, <1>4 DEF Next, Step
<1> QED BY <1>1, <1>5 DEF Refused

(* The records a game starts with. *)
LEMMA StartTidy ==
  ASSUME NEW g \in Games, game = g, NEW h, h = Started(g.statics), HeapOK(h, g), NEW n, n = Len(g.statics),
         NEW A
  PROVE  Tidy(h, n, A)
<1>0. PICK statics : statics = g.statics OBVIOUS
<1> DEFINE F == Filled(statics)
           N == n + 2 * Cardinality(F) + 1
<1>1. /\ n \in Nat /\ n = Len(statics) /\ Cardinality(F) \in Nat
      /\ \A i \in F : Place(statics, i) \in n + 2 .. n + 2 * Cardinality(F)
      /\ \A i, j \in F : Place(statics, i) = Place(statics, j) => i = j
  <2>1. statics \in Seq({"none", "vector", "table"}) BY <1>0, GameTypes
  <2>2. n \in Nat /\ n = Len(statics) BY <1>0, <2>1
  <2> QED BY <2>2, PlaceFacts
<1>2. h.records = StaticRecords(statics) BY <1>0, StartedIs
<1>3. /\ DOMAIN h.records = 1..n \cup {Place(statics, i) : i \in F}
      /\ \A s \in DOMAIN h.records : h.records[s] = StaticRecord(statics, s)
  BY <1>1, <1>2 DEF StaticRecords
<1>4. /\ \A s \in 1..n : NamedIs(statics, s, N, g)
      /\ \A i \in F : ContainerIs(statics, i, N, g)
  BY <1>0, <1>1, StaticRecordsAre
<1>5. /\ \A s : Blank(s, "World").owned = Nothing /\ Blank(s, "World").properties = Nothing
                /\ Blank(s, "World").elements = Nothing /\ Blank(s, "World").lifetime = "World"
      /\ DOMAIN Nothing = {} /\ Range(Nothing) = {}
  BY DEF Blank, Nothing, Range
<1>6. \A k : ElementRefs(Nothing, k, g) = {} BY <1>5 DEF ElementRefs
<1> HIDE DEF N
<1>7. ASSUME NEW i \in F
      PROVE  LET s == Place(statics, i)
             IN  /\ h.records[s].kind # "plain" /\ DOMAIN h.records[s].owned = {} /\ h.records[s].children = {}
                 /\ Refs(h.records[s], g) = {} /\ h.records[s].born = s /\ s \in DOMAIN h.records
                 /\ ~(s <= n)
  <2> DEFINE s == Place(statics, i)
             j == CHOOSE x \in F : Place(statics, x) = s
  <2>1. ~(s <= n) /\ s \in DOMAIN h.records BY <1>1, <1>3
  <2>2. j \in F /\ Place(statics, j) = s OBVIOUS
  <2>3. j = i BY <2>2, <1>1
  <2>4. StaticRecord(statics, s) = [Blank(s, "World") EXCEPT !.kind = statics[j], !.parent = NamedObject(j)]
    BY <1>1, <2>1 DEF StaticRecord
  <2> HIDE DEF j, F
  <2>5. ContainerIs(statics, i, N, g) BY <1>4
  <2>6. h.records[s] = StaticRecord(statics, s) BY <1>3, <2>1
  <2>7. h.records[s].born = s /\ h.records[s].children = {} BY <2>5, <2>6 DEF ContainerIs, RecordIs
  <2> HIDE DEF s
  <2>8. PICK q : q = h.records[s] OBVIOUS
  <2>9. q = [Blank(s, "World") EXCEPT !.kind = statics[i], !.parent = NamedObject(i)] BY <2>3, <2>4, <2>6, <2>8
  <2>10. q.kind = statics[i] /\ q.owned = Nothing /\ q.properties = Nothing /\ q.elements = Nothing
    BY <2>9 DEF Blank
  <2>11. statics[i] \in {"vector", "table"}
    <3>1. statics \in Seq({"none", "vector", "table"}) BY <1>0, GameTypes
    <3>2. i \in 1..Len(statics) /\ statics[i] # "none" BY DEF F, Filled
    <3>3. statics[i] \in {"none", "vector", "table"} BY <3>1, <3>2
    <3> QED BY <3>2, <3>3
  <2>12. Refs(q, g) = {} BY <1>5, <1>6, <2>10 DEF Refs
  <2> QED BY <1>5, <2>1, <2>7, <2>8, <2>10, <2>11, <2>12 DEF s
<1>8. ASSUME NEW s \in 1..n
      PROVE  /\ DOMAIN h.records[s].owned \subseteq {Field} /\ h.records[s].lifetime = "World" /\ h.records[s].born = s
             /\ \A v \in Refs(h.records[s], g) : \E i \in F : v = Container(statics, i)
  <2>1. s \in DOMAIN h.records /\ h.records[s] = StaticRecord(statics, s) BY <1>3
  <2>2. h.records[s].born = s BY <1>4, <2>1 DEF NamedIs, RecordIs
  <2>3. s <= Len(statics) BY <1>1
  <2> HIDE DEF F
  <2>4. PICK q : q = h.records[s] OBVIOUS
  <2>5. CASE s \notin F
    <3>1. q = Blank(s, "World") BY <2>1, <2>3, <2>4, <2>5 DEF StaticRecord, F
    <3>2. Refs(q, g) = {} BY <1>5, <1>6, <3>1 DEF Refs
    <3>3. q.lifetime = "World" /\ DOMAIN q.owned = {} BY <1>5, <3>1
    <3> QED BY <2>2, <2>4, <3>2, <3>3
  <2>6. CASE s \in F
    <3>1. PICK c : c = Container(statics, s) OBVIOUS
    <3>2. PICK w : w = With(Nothing, Field, c) OBVIOUS
    <3>3. q = [Blank(s, "World") EXCEPT !.children = {c}, !.properties = w, !.owned = w]
      BY <2>1, <2>3, <2>4, <2>6, <3>1, <3>2 DEF StaticRecord, F
    <3>4. q.lifetime = "World" /\ q.properties = w /\ q.owned = w /\ q.elements = Nothing
      BY <3>3 DEF Blank
    <3>5. DOMAIN w = {Field} /\ Range(w) = {c} BY <1>5, <3>2 DEF With, Range
    <3>6. Refs(q, g) \subseteq {c} BY <1>6, <3>4, <3>5 DEF Refs
    <3> QED BY <2>2, <2>4, <2>6, <3>1, <3>4, <3>5, <3>6
  <2> QED BY <2>5, <2>6
<1>9. ASSUME NEW i \in F PROVE Container(statics, i) \in Open(h, n)
  <2> DEFINE s == Place(statics, i)
  <2>1. s \in DOMAIN h.records /\ h.records[s].born = s /\ h.records[s].kind # "plain" BY <1>7
  <2>2. HandleAt(h, s) = Container(statics, i) BY <2>1 DEF HandleAt, Container
  <2>3. Container(statics, i) \in Old(h.next_identity)
    BY <2>1, <2>2, HandleFacts
  <2>4. Container(statics, i).slot = s BY DEF Container
  <2> HIDE DEF s
  <2>5. Of(h, Container(statics, i)).kind # "plain" BY <2>1, <2>4 DEF Of
  <2> QED BY <2>3, <2>5 DEF Open, Shown
<1>10. SUFFICES ASSUME NEW s \in DOMAIN h.records
                PROVE  RecordTidy(h.records[s], HandleAt(h, s), n, A) /\ Refs(h.records[s], game) \subseteq Open(h, n)
  BY DEF Tidy
<1>11. CASE s \in 1..n
  <2>1. h.records[s].born <= n BY <1>8, <1>11
  <2> HIDE DEF F
  <2> QED BY <1>8, <1>9, <1>11, <2>1 DEF RecordTidy
<1>12. CASE \E i \in F : s = Place(statics, i)
  <2> HIDE DEF F
  <2>1. PICK i \in F : s = Place(statics, i) BY <1>12
  <2> QED BY <1>7, <2>1 DEF RecordTidy
<1> HIDE DEF F
<1> QED BY <1>3, <1>11, <1>12

(* The invariant. *)
Neat ==
  Plain /\ heap.status = "live" =>
    /\ exceptions = {} /\ \A i \in DOMAIN constructions : constructions[i].owner = "Published"
    /\ Tended(heap, Len(Statics), constructions, journal, containers, history)

LEMMA NeatStart == ASSUME Init PROVE Neat
<1>1. /\ game \in Games /\ heap = Started(game.statics) /\ journal = <<>> /\ containers = <<>> /\ history = <<>>
      /\ constructions = <<>> /\ exceptions = {}
  BY DEF Init, Begun, Statics
<1>2. DOMAIN journal = {} /\ DOMAIN containers = {} /\ DOMAIN history = {} /\ DOMAIN constructions = {}
  BY <1>1, ListEmpty
<1>3. HeapOK(heap, game) BY <1>1, StartedOK
<1>4. PICK A, n : A = Running(constructions) /\ n = Len(Statics) OBVIOUS
<1>5. PICK g : g = game OBVIOUS
<1>6. g \in Games /\ game = g /\ heap = Started(g.statics) /\ HeapOK(heap, g) /\ n = Len(g.statics)
  BY <1>1, <1>3, <1>4, <1>5 DEF Statics
<1>7. Tidy(heap, n, A) BY ONLY <1>6, StartTidy
<1> QED BY <1>1, <1>2, <1>4, <1>7 DEF Neat, Tended, Writes, Snaps

LEMMA NeatStep ==
  ASSUME AllOK, WorldKept, Neat, [Next]_vars PROVE Neat'
<1>0. game' = game BY DEF Next, vars
<1>1. SUFFICES ASSUME Plain, heap'.status = "live"
               PROVE  Unthrown /\ Tended(heap', Len(Statics), constructions', journal', containers', history')
  BY <1>0 DEF Neat, Plain, Calls, Props, Statics, Tended, Tidy, RecordTidy, SnapTidy, WriteTidy, Unthrown
<1>2. CASE UNCHANGED vars
  <2>1. /\ heap' = heap /\ exceptions' = exceptions /\ constructions' = constructions
        /\ UNCHANGED <<journal, containers, history>>
    BY <1>2 DEF vars, frames, journals
  <2> QED BY <1>1, <2>1 DEF Neat, Unthrown
<1>3. CASE Next
  <2>1. Tending
    <3>1. heap.status = "live" BY <1>1, <1>3, LiveBeforeStep
    <3> QED BY <1>1, <3>1 DEF Neat, WorldKept, Tending, Plain
  <2>2. AllOK' /\ Descends(heap, heap') BY <1>3, StepOK
  <2>3. Careful /\ Unthrown BY <1>1, <1>3, <2>1, CarefulStep
  <2>4. HeapOK(heap, game) /\ HeapOK(heap', game)
    <3>1. HeapOK(heap', game') BY <2>2 DEF AllOK
    <3> QED BY <1>0, <3>1 DEF AllOK
  <2>5. Lasts(heap, heap')
    <3>1. Firm(heap, heap') BY <1>3, <2>1, WorldStep DEF Tending, Plain
    <3> QED BY <3>1 DEF Firm
  <2>6. PICK n : n = Len(Statics) OBVIOUS
  <2>7. n \in Int /\ n < heap.next_identity /\ JournalsOK(heap, game, journal, containers, history)
    BY <2>4, <2>6, GameTypes DEF AllOK, FramesWell, HeapOK, Statics
  <2>8. /\ Tended(heap, n, constructions, journal, containers, history)
        /\ Drawn(heap, heap', n, constructions, constructions', despawned')
        /\ Jotted(heap, n, journal, history, journal', history')
        /\ Copied(heap, heap', n, containers, history, containers', history')
    BY <2>1, <2>3, <2>6 DEF Tending, Careful
  <2>9. Tended(heap', n, constructions', journal', containers', history')
    BY ONLY <2>2, <2>4, <2>5, <2>7, <2>8, TendedLater
  <2> QED BY <2>3, <2>6, <2>9
<1> QED BY <1>2, <1>3

(* A reference that a World record holds goes on naming its object until a *)
(* game despawns it, whatever is stored, thrown away, rolled back or undone *)
(* in between, in every game that throws nothing, makes no tables in play  *)
(* and leaves the fields its statics were given (objects.rs: "World        *)
(* records are freed only by an explicit despawn or a wholesale reset").   *)
THEOREM ReferencesLive == Spec /\ Plain => HeldLives
<1>1. Init => Neat BY NeatStart
<1>2. AllOK /\ WorldKept /\ Neat /\ [Next]_vars => Neat' BY NeatStep
<1>3. Plain /\ [Next]_vars => Plain'
  <2>1. [Next]_vars => game' = game BY DEF Next, vars
  <2> QED BY <2>1 DEF Plain, Calls, Props
<1>4. AllOK /\ WorldKept /\ Neat /\ Plain /\ [Next]_vars =>
        [heap'.status = "live" /\ "throw" \notin Calls =>
           \A o \in LiveHandles(heap) : World(heap, o) =>
             \A v \in Held(Of(heap, o)) :
               Live(heap, v) => v \in LiveHandles(heap)' \/ v \in despawned']_vars
  <2>1. SUFFICES ASSUME AllOK, WorldKept, Neat, Plain, Next, heap'.status = "live",
                        NEW o \in LiveHandles(heap), World(heap, o),
                        NEW v \in Held(Of(heap, o)), Live(heap, v), v \notin despawned'
                 PROVE  v \in LiveHandles(heap)'
    OBVIOUS
  <2>2. Tending /\ Careful
    BY <2>1, LiveBeforeStep, CarefulStep DEF Neat, WorldKept, Tending, Plain
  <2>3. Spares(heap, heap', despawned') BY <2>2 DEF Careful, Drawn
  <2>4. o.slot \in DOMAIN heap.records /\ Of(heap, o) = heap.records[o.slot] /\ heap.records[o.slot].lifetime = "World"
    BY <2>1 DEF World, Live, Of
  <2>5. v \in Refs(heap.records[o.slot], game) BY <2>4 DEF Refs, Held, ElementRefs, Keys
  <2>6. Live(heap', v) BY <2>1, <2>3, <2>4, <2>5 DEF Spares
  <2>7. v \in Old(heap'.next_identity) /\ HeapOK(heap', game)
    <3>1. v \in Hand
      BY <2>2, <2>4, <2>5 DEF Tending, Tended, Tidy, Hand
    <3>2. AllOK' /\ Descends(heap, heap') /\ game' = game BY <2>1, StepOK DEF Next
    <3>3. HeapOK(heap', game') /\ HeapOK(heap, game) BY <2>1, <3>2 DEF AllOK
    <3>4. heap.next_identity \in Int /\ heap'.next_identity \in Int /\ heap.next_identity <= heap'.next_identity
      BY <3>2, <3>3 DEF HeapOK, Descends
    <3> QED BY <3>1, <3>2, <3>3, <3>4, OldGrows DEF Hand, Open
  <2>8. HandleAt(heap', v.slot) = v /\ v.slot \in DOMAIN heap'.records BY <2>6, <2>7, HandleFacts DEF Live
  <2> QED BY <2>8 DEF LiveHandles, HandleAt
<1> QED BY <1>1, <1>2, <1>3, <1>4, StoreInvariant, WorldInvariant, PTL DEF Spec, HeldLives

(***************************************************************************)
(* What is saved comes back (Saving)                                       *)
(***************************************************************************)
(* The slots of the records that are saved. *)
WorldSlots(h) == {s \in DOMAIN h.records : h.records[s].lifetime = "World"}

(* The largest member of a set. *)
LEMMA MaxIs ==
  ASSUME NEW S \in SUBSET Int, NEW m \in S, \A x \in S : m >= x
  PROVE  Max(S) = m
<1>1. \A x \in S : (\A y \in S : x >= y) => x = m
  OBVIOUS
<1>2. Max(S) \in S /\ \A y \in S : Max(S) >= y
  BY DEF Max
<1> QED BY <1>1, <1>2

(* The newest identity is the one before the next. *)
LEMMA CeilingIs ==
  ASSUME NEW h, HeapOK(h, game)
  PROVE  incarnation_ceiling(h) = h.next_identity - 1
<1> DEFINE n == h.next_identity
           S == {0, n - 1} \cup {r.born : r \in Range(h.records)}
<1>1. n \in Nat /\ n >= 1
  <2>1. n \in 1..game.identities /\ game.identities \in Nat BY GameTypes DEF HeapOK
  <2> QED BY <2>1
<1>2. ASSUME NEW x \in {r.born : r \in Range(h.records)} PROVE x \in 1..(n - 1)
  <2>1. PICK s \in DOMAIN h.records : x = h.records[s].born BY <1>2 DEF Range
  <2> QED BY <2>1 DEF HeapOK, RecordOK
<1> HIDE DEF n
<1>3. S \in SUBSET Int /\ n - 1 \in S /\ \A x \in S : n - 1 >= x
  BY <1>1, <1>2
<1>4. incarnation_ceiling(h) = Max(S) BY DEF incarnation_ceiling, n
<1> HIDE DEF S
<1> QED BY <1>3, <1>4, MaxIs DEF n

(* A reference is saved as a slot of the World, or as nil. *)
LEMMA SavedValue ==
  ASSUME NEW h, HeapOK(h, game)
  PROVE  /\ WorldSlots(h) \subseteq DOMAIN h.records /\ WorldSlots(h) \subseteq Nat /\ Nil \notin WorldSlots(h)
         /\ \A v : IF World(h, v) THEN saved_value(h, v) = v.slot /\ v.slot \in WorldSlots(h)
                                       /\ h.records[v.slot].born = v.born
                   ELSE saved_value(h, v) = Nil
         /\ \A s \in WorldSlots(h) : World(h, HandleAt(h, s))
         /\ \A v \in Old(h.next_identity) : World(h, v) => v = HandleAt(h, v.slot)
<1>1. h.next_identity \in Int /\ DOMAIN h.records \subseteq 1..(h.next_identity - 1)
  BY GameTypes DEF HeapOK
<1>2. WorldSlots(h) \subseteq DOMAIN h.records /\ WorldSlots(h) \subseteq Nat
  BY <1>1 DEF WorldSlots
<1>3. Nil \notin WorldSlots(h) BY <1>2, NilAndKeysAreNoSlots
<1>4. ASSUME NEW v PROVE IF World(h, v) THEN saved_value(h, v) = v.slot /\ v.slot \in WorldSlots(h)
                                             /\ h.records[v.slot].born = v.born
                         ELSE saved_value(h, v) = Nil
  BY DEF saved_value, World, Live, Of, WorldSlots
<1>5. ASSUME NEW s \in WorldSlots(h) PROVE World(h, HandleAt(h, s))
  <2>1. Live(h, HandleAt(h, s)) /\ HandleAt(h, s).slot = s BY <1>2, HandleFacts
  <2> QED BY <2>1 DEF World, Of, WorldSlots
<1>6. ASSUME NEW v \in Old(h.next_identity), World(h, v) PROVE v = HandleAt(h, v.slot)
  BY <1>6, HandleFacts DEF World
<1> QED BY <1>2, <1>3, <1>4, <1>5, <1>6

(* What is saved of a heap. *)
LEMMA SavedIs ==
  ASSUME NEW h, HeapOK(h, game), NEW image, image = write_world(h)
  PROVE  /\ image.ceiling = h.next_identity - 1
         /\ image.records = [s \in WorldSlots(h) |-> write_record(h, h.records[s])]
         /\ IsFiniteSet(WorldSlots(h)) /\ Cardinality(WorldSlots(h)) <= game.objects
         /\ Cardinality(WorldSlots(h)) \in Nat
<1>1. IsFiniteSet(DOMAIN h.records) /\ Cardinality(DOMAIN h.records) \in Nat BY HeapFinite
<1>2. WorldSlots(h) \in SUBSET DOMAIN h.records BY DEF WorldSlots
<1>3. IsFiniteSet(WorldSlots(h)) /\ Cardinality(WorldSlots(h)) <= Cardinality(DOMAIN h.records)
      /\ Cardinality(WorldSlots(h)) \in Nat
  BY <1>1, <1>2, FS_Subset, FS_CardinalityType
<1>4. Cardinality(DOMAIN h.records) <= game.objects /\ game.objects \in Nat BY GameTypes DEF HeapOK
<1>5. image.ceiling = incarnation_ceiling(h)
      /\ image.records = [s \in WorldSlots(h) |-> write_record(h, h.records[s])]
  BY DEF write_world, WorldSlots
<1> QED BY <1>1, <1>3, <1>4, <1>5, CeilingIs

(* A record that is saved. *)
LEMMA SavedRecord ==
  ASSUME NEW h, HeapOK(h, game), NEW s \in WorldSlots(h), NEW r, r = h.records[s], NEW w, w = write_record(h, r)
  PROVE  /\ w.kind = r.kind /\ w.prototypes = r.prototypes /\ w.capacity = r.capacity
         /\ w.parent = saved_value(h, r.parent) /\ w.elements = saved_elements(h, r)
         /\ w.properties = [p \in DOMAIN r.properties |-> saved_value(h, r.properties[p])]
         /\ w.owned = [p \in {q \in DOMAIN r.owned : World(h, r.owned[q])} |-> r.owned[p].slot]
         /\ w.children = {c.slot : c \in {x \in r.children : World(h, x)}}
         /\ RecordOK(r, h.next_identity, game)
<1>1. s \in DOMAIN h.records BY DEF WorldSlots
<1> QED BY <1>1 DEF write_record, HeapOK

(* The keys of a table that are saved. *)
KeysKept(h, r) == {k \in DOMAIN r.elements : k \in Keys \/ World(h, k)}

(* A key is a word of its own. *)
LEMMA SavedKeys ==
  ASSUME NEW h, HeapOK(h, game), NEW r, RecordOK(r, h.next_identity, game), r.kind = "table"
  PROVE  /\ \A k \in KeysKept(h, r) :
              \/ k \in Keys /\ saved_key(h, k) = k
              \/ /\ k \notin Keys /\ World(h, k) /\ k \in Old(h.next_identity) /\ saved_key(h, k) = k.slot
                 /\ k.slot \in WorldSlots(h) /\ k.slot \notin Keys
         /\ \A k, l \in KeysKept(h, r) : saved_key(h, k) = saved_key(h, l) => k = l
<1>1. DOMAIN r.elements \subseteq Keys \cup Old(h.next_identity)
  BY DEF RecordOK, ElementsOK, Keys
<1>2. \A s \in WorldSlots(h) : s \notin Keys
  BY SavedValue, NilAndKeysAreNoSlots DEF HeapOK, Keys
<1>3. ASSUME NEW k \in KeysKept(h, r)
      PROVE  \/ k \in Keys /\ saved_key(h, k) = k
             \/ /\ k \notin Keys /\ World(h, k) /\ k \in Old(h.next_identity) /\ saved_key(h, k) = k.slot
                /\ k.slot \in WorldSlots(h) /\ k.slot \notin Keys
  <2>1. CASE k \in Keys BY <2>1 DEF saved_key
  <2>2. CASE k \notin Keys
    <3>1. World(h, k) /\ k \in Old(h.next_identity) BY <1>1, <2>2 DEF KeysKept
    <3>2. k.slot \in WorldSlots(h) BY <3>1, SavedValue
    <3> QED BY <3>1, <3>2, <2>2, <1>2 DEF saved_key
  <2> QED BY <2>1, <2>2
<1>4. ASSUME NEW k \in KeysKept(h, r), NEW l \in KeysKept(h, r), saved_key(h, k) = saved_key(h, l)
      PROVE  k = l
  <2>1. CASE k \in Keys \/ l \in Keys BY <2>1, <1>3, <1>4
  <2>2. CASE k \notin Keys /\ l \notin Keys
    <3>1. World(h, k) /\ k \in Old(h.next_identity) /\ World(h, l) /\ l \in Old(h.next_identity) /\ k.slot = l.slot
      BY <2>2, <1>3, <1>4
    <3> QED BY <3>1, SavedValue
  <2> QED BY <2>1, <2>2
<1> QED BY <1>3, <1>4

(* The elements of a vector that are saved. *)
LEMMA SavedList ==
  ASSUME NEW h, NEW r, NEW e, e = saved_elements(h, r), r.kind # "table"
  PROVE  e = [n \in DOMAIN r.elements |-> saved_value(h, r.elements[n])]
BY DEF saved_elements

(* The keys of a table that are saved, as words. *)
LEMMA SavedWords ==
  ASSUME NEW h, NEW r, r.kind = "table", NEW e, e = saved_elements(h, r)
  PROVE  IsFun(e) /\ DOMAIN e = {saved_key(h, k) : k \in KeysKept(h, r)}
BY DEF saved_elements, KeysKept, IsFun

(* The pairs of a table that are saved. *)
LEMMA SavedPairs ==
  ASSUME NEW h, HeapOK(h, game), NEW r, RecordOK(r, h.next_identity, game), r.kind = "table",
         NEW e, e = saved_elements(h, r)
  PROVE  \A k \in KeysKept(h, r) : e[saved_key(h, k)] = saved_value(h, r.elements[k])
<1> DEFINE K == KeysKept(h, r)
<1>1. e = [w \in {saved_key(h, k) : k \in K} |-> saved_value(h, r.elements[CHOOSE k \in K : saved_key(h, k) = w])]
  BY DEF saved_elements, KeysKept
<1>2. ASSUME NEW k \in K PROVE (CHOOSE l \in K : saved_key(h, l) = saved_key(h, k)) = k
  <2>1. \A l \in K : saved_key(h, l) = saved_key(h, k) => l = k
    BY SavedKeys
  <2> HIDE DEF K
  <2> QED BY <2>1
<1>3. ASSUME NEW k \in K PROVE e[saved_key(h, k)] = saved_value(h, r.elements[k])
  <2> HIDE DEF K
  <2> QED BY <1>1, <1>2
<1> QED BY <1>3

(* Every reference that is saved names a record that is saved. *)
LEMMA SavedNames ==
  ASSUME NEW h, HeapOK(h, game), NEW image, image = write_world(h)
  PROVE  Named(image.records)
<1> DEFINE S == WorldSlots(h)
<1>1. DOMAIN image.records = S /\ \A s \in S : image.records[s] = write_record(h, h.records[s])
  <2>1. image.records = [s \in S |-> write_record(h, h.records[s])] BY SavedIs, Zenon
  <2> HIDE DEF S
  <2> QED BY <2>1
<1>2. \A v : saved_value(h, v) \in S \cup {Nil} BY SavedValue
<1> HIDE DEF S
<1>3. ASSUME NEW s \in S, NEW w, w = image.records[s]
      PROVE  /\ ({w.parent} \cup Range(w.properties) \cup Range(w.elements)) \subseteq S \cup {Nil}
             /\ w.children \cup Range(w.owned) \subseteq S
             /\ DOMAIN w.owned \subseteq DOMAIN w.properties
             /\ w.kind = "vector" => Cardinality(DOMAIN w.elements) <= w.capacity
  <2> DEFINE r == h.records[s]
  <2>1. s \in WorldSlots(h) /\ r = h.records[s] /\ w = write_record(h, r) BY <1>1, <1>3 DEF S
  <2> HIDE DEF r
  <2>2. /\ w.kind = r.kind /\ w.capacity = r.capacity
        /\ w.parent = saved_value(h, r.parent) /\ w.elements = saved_elements(h, r)
        /\ w.properties = [p \in DOMAIN r.properties |-> saved_value(h, r.properties[p])]
        /\ w.owned = [p \in {q \in DOMAIN r.owned : World(h, r.owned[q])} |-> r.owned[p].slot]
        /\ w.children = {c.slot : c \in {x \in r.children : World(h, x)}}
        /\ RecordOK(r, h.next_identity, game)
    BY <2>1, SavedRecord
  <2>3. w.parent \in S \cup {Nil} BY <1>2, <2>2
  <2>4. Range(w.properties) \subseteq S \cup {Nil} BY <1>2, <2>2 DEF Range
  <2>5. Range(w.elements) \subseteq S \cup {Nil}
    <3>1. CASE r.kind # "table"
      <4>1. w.elements = [n \in DOMAIN r.elements |-> saved_value(h, r.elements[n])]
        BY <3>1, <2>2, SavedList
      <4> QED BY <4>1, <1>2 DEF Range
    <3>2. CASE r.kind = "table"
      <4>1. PICK e : e = saved_elements(h, r) OBVIOUS
      <4>2. /\ DOMAIN e = {saved_key(h, k) : k \in KeysKept(h, r)}
            /\ \A k \in KeysKept(h, r) : e[saved_key(h, k)] = saved_value(h, r.elements[k])
        BY <3>2, <2>2, <4>1, SavedWords, SavedPairs
      <4> QED BY <2>2, <4>1, <4>2, <1>2 DEF Range
    <3> QED BY <3>1, <3>2
  <2>6. \A v : World(h, v) => v.slot \in S BY SavedValue DEF S
  <2>7. w.children \subseteq S BY <2>2, <2>6
  <2>8. Range(w.owned) \subseteq S BY <2>2, <2>6 DEF Range
  <2>9. DOMAIN w.owned \subseteq DOMAIN w.properties BY <2>2 DEF RecordOK
  <2>10. w.kind = "vector" => Cardinality(DOMAIN w.elements) <= w.capacity
    <3>1. SUFFICES ASSUME r.kind = "vector" PROVE Cardinality(DOMAIN w.elements) <= w.capacity BY <2>2
    <3>2. w.elements = [n \in DOMAIN r.elements |-> saved_value(h, r.elements[n])]
      BY <3>1, <2>2, SavedList
    <3>3. DOMAIN w.elements = DOMAIN r.elements BY <3>2
    <3> QED BY <3>1, <3>3, <2>2 DEF RecordOK
  <2> QED BY <2>3, <2>4, <2>5, <2>7, <2>8, <2>9, <2>10
<1>4. ASSUME NEW s \in DOMAIN image.records
      PROVE  /\ ({image.records[s].parent} \cup Range(image.records[s].properties)
                   \cup Range(image.records[s].elements)) \subseteq S \cup {Nil}
             /\ image.records[s].children \cup Range(image.records[s].owned) \subseteq S
             /\ DOMAIN image.records[s].owned \subseteq DOMAIN image.records[s].properties
             /\ image.records[s].kind = "vector" =>
                  Cardinality(DOMAIN image.records[s].elements) <= image.records[s].capacity
  BY <1>1, <1>3, <1>4
<1> QED BY <1>1, <1>4 DEF Named

(***************************************************************************)
(* Owners that are saved make no cycle                                     *)
(***************************************************************************)
AboveBody(rs, f, n) == {s \in DOMAIN rs : rs[s].parent # Nil /\ (n = 0 \/ rs[s].parent \in f[n - 1])}

(* The function by which OwnersAgree looks for cycles, and that it exists. *)
Above(rs, f, N) == f = [n \in 0..N |-> AboveBody(rs, f, n)]

LEMMA AboveExists ==
  ASSUME NEW rs, NEW N \in Nat
  PROVE  \E f : Above(rs, f, N)
<1> DEFINE A == {m \in Nat : \E f : Above(rs, f, m)}
<1>1. 0 \in A
  <2> DEFINE f == [n \in 0..0 |-> AboveBody(rs, rs, n)]
  <2>1. Above(rs, f, 0)
    BY DEF Above, AboveBody
  <2> HIDE DEF f
  <2> QED BY <2>1
<1>2. \A m \in A : m + 1 \in A
  <2>1. SUFFICES ASSUME NEW m \in A PROVE \E g : Above(rs, g, m + 1)
    OBVIOUS
  <2>2. PICK f : Above(rs, f, m)
    OBVIOUS
  <2> DEFINE g == [n \in 0..(m + 1) |-> IF n = m + 1 THEN AboveBody(rs, f, n) ELSE f[n]]
  <2>3. m \in Nat
    OBVIOUS
  <2>4. \A n \in 0..m : f[n] = AboveBody(rs, f, n)
    BY <2>2 DEF Above
  <2>5. g = [n \in 0..(m + 1) |-> g[n]]
    OBVIOUS
  <2>6. \A n \in 0..m : g[n] = f[n]
    BY <2>3
  <2>7. \A n \in 0..(m + 1) : g[n] = AboveBody(rs, f, n)
    BY <2>3, <2>4
  <2> HIDE DEF g
  <2>8. ASSUME NEW n \in 0..(m + 1) PROVE AboveBody(rs, g, n) = AboveBody(rs, f, n)
    <3>1. CASE n = 0 BY <3>1 DEF AboveBody
    <3>2. CASE n # 0
      <4>1. n - 1 \in 0..m BY <2>3, <3>2
      <4>2. g[n - 1] = f[n - 1] BY <4>1, <2>6
      <4> QED BY <4>2 DEF AboveBody
    <3> QED BY <3>1, <3>2
  <2>9. \A n \in 0..(m + 1) : g[n] = AboveBody(rs, g, n) BY <2>7, <2>8
  <2>10. g = [n \in 0..(m + 1) |-> AboveBody(rs, g, n)] BY <2>5, <2>9
  <2> QED BY <2>10 DEF Above
<1>3. A = Nat
  <2>1. A \in SUBSET Nat
    OBVIOUS
  <2> HIDE DEF A
  <2> QED BY <1>1, <1>2, <2>1, SetInduction
<1> QED BY <1>3

Parented(rs) == \A s \in DOMAIN rs : rs[s].parent \in DOMAIN rs \cup {Nil}

(* Where every parent is older than its child no record has more owners    *)
(* above it than there are older records.                                  *)
LEMMA NoCycle ==
  ASSUME NEW rs, IsFiniteSet(DOMAIN rs), Parented(rs), NEW age \in [DOMAIN rs -> Nat],
         \A s \in DOMAIN rs : rs[s].parent # Nil => age[rs[s].parent] < age[s],
         NEW N, N = Cardinality(DOMAIN rs), NEW f, Above(rs, f, N)
  PROVE  f[N] = {}
<1> DEFINE D == DOMAIN rs
           Older(s) == {t \in D : age[t] < age[s]}
           A == {n \in Nat : n \in 0..N => \A s \in f[n] : Cardinality(Older(s)) >= n + 1}
<1>1. N \in Nat BY FS_CardinalityType
<1>2. \A n \in 0..N : f[n] = AboveBody(rs, f, n) BY DEF Above
<1>3. ASSUME NEW s \in D
      PROVE  IsFiniteSet(Older(s)) /\ Cardinality(Older(s)) \in Nat /\ Cardinality(Older(s)) <= N - 1
  <2>1. Older(s) \in SUBSET (D \ {s}) BY <1>3
  <2>2. IsFiniteSet(D \ {s}) /\ Cardinality(D \ {s}) = N - 1 BY Smaller
  <2> HIDE DEF Older, D
  <2>3. IsFiniteSet(Older(s)) /\ Cardinality(Older(s)) <= Cardinality(D \ {s}) BY <2>1, <2>2, FS_Subset
  <2>4. Cardinality(Older(s)) \in Nat BY <2>3, FS_CardinalityType
  <2> QED BY <2>2, <2>3, <2>4
<1>4. ASSUME NEW s \in D, rs[s].parent # Nil, NEW p, p = rs[s].parent
      PROVE  p \in D /\ Cardinality(Older(s)) >= Cardinality(Older(p)) + 1
  <2>1. p \in D /\ age[p] < age[s] /\ age[p] \in Nat /\ age[s] \in Nat BY <1>4 DEF Parented
  <2>2. p \notin Older(p) /\ Older(p) \cup {p} \in SUBSET Older(s)
    <3>1. \A t \in D : age[t] \in Nat OBVIOUS
    <3> QED BY <2>1, <3>1
  <2>3. IsFiniteSet(Older(p)) /\ IsFiniteSet(Older(s)) /\ Cardinality(Older(p)) \in Nat /\ Cardinality(Older(s)) \in Nat
    BY <1>3, <2>1
  <2> HIDE DEF Older, D
  <2>4. Cardinality(Older(p) \cup {p}) = Cardinality(Older(p)) + 1 BY <2>2, <2>3, FS_AddElement
  <2>5. Cardinality(Older(p) \cup {p}) <= Cardinality(Older(s)) BY <2>2, <2>3, FS_Subset
  <2> QED BY <2>1, <2>3, <2>4, <2>5
<1> HIDE DEF Older
<1>5. 0 \in A
  <2>1. ASSUME 0 \in 0..N, NEW s \in f[0] PROVE Cardinality(Older(s)) >= 0 + 1
    <3>1. s \in AboveBody(rs, f, 0) BY <1>2, <2>1
    <3>2. s \in D /\ rs[s].parent # Nil BY <3>1 DEF AboveBody
    <3>3. PICK p : p = rs[s].parent OBVIOUS
    <3>4. p \in D /\ Cardinality(Older(s)) >= Cardinality(Older(p)) + 1 BY <1>4, <3>2, <3>3
    <3> QED BY <3>2, <3>4, <1>3
  <2> QED BY <2>1
<1>6. \A n \in A : n + 1 \in A
  <2>1. SUFFICES ASSUME NEW n \in A, n + 1 \in 0..N, NEW s \in f[n + 1]
                 PROVE  Cardinality(Older(s)) >= (n + 1) + 1
    OBVIOUS
  <2>2. n \in Nat /\ n \in 0..N /\ \A t \in f[n] : Cardinality(Older(t)) >= n + 1 BY <1>1, <2>1
  <2>3. s \in AboveBody(rs, f, n + 1) BY <1>2, <2>1
  <2>4. (n + 1) - 1 = n /\ n + 1 # 0 BY <2>2
  <2>5. s \in D /\ rs[s].parent # Nil /\ rs[s].parent \in f[n]
    <3>1. s \in D /\ rs[s].parent # Nil /\ (n + 1 = 0 \/ rs[s].parent \in f[(n + 1) - 1])
      BY <2>3 DEF AboveBody
    <3> QED BY <3>1, <2>4
  <2>6. PICK p : p = rs[s].parent OBVIOUS
  <2>7. p \in D /\ Cardinality(Older(s)) >= Cardinality(Older(p)) + 1 BY <1>4, <2>5, <2>6
  <2>8. Cardinality(Older(p)) >= n + 1 BY <2>2, <2>5, <2>6, <2>7
  <2> QED BY <2>2, <2>5, <2>7, <2>8, <1>3
<1>7. A = Nat
  <2>1. A \in SUBSET Nat
    OBVIOUS
  <2> HIDE DEF A
  <2> QED BY <1>5, <1>6, <2>1, SetInduction
<1>8. ASSUME NEW x \in f[N] PROVE FALSE
  <2>1. Cardinality(Older(x)) >= N + 1 BY <1>1, <1>7
  <2>2. x \in D BY <1>1, <1>2 DEF AboveBody
  <2>3. Cardinality(Older(x)) \in Nat /\ Cardinality(Older(x)) <= N - 1 BY <1>3, <2>2
  <2> QED BY <1>1, <2>1, <2>3
<1> QED BY <1>8

(* OwnersAgree, for a forest whose children are younger. *)
LEMMA Acyclic ==
  ASSUME NEW rs, IsFiniteSet(DOMAIN rs), Parented(rs), NEW age \in [DOMAIN rs -> Nat],
         \A s \in DOMAIN rs : rs[s].parent # Nil => age[rs[s].parent] < age[s],
         \A s \in DOMAIN rs : \A c \in rs[s].children : rs[c].parent = s,
         \A s \in DOMAIN rs : \A c \in Range(rs[s].owned) : rs[c].parent = s,
         \A s \in DOMAIN rs : rs[s].parent # Nil => s \in rs[rs[s].parent].children
  PROVE  OwnersAgree(rs)
<1> DEFINE N == Cardinality(DOMAIN rs)
           f == CHOOSE f : Above(rs, f, N)
<1>1. N \in Nat BY FS_CardinalityType
<1>2. Above(rs, f, N)
  <2> HIDE DEF N
  <2> QED BY <1>1, AboveExists
<1>3. f[N] = {}
  <2> HIDE DEF f
  <2> QED BY <1>2, NoCycle
<1> QED BY <1>3 DEF OwnersAgree, Above, AboveBody

(* Owners and what they own are saved together, and agree. *)
LEMMA SavedOwners ==
  ASSUME NEW h, HeapOK(h, game), NEW image, image = write_world(h)
  PROVE  OwnersAgree(image.records)
<1> DEFINE S == WorldSlots(h)
           age == [s \in S |-> h.records[s].born]
<1>1. PICK rs : rs = image.records OBVIOUS
<1>2. DOMAIN rs = S /\ IsFiniteSet(S) /\ \A s \in S : rs[s] = write_record(h, h.records[s])
  <2>1. rs = [s \in S |-> write_record(h, h.records[s])] /\ IsFiniteSet(S) BY <1>1, SavedIs, Zenon
  <2> HIDE DEF S
  <2> QED BY <2>1
<1>3. ASSUME NEW s \in S
      PROVE  /\ rs[s].parent = saved_value(h, h.records[s].parent)
             /\ \A t \in Range(rs[s].owned) : \E p \in DOMAIN h.records[s].owned :
                  World(h, h.records[s].owned[p]) /\ t = h.records[s].owned[p].slot
             /\ \A t \in rs[s].children : \E c \in h.records[s].children : World(h, c) /\ t = c.slot
             /\ \A c \in h.records[s].children : World(h, c) => c.slot \in rs[s].children
             /\ h.records[s].born \in Nat
  <2>1. PICK r : r = h.records[s] OBVIOUS
  <2>2. PICK w : w = write_record(h, r) OBVIOUS
  <2>3. rs[s] = w BY <1>2, <2>1, <2>2
  <2>4. w.parent = saved_value(h, r.parent) BY <2>2 DEF write_record
  <2>5. \A t \in Range(w.owned) : \E p \in DOMAIN r.owned : World(h, r.owned[p]) /\ t = r.owned[p].slot
    <3>1. w.owned = [p \in {q \in DOMAIN r.owned : World(h, r.owned[q])} |-> r.owned[p].slot]
      BY <2>2 DEF write_record
    <3> QED BY <3>1 DEF Range
  <2>6. /\ \A t \in w.children : \E c \in r.children : World(h, c) /\ t = c.slot
        /\ \A c \in r.children : World(h, c) => c.slot \in w.children
    <3>1. w.children = {c.slot : c \in {x \in r.children : World(h, x)}} BY <2>2 DEF write_record
    <3> QED BY <3>1
  <2>7. r.born \in Nat
    <3>1. s \in DOMAIN h.records BY DEF WorldSlots
    <3>2. r.born \in 1..(h.next_identity - 1) BY <2>1, <3>1 DEF HeapOK, RecordOK
    <3> QED BY <3>2
  <2> QED BY <2>1, <2>3, <2>4, <2>5, <2>6, <2>7
<1>4. /\ S \subseteq DOMAIN h.records /\ S \subseteq Nat /\ Nil \notin S
      /\ \A v : IF World(h, v) THEN saved_value(h, v) = v.slot /\ v.slot \in S /\ h.records[v.slot].born = v.born
                ELSE saved_value(h, v) = Nil
      /\ \A s \in S : World(h, HandleAt(h, s))
  BY SavedValue
<1>5. TreeOK(h) /\ OwnsOK(h) /\ \A s \in DOMAIN h.records : HandleAt(h, s).slot = s /\ HandleAt(h, s) # Nil
  BY HandleFacts DEF HeapOK
<1>6. age \in [S -> Nat]
  <2>1. \A s \in S : h.records[s].born \in Nat BY <1>3
  <2> HIDE DEF S
  <2> QED BY <2>1
<1> HIDE DEF S
<1>7. Parented(rs)
  <2>1. ASSUME NEW s \in S PROVE rs[s].parent \in S \cup {Nil} BY <1>3, <1>4
  <2> QED BY <1>2, <2>1 DEF Parented
<1>8. ASSUME NEW s \in S, rs[s].parent # Nil
      PROVE  age[rs[s].parent] < age[s] /\ s \in rs[rs[s].parent].children
  <2>1. PICK o : o = h.records[s].parent OBVIOUS
  <2>2. World(h, o) /\ rs[s].parent = o.slot /\ o.slot \in S /\ h.records[o.slot].born = o.born
    BY <1>3, <1>4, <1>8, <2>1
  <2>3. o # Nil /\ s \in DOMAIN h.records BY <1>4, <2>2 DEF World, Live
  <2>4. HandleAt(h, s) \in h.records[o.slot].children /\ o.born < h.records[s].born
    BY <1>5, <2>1, <2>3 DEF TreeOK, Of
  <2>5. age[o.slot] = o.born /\ age[s] = h.records[s].born BY <2>2, <1>8
  <2>6. s \in rs[o.slot].children
    <3>1. \A c \in h.records[o.slot].children : World(h, c) => c.slot \in rs[o.slot].children BY <1>3, <2>2
    <3>2. HandleAt(h, s).slot = s /\ World(h, HandleAt(h, s)) BY <1>4, <1>5, <2>3
    <3> QED BY <3>1, <3>2, <2>4
  <2> QED BY <2>2, <2>4, <2>5, <2>6
<1>9. ASSUME NEW s \in S, NEW c, World(h, c), h.records[c.slot].parent = HandleAt(h, s)
      PROVE  rs[c.slot].parent = s
  <2>1. c.slot \in S BY <1>4, <1>9
  <2>2. rs[c.slot].parent = saved_value(h, HandleAt(h, s)) BY <1>3, <1>9, <2>1
  <2> QED BY <2>2, <1>4, <1>5
<1>10. ASSUME NEW s \in S, NEW t \in rs[s].children PROVE rs[t].parent = s
  <2>1. PICK c \in h.records[s].children : World(h, c) /\ t = c.slot BY <1>3, <1>10
  <2>2. h.records[c.slot].parent = HandleAt(h, s) BY <1>4, <1>5, <2>1 DEF TreeOK, Of
  <2> QED BY <1>9, <2>1, <2>2
<1>11. ASSUME NEW s \in S, NEW t \in Range(rs[s].owned) PROVE rs[t].parent = s
  <2>1. PICK p \in DOMAIN h.records[s].owned : World(h, h.records[s].owned[p]) /\ t = h.records[s].owned[p].slot
    BY <1>3, <1>11
  <2>2. PICK c : c = h.records[s].owned[p] OBVIOUS
  <2>3. World(h, c) /\ t = c.slot /\ Live(h, c) BY <2>1, <2>2 DEF World
  <2>4. h.records[c.slot].parent = HandleAt(h, s) BY <1>4, <1>5, <2>1, <2>2, <2>3 DEF OwnsOK
  <2> QED BY <1>9, <2>3, <2>4
<1> HIDE DEF age
<1> QED BY <1>1, <1>2, <1>6, <1>7, <1>8, <1>10, <1>11, Acyclic

(***************************************************************************)
(* Reading                                                                 *)
(***************************************************************************)
(* What a word is read as, for a reference and for a key. *)
At(n, w) == IF w = Nil THEN Nil ELSE [slot |-> w, born |-> n]
KeyAt(n, w) == IF w \in Keys THEN w ELSE At(n, w)

(* A record that is read, but for its elements. *)
LEMMA ReadFields ==
  ASSUME NEW w, NEW n, NEW q, q = read_record(w, n)
  PROVE  /\ q.born = n /\ q.lifetime = "World" /\ q.kind = w.kind /\ q.capacity = w.capacity
         /\ q.prototypes = w.prototypes /\ q.parent = At(n, w.parent)
BY DEF read_record, At

LEMMA ReadChildren ==
  ASSUME NEW w, NEW n, NEW q, q = read_record(w, n)
  PROVE  q.children = {At(n, c) : c \in w.children}
BY DEF read_record, At

LEMMA ReadProperties ==
  ASSUME NEW w, NEW n, NEW q, q = read_record(w, n)
  PROVE  q.properties = [p \in DOMAIN w.properties |-> At(n, w.properties[p])]
BY DEF read_record, At

LEMMA ReadOwned ==
  ASSUME NEW w, NEW n, NEW q, q = read_record(w, n)
  PROVE  q.owned = [p \in DOMAIN w.owned |-> At(n, w.owned[p])]
BY DEF read_record, At

(* The elements of a vector that are read. *)
LEMMA ReadList ==
  ASSUME NEW w, w.kind # "table", NEW n, NEW q, q = read_record(w, n)
  PROVE  q.elements = [k \in DOMAIN w.elements |-> At(n, w.elements[k])]
BY DEF read_record, At

(* What is found under the keys of a table that is read. *)
LEMMA ReadTable ==
  ASSUME NEW w, w.kind = "table", NEW n, NEW e, e = read_record(w, n).elements, NEW d, d = w.elements,
         \A x \in DOMAIN d : x \in Keys \/ (x # Nil /\ [slot |-> x, born |-> n] \notin Keys)
  PROVE  \A x \in DOMAIN d : e[KeyAt(n, x)] = At(n, d[x])
<1> DEFINE word(k) == IF k \notin Keys THEN k.slot ELSE k
<1>1. e = [k \in {KeyAt(n, x) : x \in DOMAIN w.elements} |-> At(n, w.elements[word(k)])]
  BY DEF read_record, At, KeyAt
<1>2. ASSUME NEW x \in DOMAIN w.elements PROVE word(KeyAt(n, x)) = x
  BY DEF KeyAt, At
<1> HIDE DEF word
<1> QED BY <1>1, <1>2

(* What is saved and read again is a record of the same slot, or nil. *)
Again(h, n, v) == IF World(h, v) THEN [slot |-> v.slot, born |-> n] ELSE Nil

LEMMA ValueAgain ==
  ASSUME NEW h, HeapOK(h, game), NEW n
  PROVE  \A v : At(n, saved_value(h, v)) = Again(h, n, v)
BY SavedValue DEF At, Again

(* The words of a saved table can be told apart. *)
LEMMA WordsKnown ==
  ASSUME NEW h, HeapOK(h, game), NEW n \in Nat, NEW r, RecordOK(r, h.next_identity, game), r.kind = "table",
         NEW x \in {saved_key(h, k) : k \in KeysKept(h, r)}
  PROVE  x \in Keys \/ (x \in WorldSlots(h) /\ x # Nil /\ x \notin Keys /\ [slot |-> x, born |-> n] \notin Keys)
<1>1. PICK k \in KeysKept(h, r) : x = saved_key(h, k) OBVIOUS
<1>2. CASE k \in Keys BY <1>1, <1>2, SavedKeys
<1>3. CASE k \notin Keys
  <2>1. x \in WorldSlots(h) /\ x \notin Keys BY <1>1, <1>3, SavedKeys
  <2>2. x \in Nat /\ x # Nil BY <2>1, SavedValue
  <2>3. [slot |-> x, born |-> n] \in [slot : Nat, born : Nat] BY <2>2
  <2>4. [slot |-> x, born |-> n] \notin Keys BY <2>3, NilAndKeysAreNoSlots DEF HeapOK, Keys
  <2> QED BY <2>1, <2>2, <2>4
<1> QED BY <1>2, <1>3

(* The elements e are those of the table r that are saved and read again. *)
TableRead(h, n, r, e) ==
  /\ IsFun(e)
  /\ \A x \in DOMAIN e : \E k \in KeysKept(h, r) : x = KeyAt(n, saved_key(h, k))
  /\ \A k \in KeysKept(h, r) :
       /\ KeyAt(n, saved_key(h, k)) \in DOMAIN e
       /\ KeyAt(n, saved_key(h, k)) = IF k \in Keys THEN k ELSE Again(h, n, k)
       /\ e[KeyAt(n, saved_key(h, k))] = Again(h, n, r.elements[k])

LEMMA TableAgain ==
  ASSUME NEW h, HeapOK(h, game), NEW n \in Nat, NEW r, RecordOK(r, h.next_identity, game), r.kind = "table",
         NEW w, w.kind = "table", w.elements = saved_elements(h, r), NEW e, e = read_record(w, n).elements
  PROVE  TableRead(h, n, r, e)
<1>1. PICK d : d = w.elements OBVIOUS
<1>2. IsFun(d) /\ DOMAIN d = {saved_key(h, k) : k \in KeysKept(h, r)} BY <1>1, SavedWords
<1>3. \A k \in KeysKept(h, r) : d[saved_key(h, k)] = saved_value(h, r.elements[k]) BY <1>1, SavedPairs
<1>4. \A x \in DOMAIN d : x \in Keys \/ (x # Nil /\ x \notin Keys /\ [slot |-> x, born |-> n] \notin Keys)
  BY <1>2, WordsKnown
<1>5. /\ IsFun(e) /\ DOMAIN e = {KeyAt(n, x) : x \in DOMAIN d}
      /\ \A x \in DOMAIN d : e[KeyAt(n, x)] = At(n, d[x])
  <2>1. IsFun(e) /\ DOMAIN e = {KeyAt(n, x) : x \in DOMAIN d}
    BY <1>1 DEF read_record, At, KeyAt, IsFun
  <2>2. \A x \in DOMAIN d : x \in Keys \/ (x # Nil /\ [slot |-> x, born |-> n] \notin Keys) BY <1>4
  <2>3. \A x \in DOMAIN d : e[KeyAt(n, x)] = At(n, d[x]) BY <1>1, <2>2, ReadTable
  <2> QED BY <2>1, <2>3
<1>6. DOMAIN e = {KeyAt(n, saved_key(h, k)) : k \in KeysKept(h, r)} BY <1>2, <1>5
<1>7. ASSUME NEW k \in KeysKept(h, r)
      PROVE  /\ KeyAt(n, saved_key(h, k)) = IF k \in Keys THEN k ELSE Again(h, n, k)
             /\ e[KeyAt(n, saved_key(h, k))] = Again(h, n, r.elements[k])
  <2>1. saved_key(h, k) \in DOMAIN d BY <1>2
  <2>2. e[KeyAt(n, saved_key(h, k))] = At(n, saved_value(h, r.elements[k]))
    <3>1. PICK x : x = saved_key(h, k) OBVIOUS
    <3>2. x \in DOMAIN d /\ d[x] = saved_value(h, r.elements[k]) BY <1>3, <2>1, <3>1
    <3>3. e[KeyAt(n, x)] = At(n, d[x]) BY <1>5, <3>2
    <3> QED BY <3>1, <3>2, <3>3
  <2>3. e[KeyAt(n, saved_key(h, k))] = Again(h, n, r.elements[k]) BY <2>2, ValueAgain
  <2>4. CASE k \in Keys BY <2>3, <2>4, SavedKeys DEF KeyAt
  <2>5. CASE k \notin Keys
    <3>1. World(h, k) /\ saved_key(h, k) = k.slot /\ k.slot \notin Keys BY <2>5, SavedKeys
    <3>2. saved_value(h, k) = k.slot BY <3>1 DEF saved_value
    <3>3. KeyAt(n, saved_key(h, k)) = At(n, saved_value(h, k)) BY <3>1, <3>2 DEF KeyAt
    <3> QED BY <2>3, <2>5, <3>3, ValueAgain
  <2> QED BY <2>4, <2>5
<1>8. \A x \in DOMAIN e : \E k \in KeysKept(h, r) : x = KeyAt(n, saved_key(h, k)) BY <1>6
<1>9. \A k \in KeysKept(h, r) : KeyAt(n, saved_key(h, k)) \in DOMAIN e BY <1>6
<1> QED BY <1>5, <1>7, <1>8, <1>9 DEF TableRead

(* A saved record that is read again charges no more than it did: a table  *)
(* may have lost keys.                                                     *)
LEMMA ChargeAgain ==
  ASSUME NEW h, HeapOK(h, game), NEW n \in Nat, NEW r, RecordOK(r, h.next_identity, game),
         NEW w, w = write_record(h, r), NEW q, q = read_record(w, n)
  PROVE  Charge(q) \in Nat /\ Charge(q) <= Charge(r)
<1>1. q.kind = r.kind /\ q.capacity = r.capacity /\ q.prototypes = r.prototypes
  BY ReadFields DEF write_record
<1>2. DOMAIN q.properties = DOMAIN r.properties
  <2>1. w.properties = [p \in DOMAIN r.properties |-> saved_value(h, r.properties[p])] BY DEF write_record
  <2>2. q.properties = [p \in DOMAIN w.properties |-> At(n, w.properties[p])] BY ReadProperties
  <2> QED BY <2>1, <2>2
<1>3. /\ Cardinality(DOMAIN r.properties) \in Nat /\ r.capacity \in Nat /\ r.prototypes \in Nat
      /\ IsFiniteSet(DOMAIN r.elements) /\ Cardinality(DOMAIN r.elements) \in Nat
  BY FS_CardinalityType DEF RecordOK, ElementsOK
<1>4. CASE r.kind # "table" BY <1>1, <1>2, <1>3, <1>4 DEF Charge
<1>5. CASE r.kind = "table"
  <2> DEFINE K == KeysKept(h, r)
             E == DOMAIN q.elements
             f == [k \in K |-> KeyAt(n, saved_key(h, k))]
  <2>1. E = {KeyAt(n, saved_key(h, k)) : k \in K}
    <3>1. w.kind = "table" /\ w.elements = saved_elements(h, r) BY <1>5 DEF write_record
    <3>2. PICK e : e = q.elements OBVIOUS
    <3>3. e = read_record(w, n).elements BY <3>2
    <3>4. TableRead(h, n, r, e) BY <1>5, <3>1, <3>3, TableAgain
    <3>5. /\ \A x \in DOMAIN e : \E k \in KeysKept(h, r) : x = KeyAt(n, saved_key(h, k))
          /\ \A k \in KeysKept(h, r) : KeyAt(n, saved_key(h, k)) \in DOMAIN e
      BY <3>4 DEF TableRead
    <3> QED BY <3>2, <3>5
  <2>2. IsFiniteSet(K) /\ Cardinality(K) <= Cardinality(DOMAIN r.elements)
    <3>1. K \in SUBSET DOMAIN r.elements BY DEF KeysKept
    <3> HIDE DEF K
    <3> QED BY <1>3, <3>1, FS_Subset
  <2> HIDE DEF K, E
  <2>3. f \in Surjection(K, E) BY <2>1 DEF Surjection
  <2>4. IsFiniteSet(E) /\ Cardinality(E) <= Cardinality(K)
    <3> HIDE DEF f
    <3> QED BY <2>2, <2>3, FS_Surjection
  <2>5. Cardinality(E) \in Nat /\ Cardinality(K) \in Nat BY <2>2, <2>4, FS_CardinalityType
  <2>6. Cardinality(E) <= Cardinality(DOMAIN r.elements) BY <1>3, <2>2, <2>4, <2>5
  <2>7. Charge(q) = Cardinality(DOMAIN r.properties) + r.prototypes + r.capacity + (1 + 2 * Cardinality(E))
    BY <1>1, <1>2, <1>5 DEF Charge, E
  <2>8. Charge(r) = Cardinality(DOMAIN r.properties) + r.prototypes + r.capacity
                    + (1 + 2 * Cardinality(DOMAIN r.elements))
    BY <1>5 DEF Charge
  <2> QED BY <1>3, <2>5, <2>6, <2>7, <2>8
<1> QED BY <1>4, <1>5

(* Where no record charges more, neither does any set of them. *)
LEMMA SumLess ==
  ASSUME NEW h, NEW g, NEW S, IsFiniteSet(S), Counts(h, S), Counts(g, S),
         \A s \in S : Charge(g.records[s]) <= Charge(h.records[s])
  PROVE  Sum(g, S) <= Sum(h, S)
<1> DEFINE Less(T) == Sum(g, T) <= Sum(h, T)
           A == {n \in Nat : \A T \in SUBSET S : Cardinality(T) = n => Less(T)}
<1>1. \A t \in SUBSET S : IsFiniteSet(t) /\ Cardinality(t) \in Nat
  BY FS_Subset, FS_CardinalityType
<1>2. 0 \in A
  <2>1. \A t \in SUBSET S : Cardinality(t) = 0 => t = {}
    BY <1>1, FS_EmptySet
  <2>2. Less({}) BY SumEmpty
  <2> HIDE DEF Less
  <2> QED BY <2>1, <2>2
<1>3. ASSUME NEW n \in A PROVE n + 1 \in A
  <2>1. SUFFICES ASSUME NEW T \in SUBSET S, Cardinality(T) = n + 1 PROVE Less(T)
    <3> HIDE DEF Less
    <3> QED OBVIOUS
  <2>2. PICK x \in T : TRUE
    <3>1. Cardinality(T) # 0 BY <2>1
    <3> QED BY <3>1, FS_EmptySet
  <2>3. Cardinality(T \ {x}) = n /\ T \ {x} \in SUBSET S
    <3>1. IsFiniteSet(T) BY <1>1
    <3> QED BY <3>1, <2>1, Smaller
  <2>4. Less(T \ {x}) BY <2>3
  <2>5. Sum(g, T) = Charge(g.records[x]) + Sum(g, T \ {x}) /\ Sum(g, T \ {x}) \in Nat
    BY <2>3, SumFacts
  <2>6. Sum(h, T) = Charge(h.records[x]) + Sum(h, T \ {x}) /\ Sum(h, T \ {x}) \in Nat
    BY <2>3, SumFacts
  <2>7. /\ Charge(g.records[x]) \in Nat /\ Charge(h.records[x]) \in Nat
        /\ Charge(g.records[x]) <= Charge(h.records[x])
    BY DEF Counts
  <2> QED BY <2>4, <2>5, <2>6, <2>7
<1>4. A = Nat
  <2>1. A \in SUBSET Nat OBVIOUS
  <2> HIDE DEF A
  <2> QED BY <1>2, <1>3, <2>1, SetInduction
<1>5. Less(S)
  <2> HIDE DEF Less
  <2> QED BY <1>1, <1>4
<1> QED BY <1>5

(* The world that is read from an image, before its charges are counted. *)
LEMMA WorldRead ==
  ASSUME NEW h, HeapOK(h, game), NEW image, image = write_world(h), NEW n \in Nat, NEW g, g = world_of(image, n)
  PROVE  /\ DOMAIN g.records = WorldSlots(h)
         /\ \A s \in WorldSlots(h) :
              /\ image.records[s] = write_record(h, h.records[s])
              /\ g.records[s] = read_record(write_record(h, h.records[s]), n)
<1> DEFINE S == WorldSlots(h)
<1>1. PICK rs : rs = image.records OBVIOUS
<1>2. rs = [s \in S |-> write_record(h, h.records[s])] BY <1>1, SavedIs, Zenon
<1>3. g.records = [s \in DOMAIN rs |-> read_record(rs[s], n)] BY <1>1 DEF world_of
<1> HIDE DEF S
<1>4. DOMAIN rs = S /\ \A s \in S : rs[s] = write_record(h, h.records[s]) BY <1>2
<1>5. DOMAIN g.records = S /\ \A s \in S : g.records[s] = read_record(rs[s], n) BY <1>3, <1>4
<1> QED BY <1>1, <1>4, <1>5 DEF S

(* What it charges. *)
LEMMA WorldCharges ==
  ASSUME NEW h, HeapOK(h, game), NEW image, image = write_world(h), NEW n \in Nat, NEW g, g = world_of(image, n)
  PROVE  Total(g) \in Nat /\ Total(g) <= h.charged
<1> DEFINE S == WorldSlots(h)
           D == DOMAIN h.records
<1>1. DOMAIN g.records = S /\ \A s \in S : g.records[s] = read_record(write_record(h, h.records[s]), n)
  BY WorldRead
<1>2. S \in SUBSET D /\ IsFiniteSet(S) /\ IsFiniteSet(D) /\ Counts(h, D) /\ h.charged = Sum(h, D)
  BY SavedValue, SavedIs, HeapFinite DEF HeapOK
<1>3. ASSUME NEW s \in S
      PROVE  Charge(g.records[s]) \in Nat /\ Charge(g.records[s]) <= Charge(h.records[s])
  <2>1. RecordOK(h.records[s], h.next_identity, game) BY <1>2 DEF HeapOK
  <2> HIDE DEF S
  <2> QED BY <1>1, <2>1, ChargeAgain
<1>4. Total(g) = Sum(g, S) BY <1>1 DEF Total, Sum
<1> HIDE DEF S, D
<1>5. Counts(g, S) /\ Counts(h, S) BY <1>2, <1>3 DEF Counts
<1>6. Sum(g, S) <= Sum(h, S) BY <1>2, <1>3, <1>5, SumLess
<1>7. Sum(h, D) = Sum(h, S) + Sum(h, D \ S) BY <1>2, SumSplit
<1>8. Sum(h, S) \in Nat /\ Sum(h, D \ S) \in Nat /\ D \ S \in SUBSET D BY <1>2, SumFacts
<1>9. Sum(g, S) \in Nat
  <2>1. S \in SUBSET S OBVIOUS
  <2> QED BY <2>1, <1>2, <1>5, SumFacts
<1> QED BY <1>2, <1>4, <1>6, <1>7, <1>8, <1>9

(***************************************************************************)
(* The world that comes back                                               *)
(***************************************************************************)
(* g is the heap that h becomes, with every saved record born at n. *)
Returns(h, image, n, g) ==
  /\ n = h.next_identity /\ n \in Nat
  /\ DOMAIN g.records = WorldSlots(h) /\ DOMAIN image.records = WorldSlots(h)
  /\ \A s \in WorldSlots(h) :
       /\ image.records[s] = write_record(h, h.records[s])
       /\ g.records[s] = read_record(write_record(h, h.records[s]), n)

(* What is saved is not refused, and charges no more. *)
LEMMA RestoredIs ==
  ASSUME NEW h, HeapOK(h, game), NEW image, image = write_world(h), NEW g, g = read_world(image, h)
  PROVE  g # RestoreRefused /\ Returns(h, image, h.next_identity, g) /\ g.charged <= h.charged
<1> DEFINE n == h.next_identity
<1>1. n \in Nat /\ n <= MaxIdentity /\ game \in Games /\ MaxIdentity \in Nat
      /\ ObjectLimit = game.objects /\ ObjectLimit \in Nat
      /\ PropertyLimit = game.properties /\ PropertyLimit \in Nat
  BY GameTypes DEF HeapOK, MaxIdentity, ObjectLimit, PropertyLimit
<1>2. image.ceiling = n - 1 /\ incarnation_ceiling(h) = n - 1 BY SavedIs, CeilingIs
<1>3. Incarnation(image, h) = n
  <2>1. Max({n - 1, n - 1}) = n - 1
    <3>1. {n - 1, n - 1} \in SUBSET Int /\ n - 1 \in {n - 1, n - 1} /\ \A x \in {n - 1, n - 1} : n - 1 >= x
      BY <1>1
    <3> HIDE DEF n
    <3> QED BY <3>1, MaxIs
  <2> HIDE DEF n
  <2> QED BY <1>1, <1>2, <2>1 DEF Incarnation
<1>4. PICK world : world = world_of(image, n) OBVIOUS
<1>5. /\ DOMAIN world.records = WorldSlots(h)
      /\ \A s \in WorldSlots(h) :
           /\ image.records[s] = write_record(h, h.records[s])
           /\ world.records[s] = read_record(write_record(h, h.records[s]), n)
  BY <1>1, <1>4, WorldRead
<1>6. Total(world) \in Nat /\ Total(world) <= h.charged BY <1>1, <1>4, WorldCharges
<1>7. DOMAIN image.records = WorldSlots(h)
  <2>1. PICK rs : rs = image.records OBVIOUS
  <2>2. rs = [s \in WorldSlots(h) |-> write_record(h, h.records[s])] BY <2>1, SavedIs, Zenon
  <2>3. DOMAIN rs = WorldSlots(h) BY <2>2
  <2> QED BY <2>1, <2>3
<1>8. ~(Cardinality(DOMAIN image.records) > ObjectLimit)
  <2>1. Cardinality(WorldSlots(h)) <= game.objects /\ Cardinality(WorldSlots(h)) \in Nat BY SavedIs
  <2> QED BY <1>1, <1>7, <2>1
<1>9. Named(image.records) /\ OwnersAgree(image.records) BY SavedNames, SavedOwners
<1>10. h.charged <= game.properties /\ h.charged \in Nat
  <2>1. h.charged = Sum(h, DOMAIN h.records) /\ h.charged <= game.properties BY HeapFinite DEF HeapOK
  <2>2. DOMAIN h.records \in SUBSET DOMAIN h.records OBVIOUS
  <2>3. Sum(h, DOMAIN h.records) \in Nat BY <2>2, HeapFinite, SumFacts
  <2> QED BY <2>1, <2>3
<1> HIDE DEF n
<1>11. ~(n > MaxIdentity) /\ ~(Total(world) > PropertyLimit) BY <1>1, <1>6, <1>10
<1>12. g = [world EXCEPT !.charged = Total(world)]
  BY <1>3, <1>4, <1>8, <1>9, <1>11 DEF read_world
<1>13. g.records = world.records /\ g.charged = Total(world) /\ g # RestoreRefused
  BY <1>4, <1>12 DEF world_of, RestoreRefused
<1>14. DOMAIN g.records = WorldSlots(h) BY <1>5, <1>13
<1> QED BY <1>1, <1>5, <1>6, <1>7, <1>13, <1>14 DEF Returns, n

(* What its records say of themselves. *)
Reborn(h, n, g) ==
  \A s \in WorldSlots(h) :
    /\ g.records[s].born = n /\ g.records[s].lifetime = "World"
    /\ HandleAt(g, s) = [slot |-> s, born |-> n] /\ HandleAt(g, s) # Nil
    /\ World(g, [slot |-> s, born |-> n])

LEMMA ReturnedBorn ==
  ASSUME NEW h, HeapOK(h, game), NEW image, NEW n, NEW g, Returns(h, image, n, g)
  PROVE  Reborn(h, n, g)
<1> SUFFICES ASSUME NEW s \in WorldSlots(h)
             PROVE  /\ g.records[s].born = n /\ g.records[s].lifetime = "World"
                    /\ HandleAt(g, s) = [slot |-> s, born |-> n] /\ HandleAt(g, s) # Nil
                    /\ World(g, [slot |-> s, born |-> n])
  BY DEF Reborn
<1>1. PICK q : q = g.records[s] OBVIOUS
<1>2. PICK w : w = write_record(h, h.records[s]) OBVIOUS
<1>3. q = read_record(w, n) BY <1>1, <1>2 DEF Returns
<1>4. q.born = n /\ q.lifetime = "World" BY <1>3, ReadFields
<1>5. s \in Nat /\ n \in Nat /\ s \in DOMAIN g.records BY SavedValue DEF Returns
<1>6. [slot |-> s, born |-> n] # Nil
  <2>1. [slot |-> s, born |-> n] \in [slot : Nat, born : Nat] BY <1>5
  <2> QED BY <2>1, NilIsNoHandle
<1> QED BY <1>1, <1>4, <1>5, <1>6 DEF HandleAt, World, Live, Of

(* Nothing that was held before is alive in it. *)
LEMMA NothingOld ==
  ASSUME NEW h, HeapOK(h, game), NEW image, NEW n, NEW g, Returns(h, image, n, g)
  PROVE  /\ \A o \in LiveHandles(h) : ~Live(g, o)
         /\ \A r \in Range(h.records) : \A v \in Held(r) : ~Live(g, v)
<1>1. ASSUME NEW v \in Old(n) PROVE ~Live(g, v)
  <2>1. v.born \in 1..(n - 1) /\ n \in Nat BY DEF Old, Returns
  <2>2. v.slot \in DOMAIN g.records => g.records[v.slot].born = n
    <3>1. DOMAIN g.records = WorldSlots(h) BY DEF Returns
    <3>2. Reborn(h, n, g) BY ReturnedBorn
    <3>3. \A s \in WorldSlots(h) : g.records[s].born = n BY <3>2 DEF Reborn
    <3> QED BY <3>1, <3>3
  <2> QED BY <2>1, <2>2 DEF Live
<1>2. n = h.next_identity BY DEF Returns
<1>3. \A o \in LiveHandles(h) : o \in Old(n) BY <1>2, HandleFacts DEF LiveHandles
<1>4. ASSUME NEW r \in Range(h.records), NEW v \in Held(r) PROVE v \in Old(n)
  <2>1. PICK s \in DOMAIN h.records : r = h.records[s] BY DEF Range
  <2>2. RecordOK(r, n, game) BY <1>2, <2>1 DEF HeapOK
  <2>3. Range(r.properties) \subseteq Ref(n) BY <2>2 DEF RecordOK, Range
  <2>4. Range(r.elements) \subseteq Ref(n) BY <2>2 DEF RecordOK, ElementsOK, Range
  <2>5. r.kind = "table" => DOMAIN r.elements \ Keys \subseteq Old(n) BY <2>2 DEF RecordOK, ElementsOK, Keys
  <2>6. v # Nil /\ (v \in Range(r.properties) \/ v \in Range(r.elements)
                    \/ (r.kind = "table" /\ v \in DOMAIN r.elements \ Keys))
    BY <1>4 DEF Held
  <2> QED BY <2>3, <2>4, <2>5, <2>6 DEF Ref
<1> QED BY <1>1, <1>3, <1>4

(* A record comes back as it was. *)
LEMMA SameAgain ==
  ASSUME NEW h, HeapOK(h, game), NEW image, NEW n, NEW g, Returns(h, image, n, g), NEW s \in WorldSlots(h)
  PROVE  SameRecord(h, g, h.records[s], g.records[s])
<1> DEFINE now(v) == IF World(h, v) THEN HandleAt(g, v.slot) ELSE Nil
<1>1. \A v : now(v) = Again(h, n, v)
  <2>1. \A v : World(h, v) => v.slot \in WorldSlots(h) BY SavedValue
  <2>2. Reborn(h, n, g) BY ReturnedBorn
  <2>3. \A x \in WorldSlots(h) : HandleAt(g, x) = [slot |-> x, born |-> n] BY <2>2 DEF Reborn
  <2> QED BY <2>1, <2>3 DEF Again
<1>2. PICK r : r = h.records[s] OBVIOUS
<1>3. PICK w : w = write_record(h, r) OBVIOUS
<1>4. PICK q : q = g.records[s] OBVIOUS
<1>5. q = read_record(w, n) /\ n = h.next_identity /\ n \in Nat BY <1>2, <1>3, <1>4 DEF Returns
<1>6. RecordOK(r, h.next_identity, game) BY <1>2 DEF HeapOK, WorldSlots
<1>7. \A v : At(n, saved_value(h, v)) = Again(h, n, v) BY ValueAgain
<1>8. q.kind = r.kind /\ q.prototypes = r.prototypes /\ q.capacity = r.capacity /\ q.parent = Again(h, n, r.parent)
  <2>1. /\ q.kind = w.kind /\ q.prototypes = w.prototypes /\ q.capacity = w.capacity
        /\ q.parent = At(n, w.parent)
    BY <1>5, ReadFields
  <2>2. /\ w.kind = r.kind /\ w.prototypes = r.prototypes /\ w.capacity = r.capacity
        /\ w.parent = saved_value(h, r.parent)
    BY <1>3 DEF write_record
  <2> QED BY <2>1, <2>2, <1>7
<1>9. q.children = {Again(h, n, c) : c \in r.children} \ {Nil}
  <2>1. q.children = {At(n, c) : c \in w.children} BY <1>5, ReadChildren
  <2>2. w.children = {c.slot : c \in {x \in r.children : World(h, x)}} BY <1>3 DEF write_record
  <2>3. \A c : World(h, c) => At(n, c.slot) = Again(h, n, c) /\ Again(h, n, c) # Nil
    <3>1. ASSUME NEW c, World(h, c) PROVE At(n, c.slot) = Again(h, n, c) /\ Again(h, n, c) # Nil
      <4>1. saved_value(h, c) = c.slot BY <3>1 DEF saved_value
      <4>2. c.slot \in WorldSlots(h) BY <3>1, SavedValue
      <4>3. [slot |-> c.slot, born |-> n] # Nil
        <5>1. HandleAt(g, c.slot) = [slot |-> c.slot, born |-> n] /\ HandleAt(g, c.slot) # Nil
          BY <4>2, ReturnedBorn DEF Reborn
        <5> QED BY <5>1
      <4> QED BY <3>1, <4>1, <4>3, <1>7 DEF Again
    <3> QED BY <3>1
  <2>4. \A c : ~World(h, c) => Again(h, n, c) = Nil BY DEF Again
  <2>5. ASSUME NEW x \in q.children PROVE x \in {Again(h, n, c) : c \in r.children} \ {Nil}
    <3>1. PICK c \in r.children : World(h, c) /\ x = At(n, c.slot) BY <2>1, <2>2
    <3> QED BY <3>1, <2>3
  <2>6. ASSUME NEW c \in r.children, Again(h, n, c) # Nil PROVE Again(h, n, c) \in q.children
    <3>1. World(h, c) BY <2>4, <2>6
    <3>2. c.slot \in w.children BY <3>1, <2>2
    <3>3. At(n, c.slot) \in q.children BY <3>2, <2>1
    <3> QED BY <3>1, <3>3, <2>3
  <2> QED BY <2>5, <2>6
<1>10. DOMAIN q.properties = DOMAIN r.properties
       /\ \A p \in DOMAIN r.properties : q.properties[p] = Again(h, n, r.properties[p])
  <2>1. q.properties = [p \in DOMAIN w.properties |-> At(n, w.properties[p])] BY <1>5, ReadProperties
  <2>2. w.properties = [p \in DOMAIN r.properties |-> saved_value(h, r.properties[p])] BY <1>3 DEF write_record
  <2> QED BY <2>1, <2>2, <1>7
<1>11. ASSUME NEW k \in DOMAIN r.elements
       PROVE  IF r.kind # "table" \/ k \in Keys THEN q.elements[k] = Again(h, n, r.elements[k])
              ELSE World(h, k) => q.elements[Again(h, n, k)] = Again(h, n, r.elements[k])
  <2>1. w.kind = r.kind /\ w.elements = saved_elements(h, r) BY <1>3 DEF write_record
  <2>2. CASE r.kind # "table"
    <3>1. w.elements = [i \in DOMAIN r.elements |-> saved_value(h, r.elements[i])] BY <2>1, <2>2, SavedList
    <3>2. q.elements = [i \in DOMAIN w.elements |-> At(n, w.elements[i])] BY <1>5, <2>1, <2>2, ReadList
    <3> QED BY <3>1, <3>2, <2>2, <1>7
  <2>3. CASE r.kind = "table"
    <3>1. PICK e : e = q.elements OBVIOUS
    <3>2. e = read_record(w, n).elements BY <1>5, <3>1
    <3>3. TableRead(h, n, r, e) BY <1>5, <1>6, <2>1, <2>3, <3>2, TableAgain
    <3>4. k \in Keys \/ World(h, k) => k \in KeysKept(h, r) BY DEF KeysKept
    <3> QED BY <3>1, <3>3, <3>4, <2>3 DEF TableRead
  <2> QED BY <2>2, <2>3
<1>12. /\ q.parent = now(r.parent) /\ q.children = {now(c) : c \in r.children} \ {Nil}
       /\ \A p \in DOMAIN r.properties : q.properties[p] = now(r.properties[p])
       /\ \A k \in DOMAIN r.elements :
            IF r.kind # "table" \/ k \in Keys THEN q.elements[k] = now(r.elements[k])
            ELSE World(h, k) => q.elements[now(k)] = now(r.elements[k])
  <2> HIDE DEF now
  <2>1. q.parent = now(r.parent) BY <1>1, <1>8
  <2>2. q.children = {now(c) : c \in r.children} \ {Nil} BY <1>1, <1>9
  <2>3. \A p \in DOMAIN r.properties : q.properties[p] = now(r.properties[p]) BY <1>1, <1>10
  <2>4. ASSUME NEW k \in DOMAIN r.elements
        PROVE  IF r.kind # "table" \/ k \in Keys THEN q.elements[k] = now(r.elements[k])
               ELSE World(h, k) => q.elements[now(k)] = now(r.elements[k])
    <3>1. now(k) = Again(h, n, k) /\ now(r.elements[k]) = Again(h, n, r.elements[k]) BY <1>1
    <3> QED BY <3>1, <1>11
  <2> QED BY <2>1, <2>2, <2>3, <2>4
<1> QED BY <1>2, <1>4, <1>8, <1>10, <1>12 DEF SameRecord

(* What a reference in it is saved as, and that every word is its reference. *)
LEMMA SavedBack ==
  ASSUME NEW h, HeapOK(h, game), NEW image, NEW n, NEW g, Returns(h, image, n, g),
         NEW x \in WorldSlots(h) \cup {Nil}
  PROVE  saved_value(g, At(n, x)) = x
<1>1. Reborn(h, n, g) BY ReturnedBorn
<1>2. ~World(g, Nil) BY DEF World, Live
<1>3. CASE x = Nil BY <1>2, <1>3 DEF At, saved_value
<1>4. CASE x \in WorldSlots(h) /\ x # Nil
  <2>1. World(g, [slot |-> x, born |-> n]) BY <1>1, <1>4 DEF Reborn
  <2>2. At(n, x) = [slot |-> x, born |-> n] BY <1>4 DEF At
  <2> QED BY <2>1, <2>2 DEF saved_value
<1> QED BY <1>3, <1>4

(* The words of a saved record. *)
LEMMA WordsSaved ==
  ASSUME NEW h, HeapOK(h, game), NEW v
  PROVE  saved_value(h, v) \in WorldSlots(h) \cup {Nil}
BY SavedValue

(* The elements are saved again as they were. *)
LEMMA ElementsBack ==
  ASSUME NEW h, HeapOK(h, game), NEW image, NEW n, NEW g, Returns(h, image, n, g),
         NEW r, RecordOK(r, h.next_identity, game), NEW w, w = write_record(h, r), NEW q, q = read_record(w, n)
  PROVE  saved_elements(g, q) = w.elements
<1>1. w.kind = r.kind /\ w.elements = saved_elements(h, r) BY DEF write_record
<1>2. q.kind = r.kind BY <1>1, ReadFields
<1>3. n \in Nat BY DEF Returns
<1>4. \A v : saved_value(g, At(n, saved_value(h, v))) = saved_value(h, v) BY WordsSaved, SavedBack
<1>5. CASE r.kind # "table"
  <2>1. w.elements = [i \in DOMAIN r.elements |-> saved_value(h, r.elements[i])] BY <1>1, <1>5, SavedList
  <2>2. q.elements = [i \in DOMAIN w.elements |-> At(n, w.elements[i])] BY <1>1, <1>5, ReadList
  <2>3. PICK f : f = saved_elements(g, q) OBVIOUS
  <2>4. f = [i \in DOMAIN q.elements |-> saved_value(g, q.elements[i])] BY <1>2, <1>5, <2>3, SavedList
  <2>5. DOMAIN q.elements = DOMAIN r.elements /\ DOMAIN w.elements = DOMAIN r.elements BY <2>1, <2>2
  <2>6. \A i \in DOMAIN r.elements : saved_value(g, q.elements[i]) = w.elements[i] BY <2>1, <2>2, <1>4
  <2>7. f = [i \in DOMAIN r.elements |-> w.elements[i]] BY <2>4, <2>5, <2>6
  <2>8. w.elements = [i \in DOMAIN r.elements |-> w.elements[i]] BY <2>1
  <2> QED BY <2>3, <2>7, <2>8
<1>6. CASE r.kind = "table"
  <2>1. PICK d : d = w.elements OBVIOUS
  <2>2. PICK e : e = q.elements OBVIOUS
  <2>3. PICK f : f = saved_elements(g, q) OBVIOUS
  <2> DEFINE K == KeysKept(h, r)
             L == DOMAIN e
             word(x) == saved_key(g, x)
  <2>4. IsFun(d) /\ DOMAIN d = {saved_key(h, k) : k \in K} BY <1>1, <1>6, <2>1, SavedWords
  <2>5. \A k \in K : d[saved_key(h, k)] = saved_value(h, r.elements[k]) BY <1>1, <1>6, <2>1, SavedPairs
  <2>6. TableRead(h, n, r, e)
    <3>1. e = read_record(w, n).elements BY <2>2
    <3> QED BY <1>1, <1>3, <1>6, <3>1, TableAgain
  <2>7. ASSUME NEW k \in K
        PROVE  /\ KeyAt(n, saved_key(h, k)) \in L
               /\ KeyAt(n, saved_key(h, k)) \in Keys \/ World(g, KeyAt(n, saved_key(h, k)))
               /\ word(KeyAt(n, saved_key(h, k))) = saved_key(h, k)
               /\ saved_value(g, e[KeyAt(n, saved_key(h, k))]) = d[saved_key(h, k)]
    <3>1. PICK x : x = saved_key(h, k) OBVIOUS
    <3>2. PICK y : y = KeyAt(n, x) OBVIOUS
    <3>3. y \in L /\ e[y] = Again(h, n, r.elements[k]) BY <2>6, <3>1, <3>2 DEF TableRead
    <3>4. e[y] = At(n, saved_value(h, r.elements[k])) BY <3>3, ValueAgain
    <3>5. saved_value(g, e[y]) = d[x] BY <3>1, <3>4, <2>5, <1>4
    <3>6. x \in Keys \/ (x \in WorldSlots(h) /\ x # Nil /\ x \notin Keys /\ [slot |-> x, born |-> n] \notin Keys)
      <4>1. x \in {saved_key(h, l) : l \in KeysKept(h, r)} BY <3>1
      <4> QED BY <4>1, <1>3, <1>6, WordsKnown
    <3>7. CASE x \in Keys
      <4>1. y = x BY <3>2, <3>7 DEF KeyAt
      <4>2. word(y) = x BY <4>1, <3>7 DEF saved_key
      <4> QED BY <3>1, <3>2, <3>3, <3>5, <3>7, <4>1, <4>2
    <3>8. CASE x \notin Keys
      <4>1. x \in WorldSlots(h) /\ x # Nil /\ [slot |-> x, born |-> n] \notin Keys BY <3>6, <3>8
      <4>2. y = [slot |-> x, born |-> n] BY <3>2, <3>8, <4>1 DEF KeyAt, At
      <4>3. Reborn(h, n, g) BY ReturnedBorn
      <4>4. World(g, y) BY <4>1, <4>2, <4>3 DEF Reborn
      <4>5. word(y) = x BY <4>1, <4>2 DEF saved_key
      <4> QED BY <3>1, <3>2, <3>3, <3>5, <4>4, <4>5
    <3> QED BY <3>6, <3>7, <3>8
  <2>8. \A y \in L : \E k \in K : y = KeyAt(n, saved_key(h, k)) BY <2>6 DEF TableRead
  <2>9. {y \in L : y \in Keys \/ World(g, y)} = L BY <2>7, <2>8
  <2>10. f = [x \in {word(y) : y \in L} |-> saved_value(g, e[CHOOSE y \in L : word(y) = x])]
    <3>1. PICK kept : kept = {y \in L : y \in Keys \/ World(g, y)} OBVIOUS
    <3>2. f = [x \in {saved_key(g, y) : y \in kept} |-> saved_value(g, e[CHOOSE y \in kept : saved_key(g, y) = x])]
      BY <1>2, <1>6, <2>2, <2>3, <3>1 DEF saved_elements
    <3>3. kept = L BY <2>9, <3>1
    <3> HIDE DEF L
    <3> QED BY <3>2, <3>3
  <2> HIDE DEF K, L, word
  <2>11. {word(y) : y \in L} = DOMAIN d
    <3>1. ASSUME NEW y \in L PROVE word(y) \in DOMAIN d BY <2>4, <2>7, <2>8
    <3>2. ASSUME NEW x \in DOMAIN d PROVE \E y \in L : word(y) = x BY <2>4, <2>7
    <3> QED BY <3>1, <3>2
  <2>12. ASSUME NEW x \in DOMAIN d PROVE saved_value(g, e[CHOOSE y \in L : word(y) = x]) = d[x]
    <3>1. \E y \in L : word(y) = x BY <2>11
    <3>2. PICK y : y = CHOOSE z \in L : word(z) = x OBVIOUS
    <3>3. y \in L /\ word(y) = x BY <3>1, <3>2
    <3>4. PICK k \in K : y = KeyAt(n, saved_key(h, k)) BY <2>8, <3>3
    <3>5. saved_key(h, k) = x /\ saved_value(g, e[y]) = d[x] BY <2>7, <3>3, <3>4
    <3> QED BY <3>2, <3>5
  <2>13. f = [x \in DOMAIN d |-> d[x]] BY <2>10, <2>11, <2>12
  <2> QED BY <2>1, <2>3, <2>4, <2>13 DEF IsFun
<1> QED BY <1>5, <1>6

(* A record is saved again as it was. *)
LEMMA RecordBack ==
  ASSUME NEW h, HeapOK(h, game), NEW image, NEW n, NEW g, Returns(h, image, n, g), NEW s \in WorldSlots(h)
  PROVE  write_record(g, g.records[s]) = image.records[s]
<1>1. PICK r : r = h.records[s] OBVIOUS
<1>2. PICK w : w = write_record(h, r) OBVIOUS
<1>3. PICK q : q = g.records[s] OBVIOUS
<1>4. q = read_record(w, n) /\ w = image.records[s] BY <1>1, <1>2, <1>3 DEF Returns
<1>5. RecordOK(r, h.next_identity, game) BY <1>1 DEF HeapOK, WorldSlots
<1>6. \A v : saved_value(g, At(n, saved_value(h, v))) = saved_value(h, v) BY WordsSaved, SavedBack
<1>7. /\ q.kind = w.kind /\ q.prototypes = w.prototypes /\ q.capacity = w.capacity
      /\ q.parent = At(n, w.parent)
  BY <1>4, ReadFields
<1>8. saved_value(g, q.parent) = w.parent BY <1>2, <1>6, <1>7 DEF write_record
<1>9. [p \in DOMAIN q.properties |-> saved_value(g, q.properties[p])] = w.properties
  <2>1. w.properties = [p \in DOMAIN r.properties |-> saved_value(h, r.properties[p])] BY <1>2 DEF write_record
  <2>2. q.properties = [p \in DOMAIN w.properties |-> At(n, w.properties[p])] BY <1>4, ReadProperties
  <2>3. DOMAIN q.properties = DOMAIN r.properties
        /\ \A p \in DOMAIN r.properties : saved_value(g, q.properties[p]) = saved_value(h, r.properties[p])
    BY <2>1, <2>2, <1>6
  <2> QED BY <2>1, <2>3
<1>10. \A c : World(h, c) => World(g, At(n, c.slot)) /\ At(n, c.slot).slot = c.slot
  <2>1. Reborn(h, n, g) BY ReturnedBorn
  <2>2. \A c : World(h, c) => c.slot \in WorldSlots(h) /\ c.slot # Nil BY SavedValue
  <2>3. \A x \in WorldSlots(h) : World(g, [slot |-> x, born |-> n]) BY <2>1 DEF Reborn
  <2> QED BY <2>2, <2>3 DEF At
<1>11. [p \in {x \in DOMAIN q.owned : World(g, q.owned[x])} |-> q.owned[p].slot] = w.owned
  <2>1. w.owned = [p \in {x \in DOMAIN r.owned : World(h, r.owned[x])} |-> r.owned[p].slot] BY <1>2 DEF write_record
  <2>2. q.owned = [p \in DOMAIN w.owned |-> At(n, w.owned[p])] BY <1>4, ReadOwned
  <2>3. DOMAIN q.owned = DOMAIN w.owned
        /\ \A p \in DOMAIN w.owned : World(g, q.owned[p]) /\ q.owned[p].slot = w.owned[p]
    BY <2>1, <2>2, <1>10
  <2>4. {x \in DOMAIN q.owned : World(g, q.owned[x])} = DOMAIN w.owned BY <2>3
  <2>5. w.owned = [p \in DOMAIN w.owned |-> w.owned[p]] BY <2>1
  <2> QED BY <2>3, <2>4, <2>5
<1>12. {c.slot : c \in {x \in q.children : World(g, x)}} = w.children
  <2>1. w.children = {c.slot : c \in {x \in r.children : World(h, x)}} BY <1>2 DEF write_record
  <2>2. q.children = {At(n, c) : c \in w.children} BY <1>4, ReadChildren
  <2>3. ASSUME NEW x \in w.children PROVE World(g, At(n, x)) /\ At(n, x).slot = x
    <3>1. PICK c \in r.children : World(h, c) /\ x = c.slot BY <2>1
    <3> QED BY <3>1, <1>10
  <2>4. ASSUME NEW y \in {c.slot : c \in {x \in q.children : World(g, x)}} PROVE y \in w.children
    <3>1. PICK c \in q.children : y = c.slot OBVIOUS
    <3>2. PICK x \in w.children : c = At(n, x) BY <2>2
    <3> QED BY <3>1, <3>2, <2>3
  <2>5. ASSUME NEW x \in w.children PROVE \E c \in q.children : World(g, c) /\ c.slot = x BY <2>2, <2>3
  <2> QED BY <2>4, <2>5
<1>13. saved_elements(g, q) = w.elements
  <2>1. q = read_record(w, n) BY <1>4
  <2> QED BY ONLY HeapOK(h, game), Returns(h, image, n, g), <1>2, <2>1, <1>5, ElementsBack
<1>14. write_record(g, q) =
         [kind |-> w.kind, prototypes |-> w.prototypes, capacity |-> w.capacity, parent |-> w.parent,
          properties |-> w.properties, owned |-> w.owned, children |-> w.children, elements |-> w.elements]
  BY <1>7, <1>8, <1>9, <1>11, <1>12, <1>13 DEF write_record
<1>15. w = [kind |-> w.kind, prototypes |-> w.prototypes, capacity |-> w.capacity, parent |-> w.parent,
            properties |-> w.properties, owned |-> w.owned, children |-> w.children, elements |-> w.elements]
  BY <1>2 DEF write_record
<1> QED BY <1>3, <1>4, <1>14, <1>15

(* The restored world saves the same records. *)
LEMMA ImageBack ==
  ASSUME NEW h, HeapOK(h, game), NEW image, image = write_world(h), NEW n, NEW g, Returns(h, image, n, g)
  PROVE  write_world(g).records = image.records
<1> DEFINE S == WorldSlots(h)
<1>1. PICK rs : rs = image.records OBVIOUS
<1>2. rs = [s \in S |-> write_record(h, h.records[s])] BY <1>1, SavedIs, Zenon
<1>3. {x \in DOMAIN g.records : g.records[x].lifetime = "World"} = S
  <2>1. Reborn(h, n, g) BY ReturnedBorn
  <2>2. DOMAIN g.records = S BY DEF Returns
  <2>3. \A x \in S : g.records[x].lifetime = "World" BY <2>1 DEF Reborn
  <2> HIDE DEF S
  <2> QED BY <2>2, <2>3
<1>4. PICK ts : ts = write_world(g).records OBVIOUS
<1>5. ts = [s \in {x \in DOMAIN g.records : g.records[x].lifetime = "World"} |-> write_record(g, g.records[s])]
  BY <1>4 DEF write_world
<1>6. \A s \in S : write_record(g, g.records[s]) = rs[s] BY <1>1, RecordBack
<1> HIDE DEF S
<1>7. ts = [s \in S |-> write_record(g, g.records[s])] BY <1>3, <1>5
<1>8. ts = [s \in S |-> rs[s]] BY <1>6, <1>7
<1>9. rs = [s \in S |-> rs[s]] BY <1>2
<1> QED BY <1>1, <1>4, <1>8, <1>9

(* One store that is well-formed comes back from its own image. *)
LEMMA HeapRestored ==
  ASSUME HeapOK(heap, game) PROVE RestoreExact
<1>1. SUFFICES ASSUME NEW image, image = write_world(heap), NEW g, g = read_world(image, heap)
               PROVE  /\ g # RestoreRefused
                      /\ DOMAIN g.records = DOMAIN image.records
                      /\ \A s \in DOMAIN g.records : SameRecord(heap, g, heap.records[s], g.records[s])
                      /\ g.charged <= heap.charged
                      /\ \A o \in LiveHandles(heap) : ~Live(g, o)
                      /\ \A r \in Range(heap.records) : \A v \in Held(r) : ~Live(g, v)
                      /\ write_world(g).records = image.records
  BY DEF RestoreExact
<1> DEFINE n == heap.next_identity
<1>2. g # RestoreRefused /\ Returns(heap, image, n, g) /\ g.charged <= heap.charged BY <1>1, RestoredIs
<1> HIDE DEF n
<1>3. DOMAIN g.records = WorldSlots(heap) /\ DOMAIN image.records = WorldSlots(heap) BY <1>2 DEF Returns
<1>4. \A s \in WorldSlots(heap) : SameRecord(heap, g, heap.records[s], g.records[s]) BY <1>2, SameAgain
<1>5. /\ \A o \in LiveHandles(heap) : ~Live(g, o)
      /\ \A r \in Range(heap.records) : \A v \in Held(r) : ~Live(g, v)
  BY <1>2, NothingOld
<1>6. write_world(g).records = image.records BY <1>1, <1>2, ImageBack
<1> QED BY <1>2, <1>3, <1>4, <1>5, <1>6

(* Whenever a world may be saved, its image is accepted by the store that  *)
(* wrote it and gives the same records, fields, elements and owners under  *)
(* new identities, and no more charge, whatever the game did before        *)
(* (persistence.rs write_world, read_world).                               *)
THEOREM RestoreAlwaysExact == Spec => []RestoreExact
<1>1. AllOK => RestoreExact BY HeapRestored DEF AllOK
<1> QED BY <1>1, StoreInvariant, PTL
=============================================================================
