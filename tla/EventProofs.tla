----------------------------- MODULE EventProofs -----------------------------
(***************************************************************************)
(* Proofs about EventStream: for any ids, entities and limit, and however  *)
(* many sessions, what a host reads is the list of EventLog.               *)
(***************************************************************************)
EXTENDS EventStream, SequenceTheorems, WellFoundedInduction, TLAPS

(***************************************************************************)
(* Where the parts of a record lie in a stream.                            *)
(***************************************************************************)
Words == Seq(Nat)
Records == [id : Nat, subjects : Seq(Nat), values : Seq(Nat \X Nat)]

Width(bytes) == (bytes + 7) \div 8

CountAt(start, r) == start + 2 + Width(r.id)
ValuedAt(start, r) == CountAt(start, r) + Len(r.subjects) + 1

(* The values vs lie from one word up to another, each at its place. *)
ValuesLie(e, from, upto, vs, place) ==
  /\ place[0] = from /\ place[Len(vs)] = upto
  /\ \A k \in 1..Len(vs) :
       /\ place[k] = place[k - 1] + 2 + Width(vs[k][2])
       /\ from <= place[k - 1] /\ place[k] <= upto
       /\ e[place[k - 1]] = vs[k][1] /\ e[place[k - 1] + 1] = vs[k][2]

SubjectsLie(e, start, r) ==
  /\ e[start + 1] = r.id
  /\ e[CountAt(start, r)] = Len(r.subjects)
  /\ \A k \in 1..Len(r.subjects) : e[CountAt(start, r) + k] = r.subjects[k]

(* The record r lies from its first word up to the next record. *)
Lies(e, start, upto, r) ==
  /\ e[start] = upto - start
  /\ SubjectsLie(e, start, r)
  /\ ValuedAt(start, r) <= upto
  /\ IF r.values = <<>> THEN upto = ValuedAt(start, r)
     ELSE /\ ValuedAt(start, r) < upto
          /\ e[ValuedAt(start, r)] = Len(r.values)
          /\ \E place \in [0..Len(r.values) -> Nat] :
               ValuesLie(e, ValuedAt(start, r) + 1, upto, r.values, place)

(* The stream e is the records rs, the k-th between starts k - 1 and k. *)
Parsed(e, starts, rs) ==
  /\ starts \in [0..Len(rs) -> Nat]
  /\ starts[0] = 1 /\ starts[Len(rs)] = Len(e) + 1
  /\ \A j, k \in 0..Len(rs) : j <= k => starts[j] <= starts[k]
  /\ \A k \in 1..Len(rs) :
       starts[k - 1] < starts[k] /\ Lies(e, starts[k - 1], starts[k], rs[k])

(* A session's record holds whole records, and knows where it counts values. *)
Whole(x, starts, rs) ==
  /\ Parsed(x.events, starts, rs)
  /\ x.event_values = IF rs = <<>> THEN None
                      ELSE IF rs[Len(rs)].values = <<>> THEN None
                      ELSE ValuedAt(starts[Len(rs) - 1], rs[Len(rs)])

Shareds == [events : Words, event_values : Nat, snapshot : Nat]

StreamType ==
  /\ shared \in [Sessions -> Shareds]
  /\ counter \in Nat \ {0}
  /\ resyncing \in [Sessions -> BOOLEAN]

IsWhole(x) == \E rs \in Seq(Records) : \E starts : Whole(x, starts, rs)

StreamInv == StreamType /\ \A s \in Sessions : IsWhole(shared[s])

(***************************************************************************)
(* Words                                                                   *)
(***************************************************************************)
LEMMA WidthType == ASSUME NEW b \in Nat PROVE Width(b) \in Nat
BY DEF Width

LEMMA ContentLength ==
  ASSUME NEW b \in Nat
  PROVE  Content(b) \in Words /\ Len(Content(b)) = Width(b)
<1>1. Width(b) \in Nat
  BY WidthType
<1>2. Content(b) = [k \in 1..Width(b) |-> 1000 + b]
  BY DEF Content, Width
<1> QED BY <1>1, <1>2 DEF Words

LEMMA WordType == ASSUME NEW e \in Words, NEW at PROVE read_word(e, at) \in Nat
BY DEF Words, read_word

LEMMA WordRead ==
  ASSUME NEW e \in Words, NEW at \in Nat
  PROVE  read_word(e, at) = IF 1 <= at /\ at <= Len(e) THEN e[at] ELSE 0
BY DEF Words, read_word

(***************************************************************************)
(* Walking a stream: a function that at each place ends there or goes on   *)
(* at a later one.                                                         *)
(***************************************************************************)
LEMMA SetInduction ==
  ASSUME NEW A \in SUBSET Nat, 0 \in A, \A n \in A : n + 1 \in A
  PROVE  A = Nat
<1> DEFINE T == Nat \ A
<1>1. SUFFICES ASSUME T # {} PROVE FALSE
  OBVIOUS
<1>2. IsWellFoundedOn(OpToRel(<, Nat), Nat)
  BY NatLessThanWellFounded
<1>3. PICK x \in T : \A y \in T : ~(<<y, x>> \in OpToRel(<, Nat))
  BY <1>1, <1>2, WFMin
<1>4. \A y \in T : ~(y < x)
  BY <1>3 DEF OpToRel
<1>5. x # 0 /\ x - 1 \in Nat /\ x - 1 < x
  OBVIOUS
<1>6. x - 1 \in A
  BY <1>4, <1>5
<1>7. (x - 1) + 1 \in A
  BY <1>6
<1> QED BY <1>5, <1>7

(* What w is at a place, given whether the walk ends, with what, and how it goes on. *)
WalksAt(w, a, ends, last, next, more) ==
  w[a] = IF ends[a] THEN last[a] ELSE more[a][w[next[a]]]

LEMMA Walked ==
  ASSUME NEW V, NEW L \in Nat, NEW ends \in [1..L -> BOOLEAN], NEW last \in [1..L -> V],
         NEW next \in [1..L -> Nat], NEW more \in [1..L -> [V -> V]],
         \A a \in 1..L : ~ends[a] => a < next[a] /\ next[a] <= L
  PROVE  \E w \in [1..L -> V] : \A a \in 1..L : WalksAt(w, a, ends, last, next, more)
<1> DEFINE Good(w, m) == \A a \in 1..L : a + m > L => WalksAt(w, a, ends, last, next, more)
           B == {m \in Nat : \E w \in [1..L -> V] : Good(w, m)}
<1>1. 0 \in B
  <2> DEFINE w == [a \in 1..L |-> last[a]]
  <2>1. w \in [1..L -> V]
    OBVIOUS
  <2>2. Good(w, 0)
    OBVIOUS
  <2> HIDE DEF w, Good
  <2> QED BY <2>1, <2>2
<1>2. ASSUME NEW m \in Nat, m \in B PROVE m + 1 \in B
  <2>1. PICK w \in [1..L -> V] : Good(w, m)
    <3> HIDE DEF Good
    <3> QED BY <1>2
  <2> DEFINE x == L - m
             v == IF ends[x] THEN last[x] ELSE more[x][w[next[x]]]
             u == [a \in 1..L |-> IF a = x THEN v ELSE w[a]]
  <2>2. x \in 1..L => v \in V
    OBVIOUS
  <2>3. u \in [1..L -> V]
    <3> HIDE DEF v
    <3> QED BY <2>2
  <2>4. ASSUME NEW a \in 1..L, a + (m + 1) > L PROVE WalksAt(u, a, ends, last, next, more)
    <3>1. ~ends[a] => u[next[a]] = w[next[a]]
      <4>1. ~ends[a] => next[a] \in 1..L /\ next[a] # x
        BY <2>4
      <4> HIDE DEF v, x
      <4> QED BY <4>1
    <3>2. CASE a = x
      <4>1. u[a] = v
        <5> HIDE DEF v
        <5> QED BY <3>2
      <4> HIDE DEF u
      <4> QED BY <3>1, <3>2, <4>1 DEF WalksAt
    <3>3. CASE a # x
      <4>1. u[a] = w[a] /\ a + m > L
        BY <2>4, <3>3
      <4> HIDE DEF u
      <4> QED BY <2>1, <3>1, <4>1 DEF WalksAt
    <3> QED BY <3>2, <3>3
  <2>5. Good(u, m + 1)
    <3> HIDE DEF u
    <3> QED BY <2>4
  <2> HIDE DEF u, Good
  <2> QED BY <2>3, <2>5
<1>3. L \in B
  <2> HIDE DEF B
  <2>1. B \in SUBSET Nat
    BY DEF B
  <2> QED BY <1>1, <1>2, <2>1, SetInduction
<1>4. PICK w \in [1..L -> V] : Good(w, L)
  <2> HIDE DEF Good
  <2> QED BY <1>3
<1>5. \A a \in 1..L : a + L > L
  OBVIOUS
<1> QED BY <1>4, <1>5

LEMMA Standing ==
  ASSUME NEW e \in Words, NEW rs \in Seq(Records), NEW starts, Parsed(e, starts, rs)
  PROVE  /\ Len(rs) \in Nat
         /\ \A k \in 0..Len(rs) : starts[k] \in Nat
         /\ (read_word(e, 1) = 0) = (Len(rs) = 0)
         /\ \A k \in 1..Len(rs) :
              /\ starts[k - 1] \in 1..Len(e) /\ starts[k] <= Len(e) + 1
              /\ following(e, starts[k - 1]) = starts[k]
              /\ (read_word(e, starts[k]) = 0) = (k = Len(rs))
<1>1. Len(rs) \in Nat /\ Len(e) \in Nat /\ \A k \in 0..Len(rs) : starts[k] \in Nat
  <2>1. Len(rs) \in Nat /\ Len(e) \in Nat
    BY LenProperties DEF Words
  <2>2. starts \in [0..Len(rs) -> Nat]
    BY DEF Parsed
  <2> QED BY <2>1, <2>2
<1>2. ASSUME NEW k \in 1..Len(rs)
      PROVE  /\ starts[k - 1] \in Nat /\ starts[k] \in Nat /\ 1 <= starts[k - 1]
             /\ starts[k - 1] < starts[k] /\ starts[k] <= Len(e) + 1
             /\ e[starts[k - 1]] = starts[k] - starts[k - 1]
  <2>1. k - 1 \in 0..Len(rs) /\ k \in 0..Len(rs) /\ 0 \in 0..Len(rs) /\ Len(rs) \in 0..Len(rs)
        /\ 0 <= k - 1 /\ k <= Len(rs)
    BY <1>1
  <2>2. starts[0] <= starts[k - 1] /\ starts[k] <= starts[Len(rs)]
    BY <2>1 DEF Parsed
  <2> QED BY <1>1, <2>1, <2>2 DEF Parsed, Lies
<1>3. ASSUME NEW k \in 1..Len(rs)
      PROVE  /\ starts[k - 1] \in 1..Len(e)
             /\ read_word(e, starts[k - 1]) = starts[k] - starts[k - 1]
             /\ following(e, starts[k - 1]) = starts[k]
  <2>1. starts[k - 1] \in 1..Len(e)
    BY <1>1, <1>2
  <2>2. read_word(e, starts[k - 1]) = e[starts[k - 1]]
    BY <1>2, <2>1, WordRead
  <2> QED BY <1>2, <2>1, <2>2 DEF following
<1>4. starts[0] = 1 /\ starts[Len(rs)] = Len(e) + 1
  BY DEF Parsed
<1>5. (read_word(e, 1) = 0) = (Len(rs) = 0)
  <2>1. CASE Len(rs) = 0
    <3>1. read_word(e, 1) = 0
      BY <1>1, <1>4, <2>1, WordRead
    <3> QED BY <2>1, <3>1
  <2>2. CASE Len(rs) # 0
    <3>1. 1 \in 1..Len(rs)
      BY <1>1, <2>2
    <3>2. read_word(e, 1) # 0
      BY <1>2, <1>3, <1>4, <3>1
    <3> QED BY <2>2, <3>2
  <2> QED BY <2>1, <2>2
<1>6. ASSUME NEW k \in 1..Len(rs) PROVE (read_word(e, starts[k]) = 0) = (k = Len(rs))
  <2>1. CASE k = Len(rs)
    <3>1. read_word(e, starts[k]) = 0
      BY <1>1, <1>4, <2>1, WordRead
    <3> QED BY <2>1, <3>1
  <2>2. CASE k # Len(rs)
    <3>1. k + 1 \in 1..Len(rs) /\ (k + 1) - 1 = k
      BY <1>1, <2>2
    <3>2. read_word(e, starts[k]) = starts[k + 1] - starts[k] /\ starts[k] < starts[k + 1]
          /\ starts[k] \in Nat /\ starts[k + 1] \in Nat
      BY <1>2, <1>3, <3>1
    <3>3. read_word(e, starts[k]) # 0
      BY <3>2
    <3> QED BY <2>2, <3>3
  <2> QED BY <2>1, <2>2
<1> QED BY <1>1, <1>2, <1>3, <1>5, <1>6

(* A walk ends where no record follows, and goes on at one that lies later. *)
LEMMA WalkGoesOn ==
  ASSUME NEW e \in Words, NEW at \in 1..Len(e), read_word(e, following(e, at)) # 0
  PROVE  at < following(e, at) /\ following(e, at) <= Len(e) /\ following(e, at) \in Nat
<1>1. Len(e) \in Nat /\ at \in Nat /\ read_word(e, at) \in Nat
  BY WordType DEF Words
<1>2. following(e, at) = at + read_word(e, at)
  BY DEF following
<1>3. following(e, at) \in Nat
  BY <1>1, <1>2
<1>4. following(e, at) <= Len(e)
  BY <1>3, WordRead
<1>5. read_word(e, at) # 0
  BY <1>1, <1>2
<1> QED BY <1>1, <1>2, <1>3, <1>4, <1>5

LEMMA LastFound ==
  ASSUME NEW e \in Words, NEW rs \in Seq(Records), NEW starts, Parsed(e, starts, rs)
  PROVE  last_event(e) = IF Len(rs) = 0 THEN None ELSE starts[Len(rs) - 1]
<1> DEFINE L == Len(e)
           Step(w, a) == IF read_word(e, following(e, a)) = 0 THEN a ELSE w[following(e, a)]
           walk == CHOOSE w : w = [a \in 1..L |-> Step(w, a)]
           n == Len(rs)
<1>1. last_event(e) = IF read_word(e, 1) = 0 THEN None ELSE walk[1]
  BY DEF last_event
<1>2. walk = [a \in 1..L |-> Step(walk, a)]
  <2> DEFINE ends == [a \in 1..L |-> read_word(e, following(e, a)) = 0]
             last == [a \in 1..L |-> a]
             next == [a \in 1..L |-> following(e, a)]
             more == [a \in 1..L |-> [x \in Nat |-> x]]
  <2>1. L \in Nat /\ ends \in [1..L -> BOOLEAN] /\ last \in [1..L -> Nat]
        /\ more \in [1..L -> [Nat -> Nat]]
    BY DEF Words
  <2>2. next \in [1..L -> Nat]
    <3>1. ASSUME NEW a \in 1..L PROVE following(e, a) \in Nat
      BY WordType DEF following
    <3> QED BY <3>1
  <2>3. \A a \in 1..L : ~ends[a] => a < next[a] /\ next[a] <= L
    BY WalkGoesOn
  <2>4. PICK w \in [1..L -> Nat] : \A a \in 1..L : WalksAt(w, a, ends, last, next, more)
    <3> HIDE DEF L, ends, last, next, more
    <3> QED BY <2>1, <2>2, <2>3, Walked
  <2>5. ASSUME NEW a \in 1..L PROVE w[a] = Step(w, a)
    <3>1. WalksAt(w, a, ends, last, next, more)
      <4> HIDE DEF ends, last, next, more
      <4> QED BY <2>4
    <3>2. ~ends[a] => w[next[a]] \in Nat
      <4>1. ~ends[a] => next[a] \in 1..L
        BY <2>2, <2>3
      <4> QED BY <4>1
    <3> QED BY <3>1, <3>2 DEF WalksAt
  <2>6. w = [a \in 1..L |-> Step(w, a)]
    <3> HIDE DEF Step
    <3> QED BY <2>5
  <2> HIDE DEF Step
  <2> QED BY <2>6
<1> HIDE DEF walk
<1>3. n \in Nat /\ starts[0] = 1
  BY Standing DEF Parsed
<1>4. ASSUME NEW k \in 1..n
      PROVE  walk[starts[k - 1]] = IF k = n THEN starts[k - 1] ELSE walk[starts[k]]
  <2>1. starts[k - 1] \in 1..L /\ following(e, starts[k - 1]) = starts[k]
        /\ (read_word(e, starts[k]) = 0) = (k = n)
    BY Standing
  <2> HIDE DEF L, n
  <2>2. walk[starts[k - 1]] = Step(walk, starts[k - 1])
    <3> HIDE DEF Step
    <3> QED BY <1>2, <2>1
  <2> QED BY <2>1, <2>2
<1> DEFINE B == {k \in Nat : k < n => walk[1] = walk[starts[k]]}
<1>5. 0 \in B
  BY <1>3
<1>6. ASSUME NEW k \in Nat, k \in B PROVE k + 1 \in B
  <2>1. CASE k + 1 < n
    <3>1. k + 1 \in 1..n /\ (k + 1) - 1 = k /\ k + 1 # n /\ k < n
      BY <1>3, <2>1
    <3>2. walk[starts[k]] = walk[starts[k + 1]]
      <4> HIDE DEF n
      <4> QED BY <1>4, <3>1
    <3> QED BY <1>6, <3>1, <3>2
  <2>2. CASE ~(k + 1 < n)
    BY <2>2
  <2> QED BY <2>1, <2>2
<1>7. \A k \in Nat : k < n => walk[1] = walk[starts[k]]
  <2> HIDE DEF B
  <2>1. B \in SUBSET Nat
    BY DEF B
  <2>2. B = Nat
    BY <1>5, <1>6, <2>1, SetInduction
  <2> QED BY <2>2 DEF B
<1>8. CASE n = 0
  BY <1>1, <1>8, Standing
<1>9. CASE n # 0
  <2>1. n \in 1..n /\ n - 1 \in Nat /\ n - 1 < n
    BY <1>3, <1>9
  <2>2. walk[starts[n - 1]] = starts[n - 1]
    BY <1>4, <2>1
  <2>3. walk[1] = walk[starts[n - 1]]
    BY <1>7, <2>1
  <2> QED BY <1>1, <1>9, <2>2, <2>3, Standing
<1> QED BY <1>8, <1>9

(***************************************************************************)
(* Reading records                                                         *)
(***************************************************************************)
LEMMA RecordType ==
  ASSUME NEW r \in Records, NEW start \in Nat
  PROVE  /\ r.id \in Nat /\ r.subjects \in Seq(Nat) /\ r.values \in Seq(Nat \X Nat)
         /\ Width(r.id) \in Nat /\ Len(r.subjects) \in Nat /\ Len(r.values) \in Nat
         /\ CountAt(start, r) \in Nat /\ ValuedAt(start, r) \in Nat
         /\ start + 2 <= CountAt(start, r)
         /\ CountAt(start, r) + Len(r.subjects) < ValuedAt(start, r)
         /\ CountAt(start, r) < ValuedAt(start, r)
<1>1. r.id \in Nat /\ r.subjects \in Seq(Nat) /\ r.values \in Seq(Nat \X Nat)
  BY DEF Records
<1>2. Width(r.id) \in Nat
  BY <1>1, WidthType
<1>3. Len(r.subjects) \in Nat /\ Len(r.values) \in Nat
  BY <1>1, LenProperties
<1> QED BY <1>1, <1>2, <1>3 DEF CountAt, ValuedAt

(* A list of values of words. *)
LEMMA ValueType ==
  ASSUME NEW vs \in Seq(Nat \X Nat), NEW k \in 1..Len(vs)
  PROVE  vs[k][1] \in Nat /\ vs[k][2] \in Nat /\ vs[k] = <<vs[k][1], vs[k][2]>>
<1>1. vs[k] \in Nat \X Nat
  BY ElementOfSeq
<1> QED BY <1>1

LEMMA ListIsItsEntries ==
  ASSUME NEW S, NEW s \in Seq(S)
  PROVE  s = [k \in 1..Len(s) |-> s[k]]
OBVIOUS

LEMMA ReadsValues ==
  ASSUME NEW e \in Words, NEW from \in Nat, NEW upto \in Nat, 1 <= from, upto <= Len(e) + 1,
         NEW vs \in Seq(Nat \X Nat), NEW place \in [0..Len(vs) -> Nat],
         ValuesLie(e, from, upto, vs, place)
  PROVE  ReadValues(e, from, Len(vs)) = vs
<1> DEFINE n == Len(vs)
           Step(p, k) == IF k = 0 THEN from ELSE after_value(e, p[k - 1])
           f == CHOOSE p : p = [k \in 0..n |-> Step(p, k)]
<1>1. n \in Nat /\ Len(e) \in Nat
  BY LenProperties DEF Words
<1>2. ASSUME NEW k \in 1..n
      PROVE  /\ place[k - 1] \in 1..Len(e) /\ place[k - 1] + 1 \in 1..Len(e)
             /\ read_word(e, place[k - 1]) = vs[k][1]
             /\ read_word(e, place[k - 1] + 1) = vs[k][2]
             /\ after_value(e, place[k - 1]) = place[k]
  <2>1. place[k - 1] \in Nat /\ place[k] \in Nat
    <3>1. k - 1 \in 0..n /\ k \in 0..n
      BY <1>1
    <3> QED BY <3>1
  <2>2. vs[k][1] \in Nat /\ vs[k][2] \in Nat
    BY ValueType
  <2>3. Width(vs[k][2]) \in Nat
    BY <2>2, WidthType
  <2>4. /\ place[k] = place[k - 1] + 2 + Width(vs[k][2])
        /\ from <= place[k - 1] /\ place[k] <= upto
        /\ e[place[k - 1]] = vs[k][1] /\ e[place[k - 1] + 1] = vs[k][2]
    BY DEF ValuesLie
  <2>5. place[k - 1] \in 1..Len(e) /\ place[k - 1] + 1 \in 1..Len(e)
    <3> DEFINE p == place[k - 1]
               q == place[k]
               wide == Width(vs[k][2])
    <3>1. p \in Nat /\ q \in Nat /\ wide \in Nat /\ q = p + 2 + wide /\ from <= p /\ q <= upto
      BY <2>1, <2>3, <2>4
    <3> HIDE DEF p, q, wide
    <3>2. p \in 1..Len(e) /\ p + 1 \in 1..Len(e)
      BY <1>1, <3>1
    <3> QED BY <3>2 DEF p
  <2>6. read_word(e, place[k - 1]) = vs[k][1] /\ read_word(e, place[k - 1] + 1) = vs[k][2]
    <3> DEFINE p == place[k - 1]
    <3>1. p \in 1..Len(e) /\ p + 1 \in 1..Len(e) /\ e[p] = vs[k][1] /\ e[p + 1] = vs[k][2]
      BY <2>4, <2>5
    <3> HIDE DEF p
    <3>2. p \in Nat /\ 1 <= p /\ p <= Len(e) /\ p + 1 \in Nat /\ 1 <= p + 1 /\ p + 1 <= Len(e)
      BY <1>1, <3>1
    <3>3. read_word(e, p) = vs[k][1] /\ read_word(e, p + 1) = vs[k][2]
      BY <3>1, <3>2, WordRead
    <3> QED BY <3>3 DEF p
  <2>7. Len(Content(vs[k][2])) = Width(vs[k][2])
    BY <2>2, ContentLength
  <2> QED BY <2>4, <2>5, <2>6, <2>7 DEF after_value
<1>3. ASSUME NEW k \in 0..n PROVE place[k] = Step(place, k)
  <2>1. CASE k = 0
    BY <2>1 DEF ValuesLie
  <2>2. CASE k # 0
    <3>1. k \in 1..n
      BY <1>1, <2>2
    <3> QED BY <1>2, <2>2, <3>1
  <2> QED BY <2>1, <2>2
<1>4. place = [k \in 0..n |-> Step(place, k)]
  <2> HIDE DEF Step
  <2> QED BY <1>3
<1>5. f = [k \in 0..n |-> Step(f, k)]
  <2> HIDE DEF Step
  <2> QED BY <1>4
<1>6. ReadValues(e, from, n) =
        [k \in 1..n |-> <<read_word(e, f[k - 1]), read_word(e, f[k - 1] + 1)>>]
  BY DEF ReadValues
<1> HIDE DEF f
<1> DEFINE B == {k \in Nat : k <= n => f[k] = place[k]}
<1>7. 0 \in B
  <2>1. 0 \in 0..n
    BY <1>1
  <2>2. f[0] = Step(f, 0)
    <3> HIDE DEF Step, n
    <3> QED BY <1>5, <2>1
  <2> QED BY <2>2 DEF ValuesLie
<1>8. ASSUME NEW k \in Nat, k \in B PROVE k + 1 \in B
  <2>1. CASE k + 1 <= n
    <3>1. k + 1 \in 0..n /\ k + 1 \in 1..n /\ (k + 1) - 1 = k /\ k <= n /\ k + 1 # 0
      BY <1>1, <2>1
    <3>2. f[k + 1] = Step(f, k + 1)
      <4> HIDE DEF Step, n
      <4> QED BY <1>5, <3>1
    <3>3. f[k + 1] = after_value(e, f[k])
      BY <3>1, <3>2
    <3>4. after_value(e, place[k]) = place[k + 1]
      <4> HIDE DEF n
      <4> QED BY <1>2, <3>1
    <3> QED BY <1>8, <3>1, <3>3, <3>4
  <2>2. CASE ~(k + 1 <= n)
    BY <2>2
  <2> QED BY <2>1, <2>2
<1>9. \A k \in Nat : k <= n => f[k] = place[k]
  <2> HIDE DEF B
  <2>1. B \in SUBSET Nat
    BY DEF B
  <2>2. B = Nat
    BY <1>7, <1>8, <2>1, SetInduction
  <2> QED BY <2>2 DEF B
<1>10. ASSUME NEW k \in 1..n
       PROVE  <<read_word(e, f[k - 1]), read_word(e, f[k - 1] + 1)>> = vs[k]
  <2>1. k - 1 \in Nat /\ k - 1 <= n
    BY <1>1
  <2>2. f[k - 1] = place[k - 1]
    BY <1>9, <2>1
  <2>3. read_word(e, place[k - 1]) = vs[k][1] /\ read_word(e, place[k - 1] + 1) = vs[k][2]
    BY <1>2
  <2>4. vs[k] = <<vs[k][1], vs[k][2]>>
    BY ValueType
  <2> HIDE DEF n
  <2> QED BY <2>2, <2>3, <2>4
<1>11. vs = [k \in 1..n |-> vs[k]]
  OBVIOUS
<1> HIDE DEF n
<1>12. [k \in 1..n |-> <<read_word(e, f[k - 1]), read_word(e, f[k - 1] + 1)>>] = [k \in 1..n |-> vs[k]]
  BY <1>10
<1> QED BY <1>6, <1>11, <1>12 DEF n

LEMMA ReadsRecord ==
  ASSUME NEW e \in Words, NEW start \in Nat, NEW upto \in Nat, 1 <= start, upto <= Len(e) + 1,
         NEW r \in Records, Lies(e, start, upto, r)
  PROVE  ReadRecord(e, start) = r
<1> DEFINE c == CountAt(start, r)
           v == ValuedAt(start, r)
           m == Len(r.subjects)
           L == Len(e)
<1>1. /\ r.id \in Nat /\ r.subjects \in Seq(Nat) /\ r.values \in Seq(Nat \X Nat)
      /\ Width(r.id) \in Nat /\ m \in Nat /\ Len(r.values) \in Nat
      /\ c \in Nat /\ v \in Nat /\ start + 2 <= c /\ v = c + m + 1 /\ c = start + 2 + Width(r.id)
  BY RecordType DEF CountAt, ValuedAt
<1>2. L \in Nat /\ v <= upto
  BY DEF Words, Lies
(* Every word of the record is a word of the stream. *)
<1>3. /\ 1 <= start /\ start <= L /\ start + 1 \in Nat /\ 1 <= start + 1 /\ start + 1 <= L
      /\ 1 <= c /\ c <= L /\ 1 <= v /\ v + 1 \in Nat /\ 1 <= v + 1
      /\ (v < upto => v <= L /\ ~(v >= upto)) /\ (v = upto => v >= upto)
      /\ \A k \in 1..m : c + k \in Nat /\ 1 <= c + k /\ c + k <= L
  <2>1. /\ c \in Nat /\ v \in Nat /\ m \in Nat /\ L \in Nat /\ start + 2 <= c /\ v = c + m + 1
        /\ v <= upto /\ upto <= L + 1 /\ 1 <= start
    BY <1>1, <1>2
  <2> HIDE DEF c, v, m, L
  <2> QED BY <2>1
<1>4. following(e, start) = upto
  <2>1. e[start] = upto - start
    BY DEF Lies
  <2>2. read_word(e, start) = upto - start
    BY <1>3, <2>1, WordRead
  <2> QED BY <2>2 DEF following
<1>5. read_word(e, start + 1) = r.id
  <2>1. e[start + 1] = r.id
    BY DEF Lies, SubjectsLie
  <2> QED BY <1>3, <2>1, WordRead
<1>6. start + 2 + id_words(e, start) = c
  <2>1. id_words(e, start) = Width(r.id)
    BY <1>5 DEF id_words, Width
  <2> QED BY <1>1, <2>1
<1>7. read_word(e, c) = m
  <2>1. e[c] = m
    BY DEF Lies, SubjectsLie
  <2> HIDE DEF c
  <2> QED BY <1>1, <1>3, <2>1, WordRead
<1>8. [k \in 1..m |-> read_word(e, c + k)] = r.subjects
  <2>1. ASSUME NEW k \in 1..m PROVE read_word(e, c + k) = r.subjects[k]
    <3>1. c + k \in Nat /\ 1 <= c + k /\ c + k <= L
      BY <1>3
    <3>2. e[c + k] = r.subjects[k]
      BY DEF Lies, SubjectsLie
    <3> HIDE DEF c
    <3> QED BY <3>1, <3>2, WordRead
  <2>2. r.subjects = [k \in 1..m |-> r.subjects[k]]
    BY <1>1, ListIsItsEntries
  <2> HIDE DEF c, m
  <2> QED BY <2>1, <2>2
<1>9. (IF v >= upto THEN <<>> ELSE ReadValues(e, v + 1, read_word(e, v))) = r.values
  <2>1. CASE r.values = <<>>
    <3>1. v = upto
      BY <2>1 DEF Lies
    <3> QED BY <1>3, <2>1, <3>1
  <2>2. CASE r.values # <<>>
    <3>1. /\ v < upto /\ e[v] = Len(r.values)
          /\ \E place \in [0..Len(r.values) -> Nat] :
               ValuesLie(e, v + 1, upto, r.values, place)
      BY <2>2 DEF Lies
    <3> HIDE DEF v
    <3>2. read_word(e, v) = Len(r.values)
      BY <1>1, <1>3, <3>1, WordRead
    <3>3. ReadValues(e, v + 1, Len(r.values)) = r.values
      BY <1>1, <1>3, <3>1, ReadsValues
    <3> QED BY <1>3, <3>1, <3>2, <3>3
  <2> QED BY <2>1, <2>2
<1>10. ReadRecord(e, start) =
         [id |-> r.id, subjects |-> r.subjects, values |-> r.values]
  <2>1. v = c + m + 1
    BY <1>1
  <2> HIDE DEF c, v, m
  <2> QED BY <1>4, <1>5, <1>6, <1>7, <1>8, <1>9, <2>1 DEF ReadRecord
<1>11. r = [id |-> r.id, subjects |-> r.subjects, values |-> r.values]
  BY DEF Records
<1> QED BY <1>10, <1>11

(* What a host reads of a stream of whole records is those records. *)
LEMMA ReadsEvents ==
  ASSUME NEW e \in Words, NEW rs \in Seq(Records), NEW starts, Parsed(e, starts, rs)
  PROVE  ReadEvents(e) = rs
<1> DEFINE L == Len(e)
           n == Len(rs)
           Step(w, a) == <<ReadRecord(e, a)>>
                           \o (IF read_word(e, following(e, a)) = 0 THEN <<>> ELSE w[following(e, a)])
           read == CHOOSE w : w = [a \in 1..L |-> Step(w, a)]
<1>1. ReadEvents(e) = IF read_word(e, 1) = 0 THEN <<>> ELSE read[1]
  BY DEF ReadEvents
<1>2. read = [a \in 1..L |-> Step(read, a)]
  <2> DEFINE R == {ReadRecord(e, a) : a \in 1..L}
             V == Seq(R)
             ends == [a \in 1..L |-> read_word(e, following(e, a)) = 0]
             last == [a \in 1..L |-> <<ReadRecord(e, a)>>]
             next == [a \in 1..L |-> following(e, a)]
             more == [a \in 1..L |-> [x \in V |-> <<ReadRecord(e, a)>> \o x]]
  <2>1. L \in Nat /\ ends \in [1..L -> BOOLEAN]
    BY DEF Words
  <2>2. ASSUME NEW a \in 1..L
        PROVE  <<ReadRecord(e, a)>> \in V /\ \A x \in V : <<ReadRecord(e, a)>> \o x \in V
    <3>1. ReadRecord(e, a) \in R
      OBVIOUS
    <3> HIDE DEF R
    <3>2. <<ReadRecord(e, a)>> \in Seq(R)
      BY <3>1
    <3>3. \A x \in Seq(R) : <<ReadRecord(e, a)>> \o x \in Seq(R)
      BY <3>2, ConcatProperties
    <3> QED BY <3>2, <3>3
  <2>3. last \in [1..L -> V] /\ more \in [1..L -> [V -> V]]
    <3> HIDE DEF V, L
    <3> QED BY <2>2
  <2>4. next \in [1..L -> Nat]
    <3>1. ASSUME NEW a \in 1..L PROVE following(e, a) \in Nat
      BY WordType DEF following
    <3> QED BY <3>1
  <2>5. \A a \in 1..L : ~ends[a] => a < next[a] /\ next[a] <= L
    BY WalkGoesOn
  <2>6. PICK w \in [1..L -> V] : \A a \in 1..L : WalksAt(w, a, ends, last, next, more)
    <3> HIDE DEF L, V, ends, last, next, more
    <3> QED BY <2>1, <2>3, <2>4, <2>5, Walked
  <2>7. ASSUME NEW a \in 1..L PROVE w[a] = Step(w, a)
    <3>1. WalksAt(w, a, ends, last, next, more)
      <4> HIDE DEF L, V, ends, last, next, more
      <4> QED BY <2>6
    <3>2. /\ ends[a] = (read_word(e, following(e, a)) = 0)
          /\ last[a] = <<ReadRecord(e, a)>> /\ next[a] = following(e, a)
          /\ more[a] = [x \in V |-> <<ReadRecord(e, a)>> \o x]
      <4> HIDE DEF V, L
      <4> QED OBVIOUS
    <3>3. <<ReadRecord(e, a)>> \o <<>> = <<ReadRecord(e, a)>>
      OBVIOUS
    <3> HIDE DEF ends, last, next, more, V, L
    <3>4. CASE ends[a]
      BY <3>1, <3>2, <3>3, <3>4 DEF WalksAt
    <3>5. CASE ~ends[a]
      <4>1. next[a] \in 1..L
        BY <2>1, <2>4, <2>5, <3>5
      <4>2. w[next[a]] \in V
        BY <4>1
      <4>3. more[a][w[next[a]]] = <<ReadRecord(e, a)>> \o w[next[a]]
        BY <3>2, <4>2
      <4>4. ends[a] = FALSE /\ read_word(e, following(e, a)) # 0
        BY <3>2, <3>5
      <4> QED BY <3>1, <3>2, <4>3, <4>4 DEF WalksAt
    <3> QED BY <3>4, <3>5
  <2>8. w = [a \in 1..L |-> Step(w, a)]
    <3> HIDE DEF Step, L, V
    <3> QED BY <2>6, <2>7
  <2> HIDE DEF Step
  <2> QED BY <2>8
<1> HIDE DEF read
<1>3. n \in Nat /\ starts[0] = 1 /\ rs \in Seq(Records)
  BY Standing DEF Parsed
<1>4. ASSUME NEW k \in 1..n
      PROVE  read[starts[k - 1]] = <<rs[k]>> \o (IF k = n THEN <<>> ELSE read[starts[k]])
  <2>1. /\ starts[k - 1] \in 1..L /\ following(e, starts[k - 1]) = starts[k]
        /\ starts[k] <= L + 1 /\ (read_word(e, starts[k]) = 0) = (k = n)
    BY Standing
  <2>2. ReadRecord(e, starts[k - 1]) = rs[k]
    <3>1. starts[k - 1] \in Nat /\ starts[k] \in Nat
      <4>1. k - 1 \in 0..Len(rs) /\ k \in 0..Len(rs)
        BY <1>3
      <4> QED BY <4>1, Standing
    <3>2. 1 <= starts[k - 1] /\ starts[k] <= Len(e) + 1 /\ Lies(e, starts[k - 1], starts[k], rs[k])
      BY <2>1 DEF Parsed
    <3>3. rs[k] \in Records
      BY ElementOfSeq
    <3> QED BY <3>1, <3>2, <3>3, ReadsRecord
  <2> HIDE DEF L, n
  <2>3. read[starts[k - 1]] = Step(read, starts[k - 1])
    <3> HIDE DEF Step
    <3> QED BY <1>2, <2>1
  <2> QED BY <2>1, <2>2, <2>3
<1> DEFINE Rest(m) == SubSeq(rs, n - m, n)
           B == {m \in Nat : m < n => read[starts[n - (m + 1)]] = Rest(m)}
<1>5. 0 \in B
  <2>1. CASE n = 0
    BY <2>1
  <2>2. CASE n # 0
    <3>1. n \in 1..n
      BY <1>3, <2>2
    <3>2. read[starts[n - 1]] = <<rs[n]>> \o <<>>
      BY <1>4, <3>1
    <3>3. Rest(0) = <<rs[n]>>
      <4>1. SubSeq(rs, n, n) = <<rs[n]>>
        <5>1. n \in Nat /\ 1 <= n /\ n <= Len(rs) /\ Len(rs) \in Nat
          BY <1>3, <3>1
        <5>2. \A i \in n..n : rs[i] \in Records
          BY <1>3, <5>1, ElementOfSeq
        <5> HIDE DEF n
        <5> DEFINE one == SubSeq(rs, n, n)
        <5>3. one \in Seq(Records) /\ Len(one) = 1 /\ one[1] = rs[n]
          BY <5>1, <5>2, SubSeqProperties
        <5> HIDE DEF one
        <5>4. one = <<rs[n]>>
          BY <5>3
        <5> QED BY <5>4 DEF one
      <4>2. n - 0 = n
        BY <1>3
      <4> QED BY <4>1, <4>2
    <3>4. <<rs[n]>> \o <<>> = <<rs[n]>>
      OBVIOUS
    <3> QED BY <1>3, <3>2, <3>3, <3>4
  <2> QED BY <2>1, <2>2
<1>6. ASSUME NEW m \in Nat, m \in B PROVE m + 1 \in B
  <2>1. CASE m + 1 < n
    <3> DEFINE k == n - (m + 1)
    <3>1. k \in 1..n /\ k # n /\ k - 1 = n - ((m + 1) + 1) /\ m < n /\ n - m = k + 1 /\ n - (m + 1) = k
      BY <1>3, <2>1
    <3>2. read[starts[k - 1]] = <<rs[k]>> \o read[starts[k]]
      <4> HIDE DEF k, n
      <4> QED BY <1>4, <3>1
    <3>3. read[starts[k]] = SubSeq(rs, k + 1, n)
      BY <1>6, <3>1
    <3>4. <<rs[k]>> \o SubSeq(rs, k + 1, n) = SubSeq(rs, k, n)
      <4> HIDE DEF k
      <4>1. rs[k] \in Records /\ k \in Nat
        BY <3>1, ElementOfSeq
      <4>2. 1 <= k /\ k < n
        BY <1>3, <3>1
      <4> QED BY <1>3, <4>1, <4>2
    <3>5. SubSeq(rs, k, n) = Rest(m + 1)
      BY <3>1
    <3>6. read[starts[n - ((m + 1) + 1)]] = Rest(m + 1)
      <4> HIDE DEF k, Rest
      <4> QED BY <3>1, <3>2, <3>3, <3>4, <3>5
    <3> HIDE DEF k, Rest
    <3> QED BY <2>1, <3>6
  <2>2. CASE ~(m + 1 < n)
    BY <2>2
  <2> QED BY <2>1, <2>2
<1>7. \A m \in Nat : m < n => read[starts[n - (m + 1)]] = Rest(m)
  <2> HIDE DEF B
  <2>1. B \in SUBSET Nat
    BY DEF B
  <2>2. B = Nat
    BY <1>5, <1>6, <2>1, SetInduction
  <2> QED BY <2>2 DEF B
<1>8. CASE n = 0
  <2>1. rs = <<>>
    BY <1>8, EmptySeq
  <2> QED BY <1>1, <1>8, <2>1, Standing
<1>9. CASE n # 0
  <2>1. n - 1 \in Nat /\ n - 1 < n /\ n - ((n - 1) + 1) = 0 /\ n - (n - 1) = 1
    BY <1>3, <1>9
  <2>2. read[1] = SubSeq(rs, 1, n)
    BY <1>3, <1>7, <2>1
  <2>3. SubSeq(rs, 1, n) = rs
    BY <1>3
  <2> QED BY <1>1, <1>9, <2>2, <2>3, Standing
<1> QED BY <1>8, <1>9

(***************************************************************************)
(* Writing records                                                         *)
(***************************************************************************)
(* A record is read from its own words alone. *)
LEMMA LiesStill ==
  ASSUME NEW e \in Words, NEW d \in Words, NEW start \in Nat, NEW upto \in Nat,
         NEW r \in Records, Lies(e, start, upto, r),
         \A i \in Nat : start <= i /\ i < upto => d[i] = e[i]
  PROVE  Lies(d, start, upto, r)
<1> DEFINE c == CountAt(start, r)
           v == ValuedAt(start, r)
           m == Len(r.subjects)
<1>1. /\ c \in Nat /\ v \in Nat /\ m \in Nat /\ start + 2 <= c /\ c + m < v /\ c < v
      /\ r.values \in Seq(Nat \X Nat) /\ Len(r.values) \in Nat
  BY RecordType
<1>2. v <= upto
  BY DEF Lies
<1>3. SubjectsLie(d, start, r) /\ d[start] = upto - start
  <2>1. start <= start /\ start < upto /\ start + 1 \in Nat /\ start <= start + 1 /\ start + 1 < upto
        /\ start <= c /\ c < upto
    BY <1>1, <1>2
  <2>2. d[start] = e[start] /\ d[start + 1] = e[start + 1] /\ d[c] = e[c]
    BY <1>1, <2>1
  <2>3. ASSUME NEW k \in 1..m PROVE d[c + k] = e[c + k]
    <3>1. c + k \in Nat /\ start <= c + k /\ c + k < upto
      <4>1. k \in Nat /\ k <= m
        BY <1>1
      <4> HIDE DEF c, v, m
      <4> QED BY <1>1, <1>2, <4>1
    <3> QED BY <3>1
  <2> QED BY <2>2, <2>3 DEF Lies, SubjectsLie
<1>4. CASE r.values = <<>>
  BY <1>2, <1>3, <1>4 DEF Lies
<1>5. CASE r.values # <<>>
  <2>1. v < upto /\ e[v] = Len(r.values)
    BY <1>5 DEF Lies
  <2>2. PICK place \in [0..Len(r.values) -> Nat] : ValuesLie(e, v + 1, upto, r.values, place)
    BY <1>5 DEF Lies
  <2>3. d[v] = e[v]
    <3>1. start <= v
      BY <1>1
    <3> QED BY <1>1, <2>1, <3>1
  <2>4. ASSUME NEW k \in 1..Len(r.values)
        PROVE  d[place[k - 1]] = e[place[k - 1]] /\ d[place[k - 1] + 1] = e[place[k - 1] + 1]
    <3> DEFINE p == place[k - 1]
               q == place[k]
               wide == Width(r.values[k][2])
    <3>1. k - 1 \in 0..Len(r.values) /\ k \in 0..Len(r.values)
      BY <1>1
    <3>2. r.values[k][2] \in Nat
      BY <1>1, ValueType
    <3>3. p \in Nat /\ q \in Nat /\ wide \in Nat
      BY <3>1, <3>2, WidthType
    <3>4. q = p + 2 + wide /\ v + 1 <= p /\ q <= upto
      BY <2>2 DEF ValuesLie
    <3>5. p + 1 \in Nat /\ start <= p /\ p < upto /\ start <= p + 1 /\ p + 1 < upto
      <4> HIDE DEF p, q, wide, v, c, m
      <4> QED BY <1>1, <3>3, <3>4
    <3> HIDE DEF p
    <3>6. d[p] = e[p] /\ d[p + 1] = e[p + 1]
      BY <3>3, <3>5
    <3> QED BY <3>6 DEF p
  <2>5. ValuesLie(d, v + 1, upto, r.values, place)
    <3> HIDE DEF v
    <3> QED BY <2>2, <2>4 DEF ValuesLie
  <2> HIDE DEF c, v, m
  <2>6. \E p \in [0..Len(r.values) -> Nat] : ValuesLie(d, v + 1, upto, r.values, p)
    BY <2>5
  <2> QED BY <1>2, <1>3, <1>5, <2>1, <2>3, <2>6 DEF Lies, v
<1> QED BY <1>4, <1>5

(* A stream keeps its first m records and has one more behind them. *)
LEMMA ParsedOn ==
  ASSUME NEW e \in Words, NEW rs \in Seq(Records), NEW starts, Parsed(e, starts, rs),
         NEW d \in Words, NEW m \in 0..Len(rs), NEW r \in Records,
         \A i \in Nat : 1 <= i /\ i < starts[m] => d[i] = e[i],
         starts[m] <= Len(d), Lies(d, starts[m], Len(d) + 1, r)
  PROVE  Parsed(d, [k \in 0..m + 1 |-> IF k <= m THEN starts[k] ELSE Len(d) + 1],
                Append(SubSeq(rs, 1, m), r))
<1> DEFINE st == [k \in 0..m + 1 |-> IF k <= m THEN starts[k] ELSE Len(d) + 1]
           new == Append(SubSeq(rs, 1, m), r)
<1>1. /\ m \in Nat /\ m <= Len(rs) /\ Len(rs) \in Nat /\ Len(d) \in Nat
      /\ \A k \in 0..Len(rs) : starts[k] \in Nat
  BY Standing DEF Words
<1>2. /\ new \in Seq(Records) /\ Len(new) = m + 1 /\ new[m + 1] = r
      /\ \A k \in 1..m : new[k] = rs[k]
  <2> DEFINE s == SubSeq(rs, 1, m)
  <2>1. s \in Seq(Records) /\ Len(s) = m /\ \A k \in 1..m : s[k] = rs[k]
    <3>1. \A k \in 1..m : rs[k] \in Records
      BY <1>1, ElementOfSeq
    <3>2. s \in Seq(Records) /\ Len(s) = (IF 1 <= m THEN m - 1 + 1 ELSE 0)
          /\ \A k \in 1..(m - 1 + 1) : s[k] = rs[1 + k - 1]
      BY <1>1, <3>1, SubSeqProperties
    <3>3. \A k \in 1..m : k \in 1..(m - 1 + 1) /\ 1 + k - 1 = k
      BY <1>1
    <3> HIDE DEF s
    <3> QED BY <1>1, <3>2, <3>3
  <2> HIDE DEF s
  <2> QED BY <1>1, <2>1, AppendProperties
<1> HIDE DEF new
<1>3. st \in [0..m + 1 -> Nat] /\ st[0] = 1 /\ st[m + 1] = Len(d) + 1
      /\ \A k \in 0..m : st[k] = starts[k]
  <2>1. \A k \in 0..m : k \in 0..Len(rs)
    BY <1>1
  <2>2. 0 \in 0..m + 1 /\ m + 1 \in 0..m + 1 /\ 0 <= m /\ ~(m + 1 <= m)
    BY <1>1
  <2>3. starts[0] = 1
    BY DEF Parsed
  <2> QED BY <1>1, <2>1, <2>2, <2>3
<1> HIDE DEF st
<1>4. ASSUME NEW j \in 0..m PROVE starts[j] <= starts[m] /\ starts[j] \in Nat /\ starts[m] \in Nat
  BY <1>1 DEF Parsed
<1>5. ASSUME NEW j \in 0..m + 1, NEW k \in 0..m + 1, j <= k PROVE st[j] <= st[k]
  <2>1. CASE k <= m
    <3>1. j \in 0..m /\ k \in 0..m /\ j \in 0..Len(rs) /\ k \in 0..Len(rs)
      BY <1>1, <1>5, <2>1
    <3>2. starts[j] <= starts[k]
      BY <1>5, <3>1 DEF Parsed
    <3> QED BY <1>3, <3>1, <3>2
  <2>2. CASE j <= m /\ k = m + 1
    <3>1. j \in 0..m
      BY <1>1, <2>2
    <3>2. starts[j] <= Len(d) + 1
      BY <1>1, <1>4, <3>1
    <3> QED BY <1>3, <2>2, <3>1, <3>2
  <2>3. CASE j = m + 1 /\ k = m + 1
    BY <1>1, <1>3, <2>3
  <2> QED BY <1>1, <1>5, <2>1, <2>2, <2>3
<1>6. ASSUME NEW k \in 1..m + 1 PROVE st[k - 1] < st[k] /\ Lies(d, st[k - 1], st[k], new[k])
  <2>1. CASE k = m + 1
    <3>1. k - 1 = m /\ m \in 0..m
      BY <1>1, <2>1
    <3>2. st[k - 1] = starts[m] /\ st[k] = Len(d) + 1 /\ new[k] = r
      BY <1>2, <1>3, <2>1, <3>1
    <3>3. starts[m] < Len(d) + 1
      BY <1>1, <1>4, <3>1
    <3> QED BY <3>2, <3>3
  <2>2. CASE k # m + 1
    <3>1. k \in 1..m /\ k - 1 \in 0..m /\ k \in 0..m /\ k \in 1..Len(rs)
      BY <1>1, <2>2
    <3>2. st[k - 1] = starts[k - 1] /\ st[k] = starts[k] /\ new[k] = rs[k]
      BY <1>2, <1>3, <3>1
    <3>3. starts[k - 1] < starts[k] /\ Lies(e, starts[k - 1], starts[k], rs[k])
      BY <3>1 DEF Parsed
    <3>4. starts[k - 1] \in Nat /\ starts[k] \in Nat /\ starts[k] <= starts[m] /\ 1 <= starts[k - 1]
      BY <1>4, <3>1, Standing
    <3>5. \A i \in Nat : starts[k - 1] <= i /\ i < starts[k] => d[i] = e[i]
      BY <1>4, <3>1, <3>4
    <3>6. rs[k] \in Records
      BY <3>1, ElementOfSeq
    <3>7. Lies(d, starts[k - 1], starts[k], rs[k])
      BY <3>3, <3>4, <3>5, <3>6, LiesStill
    <3> QED BY <3>2, <3>3, <3>7
  <2> QED BY <2>1, <2>2
<1>7. Parsed(d, st, new)
  BY <1>2, <1>3, <1>5, <1>6 DEF Parsed
<1> QED BY <1>7 DEF st, new

(* A record without subjects and values. *)
Bare(id) == [id |-> id, subjects |-> <<>>, values |-> <<>>]

(* Records of which the last one is r, behind the first m of rs. *)
Then(rs, m, r) == Append(SubSeq(rs, 1, m), r)

LEMMA ThenIs ==
  ASSUME NEW rs \in Seq(Records), NEW m \in 0..Len(rs), NEW r \in Records
  PROVE  /\ Then(rs, m, r) \in Seq(Records) /\ Len(Then(rs, m, r)) = m + 1
         /\ Then(rs, m, r)[m + 1] = r /\ Then(rs, m, r) # <<>>
         /\ \A k \in 1..m : Then(rs, m, r)[k] = rs[k]
<1> DEFINE s == SubSeq(rs, 1, m)
<1>1. m \in Nat /\ m <= Len(rs) /\ Len(rs) \in Nat
  BY LenProperties
<1>2. s \in Seq(Records) /\ Len(s) = m /\ \A k \in 1..m : s[k] = rs[k]
  <2>1. \A k \in 1..m : rs[k] \in Records
    BY <1>1, ElementOfSeq
  <2>2. s \in Seq(Records) /\ Len(s) = (IF 1 <= m THEN m - 1 + 1 ELSE 0)
        /\ \A k \in 1..(m - 1 + 1) : s[k] = rs[1 + k - 1]
    BY <1>1, <2>1, SubSeqProperties
  <2>3. \A k \in 1..m : k \in 1..(m - 1 + 1) /\ 1 + k - 1 = k
    BY <1>1
  <2> HIDE DEF s
  <2> QED BY <1>1, <2>2, <2>3
<1> HIDE DEF s
<1>3. /\ Append(s, r) \in Seq(Records) /\ Len(Append(s, r)) = m + 1
      /\ Append(s, r)[m + 1] = r
      /\ \A k \in 1..m : Append(s, r)[k] = rs[k]
  BY <1>1, <1>2, AppendProperties
<1>4. Append(s, r) # <<>>
  BY <1>1, <1>3, EmptySeq
<1> QED BY <1>3, <1>4 DEF Then, s

(* What the session holds when it has written the record r behind the first m. *)
LEMMA WholeOn ==
  ASSUME NEW x \in Shareds, NEW rs \in Seq(Records), NEW starts, Whole(x, starts, rs),
         NEW y \in Shareds, NEW m \in 0..Len(rs), NEW r \in Records,
         \A i \in Nat : 1 <= i /\ i < starts[m] => y.events[i] = x.events[i],
         starts[m] <= Len(y.events), Lies(y.events, starts[m], Len(y.events) + 1, r),
         y.event_values = IF r.values = <<>> THEN None ELSE ValuedAt(starts[m], r)
  PROVE  \E st : Whole(y, st, Then(rs, m, r))
<1> DEFINE st == [k \in 0..m + 1 |-> IF k <= m THEN starts[k] ELSE Len(y.events) + 1]
<1>1. x.events \in Words /\ y.events \in Words /\ Parsed(x.events, starts, rs)
  BY DEF Shareds, Whole
<1>2. Parsed(y.events, st, Then(rs, m, r))
  BY <1>1, ParsedOn DEF Then
<1>3. /\ Len(Then(rs, m, r)) = m + 1 /\ Then(rs, m, r)[m + 1] = r /\ Then(rs, m, r) # <<>>
      /\ m \in Nat /\ m + 1 - 1 = m
  BY ThenIs
<1>4. st[m] = starts[m]
  BY <1>3
<1> HIDE DEF st
<1>5. Whole(y, st, Then(rs, m, r))
  BY <1>2, <1>3, <1>4 DEF Whole
<1> QED BY <1>5

(* What a call leaves of the record of a session: that record, or one more or longer. *)
LEMMA Opens ==
  ASSUME NEW x \in Shareds, NEW rs \in Seq(Records), NEW starts, Whole(x, starts, rs),
         NEW id \in Nat, event(x, id) # x
  PROVE  /\ event(x, id) \in Shareds /\ event(x, id).snapshot = x.snapshot
         /\ \E st : Whole(event(x, id), st, Then(rs, Len(rs), Bare(id)))
<1> DEFINE w == Width(id)
           rec == <<3 + Len(Content(id)), id>> \o Content(id) \o <<0>>
           e == x.events
           d == e \o rec
           y == [x EXCEPT !.events = d, !.event_values = None]
           n == Len(rs)
<1>1. e \in Words /\ Parsed(e, starts, rs) /\ x.snapshot \in Nat /\ x.event_values \in Nat
      /\ x = [events |-> e, event_values |-> x.event_values, snapshot |-> x.snapshot]
  BY DEF Shareds, Whole
<1>2. w \in Nat /\ Content(id) \in Words /\ Len(Content(id)) = w
  BY ContentLength, WidthType
<1>3. rec \in Words /\ Len(rec) = 3 + w /\ rec[1] = 3 + w /\ rec[2] = id /\ rec[3 + w] = 0
  <2> DEFINE body == Content(id)
             a == <<3 + Len(body), id>>
             b == a \o body
             z == <<0>>
  <2>1. a \in Seq(Nat) /\ Len(a) = 2 /\ a[1] = 3 + w /\ a[2] = id
    BY <1>2
  <2>2. z \in Seq(Nat) /\ Len(z) = 1 /\ z[1] = 0
    OBVIOUS
  <2>3. body \in Seq(Nat) /\ Len(body) = w
    BY <1>2 DEF Words
  <2> HIDE DEF a, z, body, w
  <2>4. b \in Seq(Nat) /\ Len(b) = 2 + w /\ b[1] = 3 + w /\ b[2] = id
    <3>1. /\ a \o body \in Seq(Nat) /\ Len(a \o body) = Len(a) + Len(body)
          /\ \A i \in 1..Len(a) + Len(body) :
               (a \o body)[i] = IF i <= Len(a) THEN a[i] ELSE body[i - Len(a)]
      BY <2>1, <2>3, ConcatProperties
    <3>2. 1 \in 1..Len(a) + Len(body) /\ 2 \in 1..Len(a) + Len(body)
      BY <1>2, <2>1, <2>3
    <3> QED BY <1>2, <2>1, <2>3, <3>1, <3>2
  <2> HIDE DEF b
  <2>5. b \o z \in Seq(Nat) /\ Len(b \o z) = 3 + w /\ (b \o z)[1] = 3 + w /\ (b \o z)[2] = id
        /\ (b \o z)[3 + w] = 0
    <3>1. /\ b \o z \in Seq(Nat) /\ Len(b \o z) = Len(b) + Len(z)
          /\ \A i \in 1..Len(b) + Len(z) : (b \o z)[i] = IF i <= Len(b) THEN b[i] ELSE z[i - Len(b)]
      BY <2>2, <2>4, ConcatProperties
    <3>2. 1 \in 1..Len(b) + Len(z) /\ 2 \in 1..Len(b) + Len(z) /\ 3 + w \in 1..Len(b) + Len(z)
          /\ 2 <= Len(b) /\ 1 <= Len(b) /\ ~(3 + w <= Len(b)) /\ (3 + w) - Len(b) = 1
      BY <1>2, <2>2, <2>4
    <3> QED BY <1>2, <2>2, <2>4, <3>1, <3>2
  <2> QED BY <2>5 DEF Words, a, b, z, body, w
<1>4. event(x, id) = y
  BY DEF event
<1> HIDE DEF rec
<1>5. /\ d \in Words /\ Len(d) = Len(e) + 3 + w /\ Len(e) \in Nat
      /\ \A i \in 1..Len(e) : d[i] = e[i]
      /\ \A i \in 1..3 + w : d[Len(e) + i] = rec[i]
  <2>1. e \in Seq(Nat) /\ rec \in Seq(Nat) /\ Len(e) \in Nat
    BY <1>1, <1>3, LenProperties DEF Words
  <2>2. /\ e \o rec \in Seq(Nat) /\ Len(e \o rec) = Len(e) + Len(rec)
        /\ \A i \in 1..Len(e) + Len(rec) : (e \o rec)[i] = IF i <= Len(e) THEN e[i] ELSE rec[i - Len(e)]
    BY <2>1, ConcatProperties
  <2> HIDE DEF e, d, w
  <2>3. \A i \in 1..3 + w : Len(e) + i \in 1..Len(e) + Len(rec) /\ ~(Len(e) + i <= Len(e))
                            /\ (Len(e) + i) - Len(e) = i
    BY <1>2, <1>3, <2>1
  <2>4. \A i \in 1..Len(e) : i \in 1..Len(e) + Len(rec) /\ i <= Len(e)
    BY <1>2, <1>3, <2>1
  <2> QED BY <1>2, <1>3, <2>1, <2>2, <2>3, <2>4 DEF d, Words
<1>6. y \in Shareds /\ y.snapshot = x.snapshot /\ y.events = d /\ y.event_values = None
  <2>1. d \in Words /\ None \in Nat
    BY <1>5 DEF None
  <2> HIDE DEF d
  <2>2. y.events = d /\ y.event_values = None /\ y.snapshot = x.snapshot
    BY DEF Shareds
  <2>3. y \in Shareds
    BY <2>1 DEF Shareds
  <2> QED BY <2>2, <2>3
<1> HIDE DEF d, y
<1>7. n \in 0..Len(rs) /\ starts[n] = Len(e) + 1 /\ starts[n] \in Nat
  BY <1>1, <1>5, Standing DEF Parsed
<1>8. Bare(id) \in Records /\ Bare(id).id = id /\ Bare(id).subjects = <<>> /\ Bare(id).values = <<>>
      /\ Len(Bare(id).subjects) = 0
  BY DEF Bare, Records
<1>9. Lies(d, starts[n], Len(d) + 1, Bare(id))
  <2> DEFINE L == Len(e)
  <2>1. d[L + 1] = 3 + w /\ d[L + 2] = id /\ d[L + (3 + w)] = 0
    <3>1. 1 \in 1..3 + w /\ 2 \in 1..3 + w /\ 3 + w \in 1..3 + w
      BY <1>2
    <3> HIDE DEF w
    <3> QED BY <1>3, <1>5, <3>1
  <2> HIDE DEF w, e, n
  <2>2. CountAt(starts[n], Bare(id)) = L + (3 + w) /\ ValuedAt(starts[n], Bare(id)) = Len(d) + 1
    BY <1>2, <1>5, <1>7, <1>8 DEF CountAt, ValuedAt, w
  <2>3. starts[n] + 1 = L + 2 /\ (Len(d) + 1) - starts[n] = 3 + w /\ starts[n] = L + 1
    BY <1>2, <1>5, <1>7
  <2>4. SubjectsLie(d, starts[n], Bare(id))
    <3>1. 1..Len(Bare(id).subjects) = {}
      BY <1>8
    <3> QED BY <1>8, <2>1, <2>2, <2>3, <3>1 DEF SubjectsLie
  <2>5. ValuedAt(starts[n], Bare(id)) <= Len(d) + 1
    BY <1>2, <1>5, <2>2
  <2> QED BY <1>8, <2>1, <2>2, <2>3, <2>4, <2>5 DEF Lies
<1>10. \A i \in Nat : 1 <= i /\ i < starts[n] => y.events[i] = x.events[i]
  <2>1. ASSUME NEW i \in Nat, 1 <= i, i < starts[n] PROVE i \in 1..Len(e)
    BY <1>5, <1>7, <2>1
  <2> QED BY <1>5, <1>6, <2>1
<1>11. starts[n] <= Len(d)
  <2> HIDE DEF n, w, e
  <2> QED BY <1>2, <1>5, <1>7
<1>12. \E st : Whole(y, st, Then(rs, n, Bare(id)))
  <2> HIDE DEF n, e
  <2> QED BY <1>6, <1>7, <1>8, <1>9, <1>10, <1>11, WholeOn
<1> QED BY <1>4, <1>6, <1>12

(* Counting up one word. *)
LEMMA Bumped ==
  ASSUME NEW e \in Words, NEW at \in 1..Len(e)
  PROVE  /\ bump(e, at) \in Words /\ Len(bump(e, at)) = Len(e) /\ bump(e, at)[at] = e[at] + 1
         /\ \A i \in 1..Len(e) : i # at => bump(e, at)[i] = e[i]
BY DEF bump, Words

(* The last record, with or without one value of words more, ends the stream. *)
LEMMA LastLies ==
  ASSUME NEW x \in Shareds, NEW rs \in Seq(Records), NEW starts, Whole(x, starts, rs), rs # <<>>
  PROVE  /\ Len(rs) \in Nat /\ Len(rs) # 0 /\ Len(rs) - 1 \in 0..Len(rs) /\ rs[Len(rs)] \in Records
         /\ starts[Len(rs) - 1] \in Nat /\ 1 <= starts[Len(rs) - 1]
         /\ starts[Len(rs) - 1] <= Len(x.events)
         /\ last_event(x.events) = starts[Len(rs) - 1]
         /\ Lies(x.events, starts[Len(rs) - 1], Len(x.events) + 1, rs[Len(rs)])
         /\ x.event_values = IF rs[Len(rs)].values = <<>> THEN None
                             ELSE ValuedAt(starts[Len(rs) - 1], rs[Len(rs)])
<1> DEFINE n == Len(rs)
           e == x.events
<1>1. e \in Words /\ Parsed(e, starts, rs) /\ n \in Nat /\ n # 0 /\ Len(e) \in Nat
  BY EmptySeq, LenProperties DEF Shareds, Whole, Words
<1>2. n \in 1..n /\ n - 1 \in 0..n /\ n \in 0..n
  BY <1>1
<1>3. starts[n - 1] \in 1..Len(e) /\ last_event(e) = starts[n - 1]
  BY <1>1, <1>2, Standing, LastFound
<1>4. Lies(e, starts[n - 1], starts[n], rs[n]) /\ starts[n] = Len(e) + 1
  BY <1>1, <1>2 DEF Parsed
<1>5. rs[n] \in Records
  BY <1>2, ElementOfSeq
<1> QED BY <1>1, <1>2, <1>3, <1>4, <1>5 DEF Whole

LEMMA NoRecords ==
  ASSUME NEW x \in Shareds, NEW starts, Whole(x, starts, <<>>)
  PROVE  last_event(x.events) = None
<1>1. x.events \in Words /\ Parsed(x.events, starts, <<>>) /\ <<>> \in Seq(Records)
  BY EmptySeq DEF Shareds, Whole
<1> QED BY <1>1, LastFound

(* The record with one more subject, or one more value. *)
Named(r, h) == [r EXCEPT !.subjects = Append(@, h)]
Valued(r, v) == [r EXCEPT !.values = Append(@, v)]

LEMMA NamedType ==
  ASSUME NEW rs \in Seq(Records), rs # <<>>, NEW h \in Nat
  PROVE  Named(rs[Len(rs)], h) \in Records
<1> DEFINE r == rs[Len(rs)]
<1>1. r \in Records
  <2>1. Len(rs) \in 1..Len(rs)
    BY EmptySeq, LenProperties
  <2> QED BY <2>1, ElementOfSeq
<1> HIDE DEF r
<1>2. r.subjects \in Seq(Nat)
  BY <1>1 DEF Records
<1>3. Append(r.subjects, h) \in Seq(Nat)
  BY <1>2, AppendProperties
<1>4. Named(r, h) \in Records
  BY <1>1, <1>3 DEF Named, Records
<1> QED BY <1>4 DEF r

LEMMA ValuedType ==
  ASSUME NEW rs \in Seq(Records), rs # <<>>, NEW v \in Nat \X Nat
  PROVE  Valued(rs[Len(rs)], v) \in Records
<1> DEFINE r == rs[Len(rs)]
<1>1. r \in Records
  <2>1. Len(rs) \in 1..Len(rs)
    BY EmptySeq, LenProperties
  <2> QED BY <2>1, ElementOfSeq
<1> HIDE DEF r
<1>2. r.values \in Seq(Nat \X Nat)
  BY <1>1 DEF Records
<1>3. Append(r.values, v) \in Seq(Nat \X Nat)
  BY <1>2, AppendProperties
<1>4. Valued(r, v) \in Records
  BY <1>1, <1>3 DEF Valued, Records
<1> QED BY <1>4 DEF r

LEMMA Names ==
  ASSUME NEW x \in Shareds, NEW rs \in Seq(Records), NEW starts, Whole(x, starts, rs),
         NEW h \in Nat, event_subject(x, h) # x
  PROVE  /\ rs # <<>> /\ rs[Len(rs)].values = <<>>
         /\ event_subject(x, h) \in Shareds /\ event_subject(x, h).snapshot = x.snapshot
         /\ \E st : Whole(event_subject(x, h), st, Then(rs, Len(rs) - 1, Named(rs[Len(rs)], h)))
<1> DEFINE e == x.events
           n == Len(rs)
           r == rs[n]
           start == starts[n - 1]
           c == CountAt(start, r)
           L == Len(e)
           m == Len(r.subjects)
           r2 == Named(r, h)
           d == Append(bump(bump(e, c), start), h)
           y == [x EXCEPT !.events = d]
<1>1. last_event(e) # None /\ x.event_values = None
  BY DEF event_subject
<1>2. rs # <<>>
  BY <1>1, NoRecords
<1>3. /\ n \in Nat /\ n # 0 /\ n - 1 \in 0..n /\ r \in Records /\ start \in Nat /\ 1 <= start /\ start <= L
      /\ last_event(e) = start /\ Lies(e, start, L + 1, r)
      /\ x.event_values = IF r.values = <<>> THEN None ELSE ValuedAt(start, r)
  BY <1>2, LastLies
<1>4. e \in Words /\ L \in Nat
  BY LenProperties DEF Shareds, Words
<1>5. /\ r.id \in Nat /\ r.subjects \in Seq(Nat) /\ m \in Nat /\ Width(r.id) \in Nat
      /\ c \in Nat /\ start + 2 <= c /\ c = start + 2 + Width(r.id) /\ ValuedAt(start, r) = c + m + 1
  BY <1>3, RecordType DEF CountAt, ValuedAt
<1>6. r.values = <<>>
  <2>1. ValuedAt(start, r) # None
    BY <1>5 DEF None
  <2> QED BY <1>1, <1>3, <2>1
<1>7. L = c + m /\ e[start] = (L + 1) - start /\ e[start + 1] = r.id /\ e[c] = m
      /\ \A k \in 1..m : e[c + k] = r.subjects[k]
  <2>1. L + 1 = c + m + 1
    BY <1>3, <1>5, <1>6 DEF Lies
  <2> HIDE DEF c
  <2>2. e[start] = (L + 1) - start /\ e[start + 1] = r.id /\ e[c] = m
        /\ \A k \in 1..m : e[c + k] = r.subjects[k]
    BY <1>3 DEF Lies, SubjectsLie, c
  <2>3. L \in Nat /\ c \in Nat /\ m \in Nat
    BY <1>4, <1>5
  <2> HIDE DEF L, m
  <2>4. L = c + m
    BY <2>1, <2>3
  <2> QED BY <2>2, <2>4
<1>8. start + 2 + id_words(e, start) = c
  <2>1. read_word(e, start + 1) = r.id
    <3>1. start + 1 \in Nat /\ 1 <= start + 1 /\ start + 1 <= L
      <4>1. start \in Nat /\ 1 <= start /\ start + 2 <= c /\ c \in Nat /\ m \in Nat /\ L = c + m
        BY <1>3, <1>5, <1>7
      <4> HIDE DEF L, c, m, start
      <4> QED BY <4>1
    <3> QED BY <1>4, <1>7, <3>1, WordRead
  <2> QED BY <1>5, <2>1 DEF id_words, Width
<1>9. event_subject(x, h) = y
  <2> HIDE DEF c
  <2> QED BY <1>3, <1>8 DEF event_subject
<1> HIDE DEF c, start
<1>10. c \in Nat /\ start \in Nat /\ L \in Nat /\ m \in Nat /\ 1 <= start /\ start + 2 <= c /\ L = c + m
  BY <1>3, <1>4, <1>5, <1>7
<1>11. c \in 1..L /\ start \in 1..L /\ c # start
  <2> HIDE DEF L, m
  <2> QED BY <1>10
<1>12. /\ d \in Words /\ Len(d) = L + 1 /\ d[L + 1] = h /\ d[c] = e[c] + 1 /\ d[start] = e[start] + 1
       /\ \A i \in 1..L : i # c /\ i # start => d[i] = e[i]
  <2> DEFINE b1 == bump(e, c)
             b2 == bump(b1, start)
  <2>1. b1 \in Words /\ Len(b1) = L /\ b1[c] = e[c] + 1 /\ \A i \in 1..L : i # c => b1[i] = e[i]
    BY <1>4, <1>11, Bumped
  <2> HIDE DEF b1
  <2>2. b2 \in Words /\ Len(b2) = L /\ b2[start] = b1[start] + 1
        /\ \A i \in 1..L : i # start => b2[i] = b1[i]
    BY <1>11, <2>1, Bumped
  <2> HIDE DEF b2, L
  <2>3. b2[c] = e[c] + 1 /\ b2[start] = e[start] + 1 /\ \A i \in 1..L : i # c /\ i # start => b2[i] = e[i]
    BY <1>11, <2>1, <2>2
  <2>4. /\ Append(b2, h) \in Words /\ Len(Append(b2, h)) = L + 1 /\ Append(b2, h)[L + 1] = h
        /\ \A i \in 1..L : Append(b2, h)[i] = b2[i]
    BY <1>4, <2>2, AppendProperties DEF Words
  <2> QED BY <1>11, <2>3, <2>4 DEF b1, b2
<1> HIDE DEF d
<1>13. y \in Shareds /\ y.events = d /\ y.event_values = None /\ y.snapshot = x.snapshot
  <2>1. y.events = d /\ y.event_values = x.event_values /\ y.snapshot = x.snapshot
    BY DEF Shareds
  <2>2. y \in Shareds
    BY <1>12 DEF Shareds
  <2> QED BY <1>1, <2>1, <2>2
<1> HIDE DEF y
<1>14. /\ r2 \in Records /\ r2.id = r.id /\ r2.values = <<>> /\ Len(r2.subjects) = m + 1
       /\ r2.subjects[m + 1] = h /\ \A k \in 1..m : r2.subjects[k] = r.subjects[k]
  <2> HIDE DEF r
  <2>1. r2.id = r.id /\ r2.values = r.values /\ r2.subjects = Append(r.subjects, h)
    BY <1>3 DEF Named, Records
  <2>2. /\ Append(r.subjects, h) \in Seq(Nat) /\ Len(Append(r.subjects, h)) = m + 1
        /\ Append(r.subjects, h)[m + 1] = h
        /\ \A k \in 1..m : Append(r.subjects, h)[k] = r.subjects[k]
    BY <1>5, AppendProperties
  <2>3. r2 \in Records
    BY <1>3, <2>2 DEF Named, Records
  <2> QED BY <1>6, <2>1, <2>2, <2>3
<1> HIDE DEF r2
<1>15. CountAt(start, r2) = c /\ ValuedAt(start, r2) = L + 2 /\ Len(d) + 1 = L + 2
  <2>1. CountAt(start, r2) = c
    BY <1>14 DEF CountAt, c
  <2> HIDE DEF m
  <2>2. ValuedAt(start, r2) = c + (m + 1) + 1
    BY <1>14, <2>1 DEF ValuedAt
  <2> HIDE DEF L
  <2> QED BY <1>12, <1>10, <2>1, <2>2
<1>16. Lies(d, start, Len(d) + 1, r2)
  <2>1. d[start] = (Len(d) + 1) - start
    <3> HIDE DEF L
    <3> QED BY <1>3, <1>4, <1>7, <1>12
  <2>2. d[start + 1] = r2.id
    <3>1. start + 1 \in 1..L /\ start + 1 # c /\ start + 1 # start
      <4> HIDE DEF L, m
      <4> QED BY <1>10
    <3> QED BY <1>7, <1>12, <1>14, <3>1
  <2>3. d[c] = Len(r2.subjects)
    BY <1>7, <1>12, <1>14
  <2>4. ASSUME NEW k \in 1..Len(r2.subjects) PROVE d[c + k] = r2.subjects[k]
    <3> HIDE DEF m
    <3>1. k \in 1..m + 1 /\ m \in Nat
      BY <1>5, <1>14
    <3>2. CASE k = m + 1
      <4>1. c + k = L + 1
        <5> HIDE DEF L
        <5> QED BY <1>4, <1>5, <1>7, <3>2
      <4> QED BY <1>12, <1>14, <3>2, <4>1
    <3>3. CASE k # m + 1
      <4>1. k \in 1..m /\ c + k \in 1..L /\ c + k # c /\ c + k # start
        <5> HIDE DEF L
        <5> QED BY <1>10, <3>1, <3>3
      <4>2. d[c + k] = e[c + k]
        BY <1>12, <4>1
      <4> QED BY <1>7, <1>14, <4>1, <4>2
    <3> QED BY <3>2, <3>3
  <2>5. SubjectsLie(d, start, r2)
    BY <1>15, <2>2, <2>3, <2>4 DEF SubjectsLie
  <2> HIDE DEF L
  <2>6. ValuedAt(start, r2) = Len(d) + 1 /\ ValuedAt(start, r2) <= Len(d) + 1
    BY <1>4, <1>15
  <2> QED BY <1>14, <2>1, <2>5, <2>6 DEF Lies
<1>17. \A i \in Nat : 1 <= i /\ i < start => y.events[i] = x.events[i]
  <2>1. ASSUME NEW i \in Nat, 1 <= i, i < start PROVE i \in 1..L /\ i # c /\ i # start
    <3> HIDE DEF L
    <3> QED BY <1>3, <1>4, <1>5, <2>1
  <2> QED BY <1>12, <1>13, <2>1
<1>18. start <= Len(d)
  <2> HIDE DEF L
  <2> QED BY <1>3, <1>4, <1>12
<1>19. \E st : Whole(y, st, Then(rs, n - 1, r2))
  <2>1. /\ \A i \in Nat : 1 <= i /\ i < starts[n - 1] => y.events[i] = x.events[i]
        /\ starts[n - 1] <= Len(y.events) /\ Lies(y.events, starts[n - 1], Len(y.events) + 1, r2)
        /\ y.event_values = IF r2.values = <<>> THEN None ELSE ValuedAt(starts[n - 1], r2)
    BY <1>13, <1>14, <1>16, <1>17, <1>18 DEF start
  <2> HIDE DEF n
  <2> QED BY <1>3, <1>13, <1>14, <2>1, WholeOn DEF n
<1> QED BY <1>2, <1>6, <1>9, <1>13, <1>19 DEF r2

(* The words of the opened stream o with the value v behind them, counted at c. *)
Counted(o, c, v) == bump(o, c) \o v \o Content(v[2])

Stored(o, c, v, start) == [Counted(o, c, v) EXCEPT ![start] = Len(Counted(o, c, v)) - start + 1]

(* A stream with a count at c and a length at start, and a value to store. *)
Storable(o, c, v, start) ==
  o \in Words /\ c \in 1..Len(o) /\ start \in 1..Len(o) /\ start # c /\ v \in Nat \X Nat

(* The stream d is o with the value v behind it, counted and measured. *)
Holds(d, o, c, v, start) ==
  /\ d \in Words /\ Len(d) = Len(o) + 2 + Width(v[2])
  /\ d[start] = (Len(d) + 1) - start /\ d[c] = o[c] + 1
  /\ d[Len(o) + 1] = v[1] /\ d[Len(o) + 2] = v[2]
  /\ \A i \in 1..Len(o) : i # c /\ i # start => d[i] = o[i]

LEMMA ValuePut ==
  ASSUME NEW o, NEW c, NEW v, NEW start, Storable(o, c, v, start)
  PROVE  Holds(Stored(o, c, v, start), o, c, v, start)
<1> DEFINE d == Stored(o, c, v, start)
<1> o \in Words /\ c \in 1..Len(o) /\ start \in 1..Len(o) /\ start # c /\ v \in Nat \X Nat
  BY DEF Storable
<1> DEFINE M == Len(o)
           w == Width(v[2])
           b == bump(o, c)
           body == Content(v[2])
           bv == b \o v
           st == bv \o body
<1>1. M \in Nat /\ w \in Nat /\ v[1] \in Nat /\ v[2] \in Nat /\ v = <<v[1], v[2]>>
  BY WidthType, LenProperties DEF Words
<1>2. b \in Seq(Nat) /\ Len(b) = M /\ b[c] = o[c] + 1 /\ \A i \in 1..M : i # c => b[i] = o[i]
  BY Bumped DEF Words
<1>3. body \in Seq(Nat) /\ Len(body) = w
  BY <1>1, ContentLength DEF Words
<1>4. v \in Seq(Nat) /\ Len(v) = 2
  <2>1. <<v[1], v[2]>> \in Seq(Nat) /\ Len(<<v[1], v[2]>>) = 2
    BY <1>1
  <2> QED BY <1>1, <2>1
<1> HIDE DEF M, w, b, body
<1>5. /\ bv \in Seq(Nat) /\ Len(bv) = M + 2 /\ bv[M + 1] = v[1] /\ bv[M + 2] = v[2]
      /\ \A i \in 1..M : bv[i] = b[i]
  <2>1. /\ bv \in Seq(Nat) /\ Len(bv) = Len(b) + Len(v)
        /\ \A i \in 1..Len(b) + Len(v) : bv[i] = IF i <= Len(b) THEN b[i] ELSE v[i - Len(b)]
    BY <1>2, <1>4, ConcatProperties
  <2> HIDE DEF bv
  <2>2. M + 1 \in 1..Len(b) + Len(v) /\ M + 2 \in 1..Len(b) + Len(v) /\ (M + 1) - Len(b) = 1
        /\ (M + 2) - Len(b) = 2 /\ ~(M + 1 <= Len(b)) /\ ~(M + 2 <= Len(b))
        /\ \A i \in 1..M : i \in 1..Len(b) + Len(v) /\ i <= Len(b)
    BY <1>1, <1>2, <1>4
  <2> QED BY <1>1, <1>2, <1>4, <2>1, <2>2
<1> HIDE DEF bv
<1>6. /\ st \in Seq(Nat) /\ Len(st) = M + 2 + w
      /\ \A i \in 1..M + 2 : st[i] = bv[i]
  <2>1. /\ st \in Seq(Nat) /\ Len(st) = Len(bv) + Len(body)
        /\ \A i \in 1..Len(bv) + Len(body) : st[i] = IF i <= Len(bv) THEN bv[i] ELSE body[i - Len(bv)]
    BY <1>3, <1>5, ConcatProperties
  <2> HIDE DEF st
  <2>2. \A i \in 1..M + 2 : i \in 1..Len(bv) + Len(body) /\ i <= Len(bv)
    BY <1>1, <1>3, <1>5
  <2> QED BY <1>1, <1>3, <1>5, <2>1, <2>2
<1>7. Counted(o, c, v) = st
  BY DEF Counted, st, bv, b, body
<1> HIDE DEF st
<1>8. c \in 1..M /\ start \in 1..M
  BY DEF M
<1>9. M + 1 \in 1..M + 2 /\ M + 2 \in 1..M + 2 /\ M + 1 # start /\ M + 2 # start
      /\ \A i \in 1..M : i \in 1..M + 2
  BY <1>1, <1>8
<1>10. start \in 1..Len(st) /\ Len(st) - start + 1 \in Nat
  BY <1>1, <1>6, <1>8
<1>11. d = [st EXCEPT ![start] = Len(st) - start + 1]
  BY <1>7 DEF Stored
<1> HIDE DEF d
<1>12. d \in Seq(Nat) /\ Len(d) = Len(st) /\ d[start] = Len(st) - start + 1
       /\ \A i \in 1..Len(st) : i # start => d[i] = st[i]
  <2> DEFINE word == Len(st) - start + 1
  <2>1. st \in Seq(Nat) /\ start \in 1..Len(st) /\ word \in Nat /\ d = [st EXCEPT ![start] = word]
    BY <1>6, <1>10, <1>11
  <2> HIDE DEF word
  <2>2. d \in Seq(Nat) /\ Len(d) = Len(st) /\ d[start] = word
        /\ \A i \in 1..Len(st) : i # start => d[i] = st[i]
    BY <2>1
  <2> QED BY <2>2 DEF word
<1>13. \A i \in 1..M + 2 : i \in 1..Len(st)
  BY <1>1, <1>6
<1>14. d[start] = (Len(d) + 1) - start
  BY <1>1, <1>6, <1>8, <1>12
<1>15. d[M + 1] = v[1] /\ d[M + 2] = v[2]
  BY <1>5, <1>6, <1>9, <1>12, <1>13
<1>16. ASSUME NEW i \in 1..M, i # start PROVE d[i] = b[i]
  BY <1>5, <1>6, <1>9, <1>12, <1>13, <1>16
<1>17. d[c] = o[c] + 1 /\ \A i \in 1..M : i # c /\ i # start => d[i] = o[i]
  BY <1>2, <1>8, <1>16
<1>18. d \in Words /\ Len(d) = M + 2 + w
  BY <1>6, <1>12 DEF Words
<1> QED BY <1>14, <1>15, <1>17, <1>18 DEF M, w, d, Holds

LEMMA Values ==
  ASSUME NEW x \in Shareds, NEW rs \in Seq(Records), NEW starts, Whole(x, starts, rs),
         NEW v \in Nat \X Nat, event_value(x, v) # x
  PROVE  /\ rs # <<>>
         /\ event_value(x, v) \in Shareds /\ event_value(x, v).snapshot = x.snapshot
         /\ \E st : Whole(event_value(x, v), st, Then(rs, Len(rs) - 1, Valued(rs[Len(rs)], v)))
<1> DEFINE e == x.events
           n == Len(rs)
           r == rs[n]
           start == starts[n - 1]
           L == Len(e)
           m == Len(r.values)
           r2 == Valued(r, v)
           at == IF x.event_values # None THEN x.event_values ELSE L + 1
           o == IF x.event_values # None THEN e ELSE Append(e, 0)
           d == Stored(o, at, v, start)
           y == [x EXCEPT !.events = d, !.event_values = at]
           w == Width(v[2])
<1>1. last_event(e) # None
  BY DEF event_value
<1>2. rs # <<>>
  BY <1>1, NoRecords
<1>3. /\ n \in Nat /\ n # 0 /\ n - 1 \in 0..n /\ r \in Records /\ start \in Nat /\ 1 <= start /\ start <= L
      /\ last_event(e) = start /\ Lies(e, start, L + 1, r)
      /\ x.event_values = IF r.values = <<>> THEN None ELSE ValuedAt(start, r)
  BY <1>2, LastLies
<1>4. e \in Words /\ L \in Nat /\ w \in Nat /\ v[1] \in Nat /\ v[2] \in Nat
  BY LenProperties, WidthType DEF Shareds, Words
<1> DEFINE c == CountAt(start, r)
           s == Len(r.subjects)
           at2 == ValuedAt(start, r)
<1>5. /\ r.id \in Nat /\ r.subjects \in Seq(Nat) /\ r.values \in Seq(Nat \X Nat) /\ m \in Nat /\ s \in Nat
      /\ c \in Nat /\ start + 2 <= c /\ at2 = c + s + 1 /\ at2 \in Nat
  BY <1>3, RecordType DEF ValuedAt
<1>6. event_value(x, v) = y
  BY <1>1, <1>3 DEF event_value, Counted, Stored
<1>7. at = at2 /\ (r.values = <<>> => at2 = L + 1) /\ (r.values # <<>> => at2 <= L)
  <2>1. CASE r.values = <<>>
    <3>1. at2 = L + 1
      BY <1>3, <2>1 DEF Lies
    <3> QED BY <1>3, <2>1, <3>1
  <2>2. CASE r.values # <<>>
    <3>1. at2 < L + 1
      BY <1>3, <2>2 DEF Lies
    <3>2. at2 # None /\ at2 <= L
      <4>1. at2 = c + s + 1 /\ c \in Nat /\ s \in Nat /\ L \in Nat /\ at2 < L + 1
        BY <1>4, <1>5, <3>1
      <4> HIDE DEF at2, L, c, s
      <4> QED BY <4>1 DEF None
    <3> QED BY <1>3, <2>2, <3>2
  <2> QED BY <2>1, <2>2
<1>8. r.values = <<>> => o = Append(e, 0)
  BY <1>3
<1>9. r.values # <<>> => o = e
  <2>1. at2 # None
    BY <1>5 DEF None
  <2> HIDE DEF at2
  <2> QED BY <1>3, <2>1 DEF at2
(* The stream the value is put into, and where the record ends in it. *)
<1>10. /\ o \in Words /\ Len(o) = (IF r.values = <<>> THEN L + 1 ELSE L)
       /\ \A i \in 1..L : o[i] = e[i]
       /\ o[at2] = m
  <2>1. CASE r.values = <<>>
    <3>1. /\ Append(e, 0) \in Seq(Nat) /\ Len(Append(e, 0)) = L + 1 /\ Append(e, 0)[L + 1] = 0
          /\ \A i \in 1..L : Append(e, 0)[i] = e[i]
      BY <1>4, AppendProperties DEF Words
    <3>2. m = 0 /\ at2 = L + 1
      BY <1>7, <2>1
    <3> HIDE DEF o, m, at2, L
    <3> QED BY <1>8, <2>1, <3>1, <3>2 DEF Words
  <2>2. CASE r.values # <<>>
    <3>1. e[at2] = m
      BY <1>3, <2>2 DEF Lies
    <3> HIDE DEF o, m, at2, L
    <3> QED BY <1>4, <1>9, <2>2, <3>1 DEF L
  <2> QED BY <2>1, <2>2
<1> HIDE DEF o, at, at2, c, start
<1>11. /\ start \in Nat /\ 1 <= start /\ start + 2 <= c /\ c \in Nat /\ s \in Nat /\ at2 = c + s + 1 /\ L \in Nat
       /\ Len(o) \in Nat /\ at2 <= Len(o) /\ L <= Len(o) /\ at2 <= L + 1 /\ w \in Nat
  <2> HIDE DEF s
  <2>1. CASE r.values = <<>>
    <3>1. at2 = L + 1 /\ Len(o) = L + 1
      BY <1>7, <1>10, <2>1
    <3> HIDE DEF L, w
    <3> QED BY <1>3, <1>4, <1>5, <3>1
  <2>2. CASE r.values # <<>>
    <3>1. at2 <= L /\ Len(o) = L
      BY <1>7, <1>10, <2>2
    <3> HIDE DEF L, w
    <3> QED BY <1>3, <1>4, <1>5, <3>1
  <2> QED BY <2>1, <2>2
<1>12. start \in 1..L /\ start \in 1..Len(o) /\ at2 \in 1..Len(o) /\ at2 # start
  <2> HIDE DEF L, s, w
  <2> QED BY <1>11
<1>13. /\ d \in Words /\ Len(d) = Len(o) + 2 + w
       /\ d[start] = (Len(d) + 1) - start /\ d[at2] = m + 1
       /\ d[Len(o) + 1] = v[1] /\ d[Len(o) + 2] = v[2]
       /\ \A i \in 1..L : i # at2 /\ i # start => d[i] = e[i]
  <2>1. d = Stored(o, at2, v, start)
    BY <1>7
  <2> HIDE DEF d, m
  <2>2. /\ d \in Words /\ Len(d) = Len(o) + 2 + w
        /\ d[start] = (Len(d) + 1) - start /\ d[at2] = o[at2] + 1
        /\ d[Len(o) + 1] = v[1] /\ d[Len(o) + 2] = v[2]
        /\ \A i \in 1..Len(o) : i # at2 /\ i # start => d[i] = o[i]
    <3>1. o \in Words /\ at2 \in 1..Len(o) /\ start \in 1..Len(o) /\ start # at2
      BY <1>10, <1>12
    <3> HIDE DEF L
    <3> HIDE DEF w, s, y, r2, n, e, r
    <3>2. Storable(o, at2, v, start)
      BY <3>1 DEF Storable
    <3>3. Holds(d, o, at2, v, start)
      BY <2>1, <3>2, ValuePut
    <3> QED BY <3>3 DEF Holds, w
  <2>3. \A i \in 1..L : i \in 1..Len(o)
    <3> HIDE DEF L
    <3> QED BY <1>11
  <2> HIDE DEF L, w
  <2> QED BY <1>10, <2>2, <2>3
<1> HIDE DEF d
<1>14. y \in Shareds /\ y.events = d /\ y.event_values = at /\ y.snapshot = x.snapshot
  <2>1. y.events = d /\ y.event_values = at /\ y.snapshot = x.snapshot
    BY DEF Shareds
  <2>2. y \in Shareds
    BY <1>5, <1>7, <1>13 DEF Shareds
  <2> QED BY <2>1, <2>2
<1> HIDE DEF y
<1>15. /\ r2 \in Records /\ r2.id = r.id /\ r2.subjects = r.subjects /\ Len(r2.values) = m + 1
       /\ r2.values[m + 1] = v /\ (\A k \in 1..m : r2.values[k] = r.values[k]) /\ r2.values # <<>>
  <2> HIDE DEF r
  <2>1. r2.id = r.id /\ r2.subjects = r.subjects /\ r2.values = Append(r.values, v)
    BY <1>3 DEF Valued, Records
  <2>2. /\ Append(r.values, v) \in Seq(Nat \X Nat) /\ Len(Append(r.values, v)) = m + 1
        /\ Append(r.values, v)[m + 1] = v
        /\ \A k \in 1..m : Append(r.values, v)[k] = r.values[k]
    BY <1>5, AppendProperties
  <2>3. r2 \in Records
    BY <1>3, <2>2 DEF Valued, Records
  <2>4. m + 1 # 0
    BY <1>5
  <2> HIDE DEF m
  <2> QED BY <2>1, <2>2, <2>3, <2>4, EmptySeq
<1> HIDE DEF r2
<1>16. CountAt(start, r2) = c /\ ValuedAt(start, r2) = at2
  BY <1>15 DEF CountAt, ValuedAt, c, at2
<1>17. SubjectsLie(d, start, r2)
  <2>1. e[start + 1] = r.id /\ e[c] = s /\ \A k \in 1..s : e[c + k] = r.subjects[k]
    BY <1>3 DEF Lies, SubjectsLie, c, start
  <2>2. ASSUME NEW i \in Nat, start < i, i < at2 PROVE d[i] = e[i]
    <3>1. i \in 1..L /\ i # at2 /\ i # start
      <4> HIDE DEF L, s, w
      <4> QED BY <1>11, <2>2
    <3> QED BY <1>13, <3>1
  <2>3. start + 1 \in Nat /\ start < start + 1 /\ start + 1 < at2 /\ start < c /\ c < at2
    <3> HIDE DEF L, s, w
    <3> QED BY <1>11
  <2>4. ASSUME NEW k \in 1..s PROVE c + k \in Nat /\ start < c + k /\ c + k < at2
    <3> HIDE DEF L, s, w
    <3> QED BY <1>11
  <2>5. d[start + 1] = r.id /\ d[c] = s /\ \A k \in 1..s : d[c + k] = r.subjects[k]
    BY <1>11, <2>1, <2>2, <2>3, <2>4
  <2> QED BY <1>15, <1>16, <2>5 DEF SubjectsLie
<1>18. \E p \in [0..m + 1 -> Nat] : ValuesLie(d, at2 + 1, Len(d) + 1, r2.values, p)
  <2>1. PICK place \in [0..m -> Nat] :
          /\ place[0] = at2 + 1 /\ place[m] = Len(o) + 1
          /\ \A k \in 1..m : /\ place[k] = place[k - 1] + 2 + Width(r.values[k][2])
                             /\ at2 + 1 <= place[k - 1] /\ place[k] <= Len(o) + 1
                             /\ d[place[k - 1]] = r.values[k][1] /\ d[place[k - 1] + 1] = r.values[k][2]
    <3>1. CASE r.values = <<>>
      <4> DEFINE p == [k \in 0..0 |-> at2 + 1]
      <4>1. m = 0 /\ Len(o) = at2
        BY <1>7, <1>10, <3>1
      <4>2. p \in [0..0 -> Nat] /\ p[0] = at2 + 1
        BY <1>5
      <4> HIDE DEF p, m
      <4>3. \A k \in 1..m : FALSE
        BY <4>1
      <4> QED BY <4>1, <4>2, <4>3
    <3>2. CASE r.values # <<>>
      <4>1. PICK p \in [0..m -> Nat] : ValuesLie(e, at2 + 1, L + 1, r.values, p)
        BY <1>3, <3>2 DEF Lies, at2, start
      <4>2. Len(o) = L /\ m # 0
        BY <1>5, <1>10, <3>2, EmptySeq
      <4>3. p[0] = at2 + 1 /\ p[m] = Len(o) + 1
        BY <4>1, <4>2 DEF ValuesLie
      <4>4. ASSUME NEW k \in 1..m
            PROVE  /\ p[k] = p[k - 1] + 2 + Width(r.values[k][2])
                   /\ at2 + 1 <= p[k - 1] /\ p[k] <= Len(o) + 1
                   /\ d[p[k - 1]] = r.values[k][1] /\ d[p[k - 1] + 1] = r.values[k][2]
        <5> DEFINE q == p[k - 1]
                   q2 == p[k]
                   wide == Width(r.values[k][2])
        <5>1. q2 = q + 2 + wide /\ at2 + 1 <= q /\ q2 <= L + 1
              /\ e[q] = r.values[k][1] /\ e[q + 1] = r.values[k][2]
          BY <4>1 DEF ValuesLie
        <5>2. q \in Nat /\ q2 \in Nat /\ wide \in Nat
          <6>1. k - 1 \in 0..m /\ k \in 0..m
            <7>1. m \in Nat
              BY <1>5
            <7> HIDE DEF m
            <7> QED BY <7>1
          <6>2. r.values[k][2] \in Nat
            BY <1>5, ValueType
          <6> QED BY <6>1, <6>2, WidthType
        <5> HIDE DEF q, q2, wide
        <5>3. q \in 1..L /\ q # at2 /\ q # start /\ q + 1 \in 1..L /\ q + 1 # at2 /\ q + 1 # start
          <6> HIDE DEF L, s, w
          <6> QED BY <1>11, <5>1, <5>2
        <5>4. d[q] = e[q] /\ d[q + 1] = e[q + 1]
          BY <1>13, <5>3
        <5> QED BY <4>2, <5>1, <5>4 DEF q, q2, wide
      <4> HIDE DEF m
      <4> QED BY <4>3, <4>4
    <3> QED BY <3>1, <3>2
  <2> DEFINE p2 == [k \in 0..m + 1 |-> IF k <= m THEN place[k] ELSE Len(d) + 1]
  <2>2. m \in Nat /\ Len(d) + 1 \in Nat /\ Len(d) = Len(o) + 2 + w /\ Len(o) \in Nat
    <3>1. m \in Nat /\ w \in Nat /\ Len(o) \in Nat /\ Len(d) = Len(o) + 2 + w
      BY <1>5, <1>11, <1>13
    <3> HIDE DEF m, w
    <3> QED BY <3>1
  <2> HIDE DEF m, w, L, s
  <2>3. p2 \in [0..m + 1 -> Nat] /\ p2[m + 1] = Len(d) + 1 /\ \A k \in 0..m : p2[k] = place[k]
    <3>1. \A k \in 0..m : k \in 0..m + 1 /\ k <= m
      BY <2>2
    <3>2. \A k \in 0..m + 1 : k <= m => k \in 0..m
      BY <2>2
    <3>3. m + 1 \in 0..m + 1 /\ ~(m + 1 <= m)
      BY <2>2
    <3> QED BY <2>2, <3>1, <3>2, <3>3
  <2> HIDE DEF p2
  <2>4. p2[0] = at2 + 1 /\ p2[m] = Len(o) + 1
    <3>1. 0 \in 0..m /\ m \in 0..m
      BY <2>2
    <3> QED BY <2>1, <2>3, <3>1
  <2>5. ASSUME NEW k \in 1..m + 1
        PROVE  /\ p2[k] = p2[k - 1] + 2 + Width(r2.values[k][2])
               /\ at2 + 1 <= p2[k - 1] /\ p2[k] <= Len(d) + 1
               /\ d[p2[k - 1]] = r2.values[k][1] /\ d[p2[k - 1] + 1] = r2.values[k][2]
    <3>1. CASE k = m + 1
      <4>1. k - 1 = m
        BY <2>2, <3>1
      <4>2. p2[k] = Len(d) + 1 /\ p2[k - 1] = Len(o) + 1 /\ r2.values[k] = v
        BY <1>15, <2>3, <2>4, <3>1, <4>1
      <4>3. Width(v[2]) = w
        BY DEF w
      <4>4. Len(d) + 1 = (Len(o) + 1) + 2 + w /\ (Len(o) + 1) + 1 = Len(o) + 2 /\ at2 + 1 <= Len(o) + 1
            /\ Len(d) + 1 <= Len(d) + 1
        BY <1>11, <2>2
      <4> QED BY <1>13, <4>2, <4>3, <4>4
    <3>2. CASE k # m + 1
      <4>1. k \in 1..m /\ k - 1 \in 0..m /\ k \in 0..m
        BY <2>2, <3>2
      <4>2. p2[k] = place[k] /\ p2[k - 1] = place[k - 1] /\ r2.values[k] = r.values[k]
        BY <1>15, <2>3, <4>1
      <4>3. /\ place[k] = place[k - 1] + 2 + Width(r.values[k][2])
            /\ at2 + 1 <= place[k - 1] /\ place[k] <= Len(o) + 1
            /\ d[place[k - 1]] = r.values[k][1] /\ d[place[k - 1] + 1] = r.values[k][2]
        BY <2>1, <4>1
      <4>4. place[k] <= Len(d) + 1
        <5>1. place[k] \in Nat /\ Len(d) = Len(o) + 2 + w /\ w \in Nat
          BY <1>11, <2>2, <4>1
        <5> QED BY <2>2, <4>3, <5>1
      <4> QED BY <4>2, <4>3, <4>4
    <3> QED BY <3>1, <3>2
  <2>6. ValuesLie(d, at2 + 1, Len(d) + 1, r2.values, p2)
    BY <1>15, <2>3, <2>4, <2>5 DEF ValuesLie
  <2> QED BY <2>3, <2>6
<1>19. Lies(d, start, Len(d) + 1, r2)
  <2>1. at2 <= Len(d) + 1 /\ at2 < Len(d) + 1
    <3> HIDE DEF L, s, w
    <3> QED BY <1>11, <1>13
  <2> HIDE DEF m, L, s, w
  <2> QED BY <1>13, <1>15, <1>16, <1>17, <1>18, <2>1 DEF Lies
<1>20. \A i \in Nat : 1 <= i /\ i < start => y.events[i] = x.events[i]
  <2>1. ASSUME NEW i \in Nat, 1 <= i, i < start PROVE i \in 1..L /\ i # at2 /\ i # start
    <3> HIDE DEF L, s, w
    <3> QED BY <1>11, <1>12, <2>1
  <2> QED BY <1>13, <1>14, <2>1
<1>21. start <= Len(d)
  <2> HIDE DEF L, s, w
  <2> QED BY <1>11, <1>12, <1>13
<1>22. \E st : Whole(y, st, Then(rs, n - 1, r2))
  <2>1. /\ \A i \in Nat : 1 <= i /\ i < starts[n - 1] => y.events[i] = x.events[i]
        /\ starts[n - 1] <= Len(y.events) /\ Lies(y.events, starts[n - 1], Len(y.events) + 1, r2)
        /\ y.event_values = IF r2.values = <<>> THEN None ELSE ValuedAt(starts[n - 1], r2)
    BY <1>7, <1>14, <1>15, <1>16, <1>19, <1>20, <1>21 DEF start
  <2> HIDE DEF n
  <2> QED BY <1>3, <1>14, <1>15, <2>1, WholeOn DEF n
<1> QED BY <1>2, <1>6, <1>14, <1>22 DEF r2

(***************************************************************************)
(* Lists of records, before and after a call                               *)
(***************************************************************************)
LEMMA WholeReads ==
  ASSUME NEW x \in Shareds, NEW rs \in Seq(Records), NEW starts, Whole(x, starts, rs)
  PROVE  ReadEvents(x.events) = rs
<1>1. x.events \in Words /\ Parsed(x.events, starts, rs)
  BY DEF Shareds, Whole
<1> QED BY <1>1, ReadsEvents

LEMMA EmptyWhole ==
  ASSUME NEW x \in Shareds, x.events = <<>>, x.event_values = None
  PROVE  IsWhole(x) /\ ReadEvents(x.events) = <<>>
<1> DEFINE st == [k \in 0..0 |-> 1]
           rs == <<>>
<1>1. rs \in Seq(Records) /\ Len(rs) = 0
  BY EmptySeq
<1>2. st \in [0..0 -> Nat] /\ st[0] = 1 /\ \A j, k \in 0..0 : st[j] <= st[k]
  OBVIOUS
<1> HIDE DEF st
<1>3. Parsed(x.events, st, rs)
  <2>1. 1..Len(rs) = {} /\ 0..Len(rs) = 0..0 /\ Len(x.events) + 1 = 1
    OBVIOUS
  <2> QED BY <1>1, <1>2, <2>1 DEF Parsed
<1>4. Whole(x, st, rs)
  BY <1>3 DEF Whole
<1> QED BY <1>1, <1>4, WholeReads DEF IsWhole

(* All the records and one more. *)
LEMMA ThenAll ==
  ASSUME NEW rs \in Seq(Records), NEW r \in Records
  PROVE  Then(rs, Len(rs), r) = Append(rs, r)
<1>1. SubSeq(rs, 1, Len(rs)) = rs
  OBVIOUS
<1> QED BY <1>1 DEF Then

(* The last record made into another one. *)
LEMMA ThenLast ==
  ASSUME NEW rs \in Seq(Records), NEW r \in Records, rs # <<>>
  PROVE  /\ Len(Then(rs, Len(rs) - 1, r)) = Len(rs)
         /\ SubSeq(Then(rs, Len(rs) - 1, r), 1, Len(rs) - 1) = SubSeq(rs, 1, Len(rs) - 1)
         /\ Then(rs, Len(rs) - 1, r)[Len(rs)] = r
<1> DEFINE n == Len(rs)
           m == n - 1
           new == Then(rs, m, r)
<1>1. n \in Nat /\ n # 0 /\ m \in 0..n /\ m \in Nat /\ m + 1 = n
  BY EmptySeq, LenProperties
<1>2. new \in Seq(Records) /\ Len(new) = n /\ new[n] = r /\ \A k \in 1..m : new[k] = rs[k]
  <2> HIDE DEF m
  <2>1. new \in Seq(Records) /\ Len(new) = m + 1 /\ new[m + 1] = r
    BY <1>1, ThenIs
  <2>2. \A k \in 1..m : new[k] = rs[k]
    BY <1>1, ThenIs
  <2> HIDE DEF new
  <2> QED BY <1>1, <2>1, <2>2
<1> HIDE DEF new, m
<1>3. \A k \in 1..m : k \in 1..n /\ new[k] \in Records /\ rs[k] \in Records
  <2>1. \A k \in 1..m : k \in 1..n
    <3> HIDE DEF n
    <3> QED BY <1>1
  <2> QED BY <1>2, <2>1, ElementOfSeq
<1> DEFINE a == SubSeq(new, 1, m)
           b == SubSeq(rs, 1, m)
<1>4. /\ a \in Seq(Records) /\ Len(a) = (IF 1 <= m THEN m - 1 + 1 ELSE 0)
      /\ \A k \in 1..(m - 1 + 1) : a[k] = new[1 + k - 1]
  BY <1>1, <1>3, SubSeqProperties
<1>5. /\ b \in Seq(Records) /\ Len(b) = (IF 1 <= m THEN m - 1 + 1 ELSE 0)
      /\ \A k \in 1..(m - 1 + 1) : b[k] = rs[1 + k - 1]
  BY <1>1, <1>3, SubSeqProperties
<1> HIDE DEF a, b, n
<1>6. Len(a) = m /\ Len(b) = m /\ \A k \in 1..m : a[k] = b[k]
  <2>1. \A k \in 1..m : k \in 1..(m - 1 + 1) /\ 1 + k - 1 = k
    BY <1>1
  <2> QED BY <1>1, <1>2, <1>4, <1>5, <2>1
<1>7. a = b
  BY <1>4, <1>5, <1>6, SeqEqual
<1> QED BY <1>2, <1>7 DEF a, b, m, new, n

(***************************************************************************)
(* Steps                                                                   *)
(***************************************************************************)
Lists(sh) == [s \in Sessions |-> ReadEvents(sh[s].events)]
Held(sh) == [s \in Sessions |-> sh[s].snapshot]

(* What the list of session s may become, as EventLog says it. *)
Turned(s) ==
  /\ \A q \in Sessions \ {s} : Lists(shared)'[q] = Lists(shared)[q]
  /\ Log!Writes(s) \/ Log!WentBack(s) \/ Log!Hands(s) \/ Log!Spends(s)

LEMMA TurnedIsNext == ASSUME NEW s \in Sessions, Turned(s) PROVE Log!LogNext
BY DEF Turned, Lists, Log!LogNext

(* A step that puts a whole record into the place of a session's record. *)
LEMMA Puts ==
  ASSUME StreamInv, NEW s \in Sessions, NEW y \in Shareds, IsWhole(y), Becomes(s, y),
         counter' \in Nat \ {0}, resyncing' \in [Sessions -> BOOLEAN]
  PROVE  /\ StreamInv'
         /\ \A q \in Sessions \ {s} : Lists(shared)'[q] = Lists(shared)[q]
         /\ Lists(shared)[s] = ReadEvents(shared[s].events) /\ Lists(shared)'[s] = ReadEvents(y.events)
         /\ Held(shared)[s] = shared[s].snapshot
         /\ Held(shared)' = [Held(shared) EXCEPT ![s] = y.snapshot]
         /\ y.snapshot = shared[s].snapshot => Held(shared)' = Held(shared)
<1>1. shared \in [Sessions -> Shareds] /\ shared' = [shared EXCEPT ![s] = y]
  BY DEF StreamInv, StreamType, Becomes
<1>2. shared' \in [Sessions -> Shareds] /\ shared'[s] = y /\ \A q \in Sessions \ {s} : shared'[q] = shared[q]
  BY <1>1
<1>3. StreamInv'
  <2>1. \A q \in Sessions : IsWhole(shared'[q])
    BY <1>2 DEF StreamInv
  <2> QED BY <1>2, <2>1 DEF StreamInv, StreamType, IsWhole, Whole
<1>4. /\ \A q \in Sessions \ {s} : Lists(shared)'[q] = Lists(shared)[q]
      /\ Lists(shared)[s] = ReadEvents(shared[s].events) /\ Lists(shared)'[s] = ReadEvents(y.events)
  BY <1>2 DEF Lists
<1>5. Held(shared)[s] = shared[s].snapshot /\ Held(shared)' = [Held(shared) EXCEPT ![s] = y.snapshot]
      /\ (y.snapshot = shared[s].snapshot => Held(shared)' = Held(shared))
  BY <1>2 DEF Held
<1> QED BY <1>3, <1>4, <1>5

(* A call that is refused leaves everything. *)
LEMMA Refused ==
  ASSUME StreamInv, NEW s \in Sessions, Becomes(s, shared[s]), counter' = counter,
         resyncing' \in [Sessions -> BOOLEAN]
  PROVE  StreamInv' /\ UNCHANGED Log!logVars
<1>1. shared' = shared
  BY DEF StreamInv, StreamType, Becomes
<1>2. StreamInv'
  BY <1>1 DEF StreamInv, StreamType, IsWhole, Whole
<1> QED BY <1>1, <1>2 DEF Log!logVars

LEMMA OpensStep ==
  ASSUME StreamInv, NEW s \in Sessions, NEW id \in Ids \cup {ResyncLength},
         Becomes(s, event(shared[s], id)), counter' = counter,
         resyncing' \in [Sessions -> BOOLEAN]
  PROVE  StreamInv' /\ (Turned(s) \/ UNCHANGED Log!logVars)
<1> DEFINE x == shared[s]
           y == event(x, id)
<1>1. x \in Shareds /\ id \in Nat /\ counter' \in Nat \ {0}
  BY StreamAssumption DEF StreamInv, StreamType, ResyncLength
<1>2. PICK rs \in Seq(Records) : \E st : Whole(x, st, rs)
  BY DEF StreamInv, IsWhole
<1>3. PICK st : Whole(x, st, rs)
  BY <1>2
<1>4. CASE y = x
  BY <1>4, Refused
<1>5. CASE y # x
  <2>1. y \in Shareds /\ y.snapshot = x.snapshot
        /\ \E q : Whole(y, q, Then(rs, Len(rs), Bare(id)))
    BY <1>1, <1>3, <1>5, Opens
  <2>2. Bare(id) \in Records
    BY <1>1, EmptySeq DEF Bare, Records
  <2> DEFINE new == Append(rs, Bare(id))
  <2>3. Then(rs, Len(rs), Bare(id)) = new /\ new \in Seq(Records)
    BY <2>2, ThenAll, AppendProperties
  <2>4. PICK q : Whole(y, q, new)
    BY <2>1, <2>3
  <2> HIDE DEF new, y
  <2>5. IsWhole(y) /\ ReadEvents(y.events) = new /\ ReadEvents(x.events) = rs
    BY <1>1, <1>3, <2>1, <2>3, <2>4, WholeReads DEF IsWhole
  <2>6. Becomes(s, y)
    BY DEF y
  <2>7. /\ StreamInv' /\ (\A p \in Sessions \ {s} : Lists(shared)'[p] = Lists(shared)[p])
        /\ Lists(shared)[s] = rs /\ Lists(shared)'[s] = new /\ Held(shared)' = Held(shared)
    BY <1>1, <2>1, <2>5, <2>6, Puts
  <2>8. Log!Told(rs, new)
    BY DEF Log!Told, Log!Opened, new, Bare
  <2>9. Log!Writes(s)
    BY <2>7, <2>8 DEF Log!Writes, Lists, Held
  <2> QED BY <2>7, <2>9 DEF Turned
<1> QED BY <1>4, <1>5

(* The last record of a session's list grows by a subject or a value. *)
LEMMA Extends ==
  ASSUME NEW rs \in Seq(Records), rs # <<>>, NEW r \in Records,
         \/ rs[Len(rs)].values = <<>> /\ \E h \in Handles : r = Named(rs[Len(rs)], h)
         \/ \E v \in EventValues : r = Valued(rs[Len(rs)], v)
  PROVE  Log!Extended(rs, Then(rs, Len(rs) - 1, r))
<1> DEFINE new == Then(rs, Len(rs) - 1, r)
<1>1. /\ Len(new) = Len(rs) /\ new[Len(rs)] = r
      /\ SubSeq(new, 1, Len(rs) - 1) = SubSeq(rs, 1, Len(rs) - 1)
  BY ThenLast
<1> HIDE DEF new
<1>2. Log!Front(new) = Log!Front(rs) /\ Log!Last(new) = r /\ Log!Last(rs) = rs[Len(rs)]
  BY <1>1 DEF Log!Front, Log!Last
<1>3. Log!Extended(rs, new)
  BY <1>1, <1>2 DEF Log!Extended, Named, Valued
<1> QED BY <1>3 DEF new

LEMMA GrowsStep ==
  ASSUME StreamInv, NEW s \in Sessions, NEW y, Becomes(s, y), y # shared[s],
         counter' = counter, resyncing' \in [Sessions -> BOOLEAN],
         NEW rs \in Seq(Records), NEW st, Whole(shared[s], st, rs), rs # <<>>,
         y \in Shareds, y.snapshot = shared[s].snapshot,
         NEW r \in Records, \E q : Whole(y, q, Then(rs, Len(rs) - 1, r)),
         \/ rs[Len(rs)].values = <<>> /\ \E h \in Handles : r = Named(rs[Len(rs)], h)
         \/ \E v \in EventValues : r = Valued(rs[Len(rs)], v)
  PROVE  StreamInv' /\ Turned(s)
<1> DEFINE x == shared[s]
           new == Then(rs, Len(rs) - 1, r)
<1>1. x \in Shareds /\ counter' \in Nat \ {0} /\ Len(rs) - 1 \in 0..Len(rs)
  <2>1. Len(rs) \in Nat /\ Len(rs) # 0
    BY EmptySeq, LenProperties
  <2> QED BY <2>1 DEF StreamInv, StreamType
<1>2. new \in Seq(Records)
  BY <1>1, ThenIs
<1>3. Log!Extended(rs, new)
  BY Extends
<1>4. PICK q : Whole(y, q, new)
  OBVIOUS
<1> HIDE DEF new
<1>5. IsWhole(y) /\ ReadEvents(y.events) = new /\ ReadEvents(x.events) = rs
  BY <1>1, <1>2, <1>4, WholeReads DEF IsWhole
<1>6. /\ StreamInv' /\ (\A p \in Sessions \ {s} : Lists(shared)'[p] = Lists(shared)[p])
      /\ Lists(shared)[s] = rs /\ Lists(shared)'[s] = new /\ Held(shared)' = Held(shared)
  BY <1>1, <1>5, Puts
<1>7. Log!Writes(s)
  BY <1>3, <1>6 DEF Log!Writes, Lists, Held
<1> QED BY <1>6, <1>7 DEF Turned

LEMMA NamesStep ==
  ASSUME StreamInv, NEW s \in Sessions, EventSubject(s)
  PROVE  StreamInv' /\ (Turned(s) \/ UNCHANGED Log!logVars)
<1>1. PICK h \in Handles : Becomes(s, event_subject(shared[s], h))
  BY DEF EventSubject
<1> DEFINE x == shared[s]
           y == event_subject(x, h)
<1>2. x \in Shareds /\ h \in Nat /\ counter' = counter /\ resyncing' \in [Sessions -> BOOLEAN]
  BY StreamAssumption DEF StreamInv, StreamType, EventSubject
<1>3. PICK rs \in Seq(Records) : \E st : Whole(x, st, rs)
  BY DEF StreamInv, IsWhole
<1>4. PICK st : Whole(x, st, rs)
  BY <1>3
<1>5. CASE y = x
  BY <1>1, <1>2, <1>5, Refused
<1>6. CASE y # x
  <2> DEFINE r == Named(rs[Len(rs)], h)
  <2>1. /\ rs # <<>> /\ rs[Len(rs)].values = <<>> /\ y \in Shareds /\ y.snapshot = x.snapshot
        /\ \E q : Whole(y, q, Then(rs, Len(rs) - 1, r))
    BY <1>2, <1>4, <1>6, Names
  <2>2. r \in Records
    BY <1>2, <2>1, NamedType
  <2>3. Becomes(s, y)
    BY <1>1
  <2>4. \E k \in Handles : r = Named(rs[Len(rs)], k)
    OBVIOUS
  <2> HIDE DEF y, r
  <2> QED BY <1>2, <1>4, <1>6, <2>1, <2>2, <2>3, <2>4, GrowsStep
<1> QED BY <1>5, <1>6

LEMMA ValuesStep ==
  ASSUME StreamInv, NEW s \in Sessions, EventValue(s)
  PROVE  StreamInv' /\ (Turned(s) \/ UNCHANGED Log!logVars)
<1>1. PICK v \in EventValues : Becomes(s, event_value(shared[s], v))
  BY DEF EventValue
<1> DEFINE x == shared[s]
           y == event_value(x, v)
<1>2. x \in Shareds /\ v \in Nat \X Nat /\ counter' = counter /\ resyncing' \in [Sessions -> BOOLEAN]
  BY DEF StreamInv, StreamType, EventValue, EventValues
<1>3. PICK rs \in Seq(Records) : \E st : Whole(x, st, rs)
  BY DEF StreamInv, IsWhole
<1>4. PICK st : Whole(x, st, rs)
  BY <1>3
<1>5. CASE y = x
  BY <1>1, <1>2, <1>5, Refused
<1>6. CASE y # x
  <2> DEFINE r == Valued(rs[Len(rs)], v)
  <2>1. /\ rs # <<>> /\ y \in Shareds /\ y.snapshot = x.snapshot
        /\ \E q : Whole(y, q, Then(rs, Len(rs) - 1, r))
    BY <1>2, <1>4, <1>6, Values
  <2>2. r \in Records
    BY <1>2, <2>1, ValuedType
  <2>3. Becomes(s, y)
    BY <1>1
  <2>4. \E k \in EventValues : r = Valued(rs[Len(rs)], k)
    OBVIOUS
  <2> HIDE DEF y, r
  <2> QED BY <1>2, <1>4, <1>6, <2>1, <2>2, <2>3, <2>4, GrowsStep
<1> QED BY <1>5, <1>6

(* The stream is taken or discarded. *)
LEMMA Empties ==
  ASSUME StreamInv, NEW s \in Sessions, NEW y, Becomes(s, y), y \in Shareds,
         y.events = <<>>, y.event_values = None,
         counter' = counter, resyncing' \in [Sessions -> BOOLEAN],
         y.snapshot = shared[s].snapshot \/ y.snapshot = 0
  PROVE  StreamInv' /\ Turned(s)
<1>1. IsWhole(y) /\ ReadEvents(y.events) = <<>> /\ counter' \in Nat \ {0}
  BY EmptyWhole DEF StreamInv, StreamType
<1>2. /\ StreamInv' /\ (\A p \in Sessions \ {s} : Lists(shared)'[p] = Lists(shared)[p])
      /\ Lists(shared)'[s] = <<>>
      /\ Held(shared)' = [Held(shared) EXCEPT ![s] = y.snapshot]
      /\ (y.snapshot = shared[s].snapshot => Held(shared)' = Held(shared))
  BY <1>1, Puts
<1>3. CASE y.snapshot = shared[s].snapshot
  <2>1. Log!Writes(s)
    BY <1>2, <1>3 DEF Log!Writes, Lists, Held
  <2> QED BY <1>2, <2>1 DEF Turned
<1>4. CASE y.snapshot = 0
  <2>1. Log!WentBack(s)
    BY <1>2, <1>4 DEF Log!WentBack, Log!NoToken, Lists, Held
  <2> QED BY <1>2, <2>1 DEF Turned
<1> QED BY <1>3, <1>4

LEMMA EmptiesStep ==
  ASSUME StreamInv, NEW s \in Sessions, Drained(s) \/ Resync(s) \/ Reset(s)
  PROVE  StreamInv' /\ Turned(s)
<1> DEFINE x == shared[s]
<1>1. x \in Shareds /\ counter' = counter /\ resyncing' \in [Sessions -> BOOLEAN]
  BY DEF StreamInv, StreamType, Drained, Resync, Reset
<1>2. <<>> \in Words /\ None \in Nat
  BY EmptySeq DEF Words, None
<1>3. CASE Drained(s)
  <2> DEFINE y == drained(x)
  <2>1. y.events = <<>> /\ y.event_values = None /\ y.snapshot = x.snapshot
    BY <1>1 DEF drained, Shareds
  <2>2. y \in Shareds
    BY <1>1, <1>2 DEF drained, Shareds
  <2>3. Becomes(s, y)
    BY <1>3 DEF Drained
  <2> HIDE DEF y
  <2> QED BY <1>1, <2>1, <2>2, <2>3, Empties
<1>4. CASE Resync(s)
  <2> DEFINE y == cleared(x)
  <2>1. y.events = <<>> /\ y.event_values = None /\ y.snapshot = 0
    BY <1>1 DEF cleared, Shareds
  <2>2. y \in Shareds
    BY <1>1, <1>2 DEF cleared, Shareds
  <2>3. Becomes(s, y)
    BY <1>4 DEF Resync
  <2> HIDE DEF y
  <2> QED BY <1>1, <2>1, <2>2, <2>3, Empties
<1>5. CASE Reset(s)
  <2>1. Fresh.events = <<>> /\ Fresh.event_values = None /\ Fresh.snapshot = 0 /\ Fresh \in Shareds
    BY <1>2 DEF Fresh, Shareds
  <2>2. Becomes(s, Fresh)
    BY <1>5 DEF Reset
  <2> QED BY <1>1, <2>1, <2>2, Empties
<1> QED BY <1>3, <1>4, <1>5

(* Another token, or none, and the same words. *)
LEMMA Retoken ==
  ASSUME NEW x \in Shareds, IsWhole(x), NEW t \in Nat
  PROVE  /\ [x EXCEPT !.snapshot = t] \in Shareds /\ [x EXCEPT !.snapshot = t].events = x.events
         /\ [x EXCEPT !.snapshot = t].snapshot = t /\ IsWhole([x EXCEPT !.snapshot = t])
<1> DEFINE y == [x EXCEPT !.snapshot = t]
<1>1. y.events = x.events /\ y.event_values = x.event_values /\ y.snapshot = t
  BY DEF Shareds
<1>2. y \in Shareds
  BY DEF Shareds
<1>3. PICK rs \in Seq(Records) : \E st : Whole(x, st, rs)
  BY DEF IsWhole
<1>4. PICK st : Whole(x, st, rs)
  BY <1>3
<1> HIDE DEF y
<1>5. Whole(y, st, rs)
  BY <1>1, <1>4 DEF Whole
<1>6. IsWhole(y)
  BY <1>5 DEF IsWhole
<1> QED BY <1>1, <1>2, <1>6 DEF y

LEMMA IssueStep ==
  ASSUME StreamInv, NEW s \in Sessions, IssueToken(s)
  PROVE  StreamInv' /\ Turned(s)
<1> DEFINE x == shared[s]
           y == [x EXCEPT !.snapshot = counter]
<1>1. /\ x \in Shareds /\ IsWhole(x) /\ counter \in Nat \ {0} /\ LastToken \in Nat
      /\ resyncing' \in [Sessions -> BOOLEAN] /\ counter' = counter + 1
  BY StreamAssumption DEF StreamInv, StreamType, IssueToken
<1>2. counter < LastToken /\ Becomes(s, y)
  BY <1>1 DEF IssueToken, next_snapshot, None
<1>3. y \in Shareds /\ y.events = x.events /\ y.snapshot = counter /\ IsWhole(y)
  BY <1>1, Retoken
<1> HIDE DEF y
<1>4. counter' \in Nat \ {0} /\ counter \in 1..(LastToken - 1) /\ counter - 1 < counter
      /\ counter' - 1 = counter
  BY <1>1, <1>2
<1>5. /\ StreamInv' /\ (\A p \in Sessions \ {s} : Lists(shared)'[p] = Lists(shared)[p])
      /\ Lists(shared)'[s] = Lists(shared)[s]
      /\ Held(shared)' = [Held(shared) EXCEPT ![s] = counter]
  BY <1>1, <1>2, <1>3, <1>4, Puts
<1>6. Log!Hands(s)
  BY <1>4, <1>5 DEF Log!Hands, Lists, Held
<1> QED BY <1>5, <1>6 DEF Turned

LEMMA TakeStep ==
  ASSUME StreamInv, NEW s \in Sessions, TakeToken(s)
  PROVE  StreamInv' /\ Turned(s)
<1> DEFINE x == shared[s]
           y == [x EXCEPT !.snapshot = 0]
<1>1. /\ x \in Shareds /\ IsWhole(x) /\ counter' \in Nat \ {0} /\ counter' = counter
      /\ resyncing' \in [Sessions -> BOOLEAN] /\ Becomes(s, y)
  BY DEF StreamInv, StreamType, TakeToken
<1>2. x.snapshot # 0
  <2>1. PICK token \in 1..(counter - 1) : x.snapshot = token
    BY DEF TakeToken
  <2> QED BY <2>1
<1>3. y \in Shareds /\ y.events = x.events /\ y.snapshot = 0 /\ IsWhole(y)
  BY <1>1, Retoken
<1> HIDE DEF y
<1>4. /\ StreamInv' /\ (\A p \in Sessions \ {s} : Lists(shared)'[p] = Lists(shared)[p])
      /\ Lists(shared)'[s] = Lists(shared)[s] /\ Held(shared)[s] = x.snapshot
      /\ Held(shared)' = [Held(shared) EXCEPT ![s] = 0]
  BY <1>1, <1>3, Puts
<1>5. Log!Spends(s)
  BY <1>1, <1>2, <1>4 DEF Log!Spends, Log!NoToken, Lists, Held
<1> QED BY <1>4, <1>5 DEF Turned

(***************************************************************************)
(* Whatever ids, entities and limit, the streams of all sessions are whole *)
(* records at every moment.                                                *)
(***************************************************************************)
LEMMA StreamStarts == StreamInit => StreamInv /\ Log!LogInit
<1> SUFFICES ASSUME StreamInit PROVE StreamInv /\ Log!LogInit
  OBVIOUS
<1>1. Fresh \in Shareds /\ Fresh.events = <<>> /\ Fresh.event_values = None /\ Fresh.snapshot = 0
  BY EmptySeq DEF Fresh, Shareds, Words, None
<1>2. IsWhole(Fresh) /\ ReadEvents(Fresh.events) = <<>>
  BY <1>1, EmptyWhole
<1>3. shared = [s \in Sessions |-> Fresh] /\ counter = 1 /\ resyncing = [s \in Sessions |-> FALSE]
  BY DEF StreamInit
<1>4. StreamInv
  BY <1>1, <1>2, <1>3 DEF StreamInv, StreamType
<1>5. Log!LogInit
  BY <1>1, <1>2, <1>3 DEF Log!LogInit, Log!NoToken
<1> QED BY <1>4, <1>5

LEMMA StreamSteps ==
  ASSUME StreamInv, [StreamNext]_streamVars
  PROVE  StreamInv' /\ [Log!LogNext]_(Log!logVars)
<1>1. CASE UNCHANGED streamVars
  BY <1>1 DEF streamVars, StreamInv, StreamType, IsWhole, Whole, Log!logVars
<1>2. CASE StreamNext
  <2>1. PICK s \in Sessions :
          \/ Event(s) \/ EventSubject(s) \/ EventValue(s) \/ Drained(s)
          \/ Resync(s) \/ ResyncEvent(s) \/ Reset(s) \/ IssueToken(s) \/ TakeToken(s)
    BY <1>2 DEF StreamNext
  <2>2. CASE Event(s)
    <3>1. PICK id \in Ids : Becomes(s, event(shared[s], id))
      BY <2>2 DEF Event
    <3>2. counter' = counter /\ resyncing' \in [Sessions -> BOOLEAN]
      BY <2>2 DEF Event, StreamInv, StreamType
    <3> QED BY <3>1, <3>2, OpensStep, TurnedIsNext
  <2>3. CASE ResyncEvent(s)
    <3>1. Becomes(s, event(shared[s], ResyncLength)) /\ counter' = counter
          /\ resyncing' \in [Sessions -> BOOLEAN]
      BY <2>3 DEF ResyncEvent, StreamInv, StreamType
    <3> QED BY <3>1, OpensStep, TurnedIsNext
  <2>4. CASE EventSubject(s)
    BY <2>4, NamesStep, TurnedIsNext
  <2>5. CASE EventValue(s)
    BY <2>5, ValuesStep, TurnedIsNext
  <2>6. CASE Drained(s) \/ Resync(s) \/ Reset(s)
    BY <2>6, EmptiesStep, TurnedIsNext
  <2>7. CASE IssueToken(s)
    BY <2>7, IssueStep, TurnedIsNext
  <2>8. CASE TakeToken(s)
    BY <2>8, TakeStep, TurnedIsNext
  <2> QED BY <2>1, <2>2, <2>3, <2>4, <2>5, <2>6, <2>7, <2>8
<1> QED BY <1>1, <1>2

THEOREM StreamInvariant == StreamSpec => []StreamInv
<1>1. StreamInit => StreamInv
  BY StreamStarts
<1>2. StreamInv /\ [StreamNext]_streamVars => StreamInv'
  BY StreamSteps
<1> QED BY <1>1, <1>2, PTL DEF StreamSpec

(***************************************************************************)
(* What a host reads is the list of whole records the game wrote, and      *)
(* tokens are handed out and spent once (session.rs event, event_subject,  *)
(* event_value, drained, resync, snapshot_token).                          *)
(***************************************************************************)
THEOREM LogImplemented == StreamSpec => ImplementsLog
<1>1. StreamInit => Log!LogInit
  BY StreamStarts
<1>2. StreamInv /\ [StreamNext]_streamVars => [Log!LogNext]_(Log!logVars)
  BY StreamSteps
<1> QED BY <1>1, <1>2, StreamInvariant, PTL DEF StreamSpec, ImplementsLog, Log!LogSpec

=============================================================================
