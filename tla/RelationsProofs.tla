--------------------------- MODULE RelationsProofs ---------------------------
(***************************************************************************)
(* Proofs about Relations: for any relations, entities, limits and number  *)
(* of cycles, the two indexes of a table agree, cached walks are fresh, a  *)
(* set that has begun to displace rows completes, and, of games that change*)
(* nothing after an undo in the same turn, a failed turn and an undo return*)
(* every row to its place, rows keep their cardinality, what is saved can  *)
(* be read back, the walks to both sides of an entity agree, and the store *)
(* implements RowStore.                                                    *)
(***************************************************************************)
EXTENDS Relations, SequenceTheorems, WellFoundedInduction, FiniteSetTheorems, TLAPS

(***************************************************************************)
(* Facts about the list operators the model is built from, for lists of any*)
(* length: taking an element out and putting it back, and joining.         *)
(***************************************************************************)
(* Induction over the naturals, for a set of them. *)
LEMMA SetInduction ==
  ASSUME NEW A \in SUBSET Nat, 0 \in A, \A n \in A : n + 1 \in A
  PROVE  A = Nat
<1> DEFINE T == Nat \ A
<1>1. SUFFICES ASSUME T # {} PROVE FALSE
  OBVIOUS
<1>2. IsWellFoundedOn(OpToRel(<, Nat), Nat)
  BY NatLessThanWellFounded
<1>3. PICK x \in T : \A y \in T : ~(<<y, x>> \in OpToRel(<, Nat))
  BY <1>1, <1>2, WFMin
<1>4. \A y \in T : ~(y < x)
  BY <1>3 DEF OpToRel
<1>5. x # 0 /\ x - 1 \in Nat /\ x - 1 < x
  OBVIOUS
<1>6. x - 1 \in A
  BY <1>4, <1>5
<1>7. (x - 1) + 1 \in A
  BY <1>6
<1> QED BY <1>5, <1>7

(* A list of one element. *)
LEMMA OneElement ==
  ASSUME NEW S, NEW e \in S
  PROVE  <<e>> \in Seq(S) /\ Len(<<e>>) = 1 /\ <<e>>[1] = e
OBVIOUS

(* What a list is after its p-th element is taken out. *)
LEMMA RemoveAtProperties ==
  ASSUME NEW S, NEW s \in Seq(S), NEW p \in 1..Len(s)
  PROVE  /\ RemoveAt(s, p) \in Seq(S)
         /\ Len(RemoveAt(s, p)) = Len(s) - 1
         /\ \A n \in 1..Len(s) - 1 : RemoveAt(s, p)[n] = IF n < p THEN s[n] ELSE s[n + 1]
<1> DEFINE a == SubSeq(s, 1, p - 1)
           b == SubSeq(s, p + 1, Len(s))
<1>1. Len(s) \in Nat /\ p \in Int /\ 1 <= p /\ p <= Len(s)
  OBVIOUS
<1>2. /\ a \in Seq(S) /\ Len(a) = p - 1
      /\ \A n \in 1..p - 1 : a[n] = s[n]
  <2>1. \A n \in 1..p - 1 : s[n] \in S
    BY <1>1
  <2>2. 1 \in Int /\ p - 1 \in Int
    BY <1>1
  <2>3. /\ a \in Seq(S)
        /\ Len(a) = IF 1 <= p - 1 THEN (p - 1) - 1 + 1 ELSE 0
        /\ \A n \in 1..(p - 1) - 1 + 1 : a[n] = s[1 + n - 1]
    BY <2>1, <2>2, SubSeqProperties
  <2> HIDE DEF a
  <2> QED BY <2>3, <1>1
<1>3. /\ b \in Seq(S) /\ Len(b) = Len(s) - p
      /\ \A n \in 1..Len(s) - p : b[n] = s[p + n]
  <2>1. \A n \in p + 1..Len(s) : s[n] \in S
    BY <1>1
  <2>2. p + 1 \in Int /\ Len(s) \in Int
    BY <1>1
  <2>3. /\ b \in Seq(S)
        /\ Len(b) = IF p + 1 <= Len(s) THEN Len(s) - (p + 1) + 1 ELSE 0
        /\ \A n \in 1..Len(s) - (p + 1) + 1 : b[n] = s[(p + 1) + n - 1]
    BY <2>1, <2>2, SubSeqProperties
  <2> HIDE DEF b
  <2> QED BY <2>3, <1>1
<1>4. RemoveAt(s, p) = a \o b
  BY DEF RemoveAt
<1> HIDE DEF a, b
<1>5. /\ a \o b \in Seq(S)
      /\ Len(a \o b) = Len(a) + Len(b)
      /\ \A n \in 1..Len(a) + Len(b) :
           (a \o b)[n] = IF n <= Len(a) THEN a[n] ELSE b[n - Len(a)]
  BY <1>2, <1>3, ConcatProperties
<1>6. ASSUME NEW n \in 1..Len(s) - 1
      PROVE  (a \o b)[n] = IF n < p THEN s[n] ELSE s[n + 1]
  <2>1. (a \o b)[n] = IF n <= p - 1 THEN a[n] ELSE b[n - (p - 1)]
    BY <1>5, <1>2, <1>3, <1>1
  <2>2. CASE n < p
    BY <2>1, <2>2, <1>2, <1>1
  <2>3. CASE ~(n < p)
    <3>1. n - (p - 1) \in 1..Len(s) - p /\ p + (n - (p - 1)) = n + 1
      BY <2>3, <1>1
    <3> QED BY <3>1, <2>1, <2>3, <1>3, <1>1
  <2> QED BY <2>2, <2>3
<1> QED BY <1>1, <1>2, <1>3, <1>4, <1>5, <1>6

(* What a list is after e is put in at place p. *)
LEMMA InsertAtProperties ==
  ASSUME NEW S, NEW s \in Seq(S), NEW p \in 1..Len(s) + 1, NEW e \in S
  PROVE  /\ InsertAt(s, p, e) \in Seq(S)
         /\ Len(InsertAt(s, p, e)) = Len(s) + 1
         /\ \A n \in 1..p - 1 : InsertAt(s, p, e)[n] = s[n]
         /\ InsertAt(s, p, e)[p] = e
         /\ \A n \in p + 1..Len(s) + 1 : InsertAt(s, p, e)[n] = s[n - 1]
<1> DEFINE a == SubSeq(s, 1, p - 1)
           b == SubSeq(s, p, Len(s))
           c == a \o <<e>>
<1>1. Len(s) \in Nat /\ p \in Int /\ 1 <= p /\ p <= Len(s) + 1
  OBVIOUS
<1>2. /\ a \in Seq(S) /\ Len(a) = p - 1
      /\ \A n \in 1..p - 1 : a[n] = s[n]
  <2>1. \A n \in 1..p - 1 : s[n] \in S
    BY <1>1
  <2>2. 1 \in Int /\ p - 1 \in Int
    BY <1>1
  <2>3. /\ a \in Seq(S)
        /\ Len(a) = IF 1 <= p - 1 THEN (p - 1) - 1 + 1 ELSE 0
        /\ \A n \in 1..(p - 1) - 1 + 1 : a[n] = s[1 + n - 1]
    BY <2>1, <2>2, SubSeqProperties
  <2> HIDE DEF a
  <2> QED BY <2>3, <1>1
<1>3. /\ b \in Seq(S) /\ Len(b) = Len(s) - p + 1
      /\ \A n \in 1..Len(s) - p + 1 : b[n] = s[p + n - 1]
  <2>1. \A n \in p..Len(s) : s[n] \in S
    BY <1>1
  <2>2. p \in Int /\ Len(s) \in Int
    BY <1>1
  <2>3. /\ b \in Seq(S)
        /\ Len(b) = IF p <= Len(s) THEN Len(s) - p + 1 ELSE 0
        /\ \A n \in 1..Len(s) - p + 1 : b[n] = s[p + n - 1]
    BY <2>1, <2>2, SubSeqProperties
  <2> HIDE DEF b
  <2> QED BY <2>3, <1>1
<1>4. InsertAt(s, p, e) = c \o b
  BY DEF InsertAt
<1> HIDE DEF a, b
<1>5. /\ c \in Seq(S) /\ Len(c) = p
      /\ \A n \in 1..p : c[n] = IF n < p THEN s[n] ELSE e
  <2>1. <<e>> \in Seq(S) /\ Len(<<e>>) = 1 /\ <<e>>[1] = e
    OBVIOUS
  <2>2. /\ c \in Seq(S)
        /\ Len(c) = Len(a) + Len(<<e>>)
        /\ \A n \in 1..Len(a) + Len(<<e>>) :
             c[n] = IF n <= Len(a) THEN a[n] ELSE <<e>>[n - Len(a)]
    BY <1>2, <2>1, ConcatProperties
  <2> HIDE DEF c
  <2>3. ASSUME NEW n \in 1..p PROVE c[n] = IF n < p THEN s[n] ELSE e
    <3>1. CASE n < p
      BY <3>1, <2>1, <2>2, <1>1, <1>2
    <3>2. CASE n = p
      <4>1. n - (p - 1) = 1 /\ ~(n <= p - 1)
        BY <3>2, <1>1
      <4> QED BY <4>1, <3>2, <2>1, <2>2, <1>1, <1>2
    <3> QED BY <3>1, <3>2, <1>1
  <2> QED BY <2>1, <2>2, <2>3, <1>1, <1>2
<1> HIDE DEF c
<1> DEFINE d == c \o b
<1>6. /\ d \in Seq(S)
      /\ Len(d) = Len(c) + Len(b)
      /\ \A n \in 1..Len(c) + Len(b) : d[n] = IF n <= Len(c) THEN c[n] ELSE b[n - Len(c)]
  BY <1>5, <1>3, ConcatProperties
<1> HIDE DEF d
<1>7. ASSUME NEW n \in 1..Len(s) + 1
      PROVE  d[n] = IF n <= p THEN c[n] ELSE b[n - p]
  BY <1>6, <1>5, <1>3, <1>1
<1>8. \A n \in 1..p - 1 : d[n] = s[n]
  BY <1>7, <1>5, <1>1
<1>9. d[p] = e
  BY <1>7, <1>5, <1>1
<1>10. ASSUME NEW n \in p + 1..Len(s) + 1 PROVE d[n] = s[n - 1]
  <2>1. n - p \in 1..Len(s) - p + 1 /\ p + (n - p) - 1 = n - 1
    BY <1>1
  <2>2. d[n] = b[n - p]
    BY <1>7, <1>1
  <2>3. b[n - p] = s[p + (n - p) - 1]
    BY <2>1, <1>3
  <2> QED BY <2>1, <2>2, <2>3
<1>11. Len(d) = Len(s) + 1
  BY <1>6, <1>5, <1>3, <1>1
<1>12. InsertAt(s, p, e) = d
  BY <1>4 DEF d
<1> QED BY <1>6, <1>8, <1>9, <1>10, <1>11, <1>12, Zenon

(* The element goes back where it was taken from. *)
LEMMA InsertRemoved ==
  ASSUME NEW S, NEW s \in Seq(S), NEW p \in 1..Len(s)
  PROVE  InsertAt(RemoveAt(s, p), p, s[p]) = s
<1> DEFINE r == RemoveAt(s, p)
           t == InsertAt(r, p, s[p])
<1>1. Len(s) \in Nat /\ p \in Int /\ 1 <= p /\ p <= Len(s) /\ s[p] \in S
  OBVIOUS
<1>2. /\ r \in Seq(S) /\ Len(r) = Len(s) - 1
      /\ \A n \in 1..Len(s) - 1 : r[n] = IF n < p THEN s[n] ELSE s[n + 1]
  BY ONLY s \in Seq(S), p \in 1..Len(s), RemoveAtProperties
<1>3. p \in 1..Len(r) + 1
  BY <1>1, <1>2
<1> HIDE DEF r
<1>4. /\ t \in Seq(S) /\ Len(t) = Len(r) + 1
      /\ \A n \in 1..p - 1 : t[n] = r[n]
      /\ t[p] = s[p]
      /\ \A n \in p + 1..Len(r) + 1 : t[n] = r[n - 1]
  BY ONLY <1>1, <1>2, <1>3, InsertAtProperties
<1> HIDE DEF t
<1>5. ASSUME NEW n \in 1..Len(s) PROVE t[n] = s[n]
  <2>2. CASE n < p
    <3>1. n \in 1..p - 1 /\ n \in 1..Len(s) - 1
      BY <2>2, <1>1
    <3>2. t[n] = r[n]
      BY <3>1, <1>4, Zenon
    <3>3. r[n] = s[n]
      BY <3>1, <2>2, <1>2
    <3> QED BY <3>2, <3>3
  <2>3. CASE n = p
    BY <2>3, <1>4
  <2>4. CASE n > p
    <3>1. n - 1 \in 1..Len(s) - 1 /\ (n - 1) + 1 = n /\ ~(n - 1 < p)
      BY <2>4, <1>1
    <3>2. t[n] = r[n - 1]
      BY <2>4, <1>1, <1>2, <1>4
    <3> QED BY <3>1, <3>2, <1>2
  <2> QED BY <2>2, <2>3, <2>4, <1>1
<1>6. Len(t) = Len(s)
  BY <1>1, <1>2, <1>4
<1> QED BY <1>4, <1>5, <1>6, SeqEqual DEF t, r

(* Taking an element out of a list without repetitions leaves the others,  *)
(* once each.                                                              *)
LEMMA RemoveAtDistinct ==
  ASSUME NEW S, NEW s \in Seq(S), NEW p \in 1..Len(s), IsInjective(s)
  PROVE  /\ IsInjective(RemoveAt(s, p))
         /\ \A e : Contains(RemoveAt(s, p), e) <=> Contains(s, e) /\ e # s[p]
<1> DEFINE r == RemoveAt(s, p)
<1>1. Len(s) \in Nat /\ p \in Int /\ 1 <= p /\ p <= Len(s)
  OBVIOUS
<1>2. /\ r \in Seq(S) /\ Len(r) = Len(s) - 1
      /\ \A n \in 1..Len(s) - 1 : r[n] = IF n < p THEN s[n] ELSE s[n + 1]
  BY ONLY s \in Seq(S), p \in 1..Len(s), RemoveAtProperties
<1> HIDE DEF r
<1>3. \A m, n \in 1..Len(s) : s[m] = s[n] => m = n
  BY DEF IsInjective
<1>4. ASSUME NEW m \in 1..Len(s) - 1, NEW n \in 1..Len(s) - 1, r[m] = r[n]
      PROVE  m = n
  BY <1>1, <1>2, <1>3, <1>4
<1>5. DOMAIN r = 1..Len(s) - 1
  BY <1>2
<1>6. IsInjective(r)
  BY <1>4, <1>5 DEF IsInjective
<1>7. ASSUME NEW e, Contains(r, e) PROVE Contains(s, e) /\ e # s[p]
  <2>1. PICK n \in 1..Len(s) - 1 : r[n] = e
    BY <1>2, <1>7 DEF Contains
  <2> QED BY <2>1, <1>1, <1>2, <1>3 DEF Contains
<1>8. ASSUME NEW e, Contains(s, e), e # s[p] PROVE Contains(r, e)
  <2>1. PICK n \in 1..Len(s) : s[n] = e
    BY <1>8 DEF Contains
  <2>2. CASE n < p
    <3>1. n \in 1..Len(r) /\ r[n] = e
      BY <2>1, <2>2, <1>1, <1>2
    <3> QED BY <3>1 DEF Contains
  <2>3. CASE n > p
    <3>1. n - 1 \in 1..Len(r) /\ r[n - 1] = e
      BY <2>1, <2>3, <1>1, <1>2
    <3> QED BY <3>1 DEF Contains
  <2> QED BY <2>1, <2>2, <2>3, <1>1, <1>8
<1> QED BY <1>6, <1>7, <1>8 DEF r

(* Putting in an element that a list without repetitions does not have     *)
(* leaves it without repetitions.                                          *)
LEMMA InsertAtDistinct ==
  ASSUME NEW S, NEW s \in Seq(S), NEW p \in 1..Len(s) + 1, NEW e \in S,
         IsInjective(s), ~Contains(s, e)
  PROVE  /\ IsInjective(InsertAt(s, p, e))
         /\ \A f : Contains(InsertAt(s, p, e), f) <=> Contains(s, f) \/ f = e
<1> DEFINE t == InsertAt(s, p, e)
<1>1. Len(s) \in Nat /\ p \in Int /\ 1 <= p /\ p <= Len(s) + 1
  OBVIOUS
<1> HIDE DEF t
<1>2. /\ t \in Seq(S) /\ Len(t) = Len(s) + 1
      /\ \A n \in 1..p - 1 : t[n] = s[n]
      /\ t[p] = e
      /\ \A n \in p + 1..Len(s) + 1 : t[n] = s[n - 1]
  <2>1. InsertAt(s, p, e) \in Seq(S)
    BY ONLY s \in Seq(S), p \in 1..Len(s) + 1, e \in S, InsertAtProperties
  <2>2. Len(InsertAt(s, p, e)) = Len(s) + 1
    BY ONLY s \in Seq(S), p \in 1..Len(s) + 1, e \in S, InsertAtProperties
  <2>3. \A n \in 1..p - 1 : InsertAt(s, p, e)[n] = s[n]
    BY ONLY s \in Seq(S), p \in 1..Len(s) + 1, e \in S, InsertAtProperties
  <2>4. InsertAt(s, p, e)[p] = e
    BY ONLY s \in Seq(S), p \in 1..Len(s) + 1, e \in S, InsertAtProperties
  <2>5. \A n \in p + 1..Len(s) + 1 : InsertAt(s, p, e)[n] = s[n - 1]
    BY ONLY s \in Seq(S), p \in 1..Len(s) + 1, e \in S, InsertAtProperties
  <2> QED BY <2>1, <2>2, <2>3, <2>4, <2>5 DEF t
<1>3. \A m, n \in 1..Len(s) : s[m] = s[n] => m = n
  BY DEF IsInjective
<1>4. \A n \in 1..Len(s) : s[n] # e
  BY DEF Contains
<1>5. \A n \in 1..Len(s) + 1 : n # p => t[n] # e
  BY <1>1, <1>2, <1>4
<1>6. ASSUME NEW m \in 1..Len(s) + 1, NEW n \in 1..Len(s) + 1, t[m] = t[n]
      PROVE  m = n
  <2>1. t[p] = e /\ p \in 1..Len(s) + 1
    BY <1>1, <1>2
  <2>2. CASE m = p \/ n = p
    BY <2>1, <2>2, <1>5, <1>6
  <2>3. CASE m # p /\ n # p
    <3>1. \A k \in 1..Len(s) + 1 : k < p => k \in 1..Len(s) /\ t[k] = s[k]
      BY <1>1, <1>2
    <3>2. \A k \in 1..Len(s) + 1 : k > p => k - 1 \in 1..Len(s) /\ t[k] = s[k - 1]
      BY <1>1, <1>2
    <3>3. m \in Int /\ n \in Int /\ (m < p \/ m > p) /\ (n < p \/ n > p)
      BY <2>3, <1>1
    <3>4. CASE m < p /\ n < p
      BY <3>1, <3>4, <1>3, <1>6
    <3>5. CASE m > p /\ n > p
      <4>1. m - 1 = n - 1
        BY <3>2, <3>5, <1>3, <1>6
      <4> QED BY <4>1, <3>3
    <3>6. CASE m < p /\ n > p
      <4>1. m = n - 1
        BY <3>1, <3>2, <3>6, <1>3, <1>6
      <4> QED BY <4>1, <3>3, <3>6, <1>1
    <3>7. CASE m > p /\ n < p
      <4>1. n = m - 1
        BY <3>1, <3>2, <3>7, <1>3, <1>6
      <4> QED BY <4>1, <3>3, <3>7, <1>1
    <3> QED BY <3>3, <3>4, <3>5, <3>6, <3>7
  <2> QED BY <2>2, <2>3
<1>7. IsInjective(t)
  BY <1>2, <1>6 DEF IsInjective
<1>8. ASSUME NEW f, Contains(t, f) PROVE Contains(s, f) \/ f = e
  <2>1. PICK n \in 1..Len(s) + 1 : t[n] = f
    BY <1>2, <1>8 DEF Contains
  <2>2. CASE n < p
    BY <2>1, <2>2, <1>1, <1>2 DEF Contains
  <2>3. CASE n > p
    <3>1. n - 1 \in 1..Len(s) /\ s[n - 1] = f
      BY <2>1, <2>3, <1>1, <1>2
    <3> QED BY <3>1 DEF Contains
  <2> QED BY <2>1, <2>2, <2>3, <1>1, <1>2
<1>9. ASSUME NEW f, Contains(s, f) \/ f = e PROVE Contains(t, f)
  <2>1. CASE f = e
    <3>1. p \in 1..Len(t) /\ t[p] = e
      BY <1>1, <1>2
    <3> QED BY <3>1, <2>1 DEF Contains
  <2>2. CASE Contains(s, f)
    <3>1. PICK n \in 1..Len(s) : s[n] = f
      BY <2>2 DEF Contains
    <3>2. CASE n < p
      <4>1. n \in 1..Len(t) /\ t[n] = f
        BY <3>1, <3>2, <1>1, <1>2
      <4> QED BY <4>1 DEF Contains
    <3>3. CASE ~(n < p)
      <4>1. n + 1 \in 1..Len(t) /\ n + 1 \in p + 1..Len(s) + 1 /\ (n + 1) - 1 = n
        BY <3>3, <1>1, <1>2
      <4>2. t[n + 1] = s[(n + 1) - 1]
        BY <4>1, <1>2, Zenon
      <4> QED BY <3>1, <4>1, <4>2 DEF Contains
    <3> QED BY <3>2, <3>3
  <2> QED BY <1>9, <2>1, <2>2
<1> QED BY <1>7, <1>8, <1>9 DEF t

(* The same for an element put in at the end, which is what Append does.   *)
LEMMA AppendIsInsert ==
  ASSUME NEW S, NEW s \in Seq(S), NEW e \in S
  PROVE  /\ Append(s, e) = InsertAt(s, Len(s) + 1, e)
         /\ RemoveAt(Append(s, e), Len(s) + 1) = s
<1> DEFINE a == Append(s, e)
           t == InsertAt(s, Len(s) + 1, e)
           r == RemoveAt(a, Len(s) + 1)
<1>1. Len(s) \in Nat
  OBVIOUS
<1>2. /\ a \in Seq(S) /\ Len(a) = Len(s) + 1
      /\ \A n \in 1..Len(s) + 1 : a[n] = IF n = Len(s) + 1 THEN e ELSE s[n]
  OBVIOUS
<1> HIDE DEF a
<1>3. /\ t \in Seq(S) /\ Len(t) = Len(s) + 1
      /\ \A n \in 1..Len(s) + 1 - 1 : t[n] = s[n]
      /\ t[Len(s) + 1] = e
  <2> DEFINE p == Len(s) + 1
  <2>1. p \in 1..Len(s) + 1
    BY <1>1
  <2> HIDE DEF p
  <2>2. /\ InsertAt(s, p, e) \in Seq(S) /\ Len(InsertAt(s, p, e)) = Len(s) + 1
        /\ \A n \in 1..p - 1 : InsertAt(s, p, e)[n] = s[n]
        /\ InsertAt(s, p, e)[p] = e
    BY ONLY <2>1, s \in Seq(S), e \in S, InsertAtProperties
  <2>3. \A n \in 1..Len(s) + 1 - 1 : InsertAt(s, p, e)[n] = s[n]
    BY <2>2 DEF p
  <2> QED BY <2>2, <2>3 DEF p
<1> HIDE DEF t
<1>4. a = t
  <2>1. \A n \in 1..Len(a) : a[n] = t[n]
    BY <1>1, <1>2, <1>3
  <2> QED BY <2>1, <1>2, <1>3, SeqEqual
<1>5. /\ r \in Seq(S) /\ Len(r) = Len(a) - 1
      /\ \A n \in 1..Len(a) - 1 : r[n] = IF n < Len(s) + 1 THEN a[n] ELSE a[n + 1]
  <2>1. Len(s) + 1 \in 1..Len(a)
    BY <1>1, <1>2
  <2> QED BY ONLY <2>1, <1>2, RemoveAtProperties
<1> HIDE DEF r
<1>6. r = s
  <2>1. Len(r) = Len(s)
    BY <1>1, <1>2, <1>5
  <2>2. \A n \in 1..Len(r) : r[n] = s[n]
    BY <2>1, <1>1, <1>2, <1>5
  <2> QED BY <2>1, <2>2, <1>5, SeqEqual
<1> QED BY <1>4, <1>6 DEF a, t, r

(* Joining lists of elements of S gives a list of elements of S. *)
LEMMA FlattenType ==
  ASSUME NEW S, NEW n \in Nat, NEW seqs \in [1..n -> Seq(S)]
  PROVE  FlattenSeq(seqs) \in Seq(S)
<1> DEFINE Step(g, i) == IF i = 1 THEN seqs[i] ELSE g[i - 1] \o seqs[i]
           Joins(g, m) == \A i \in 1..m : g[i] = Step(g, i)
           A == {m \in Nat : m <= n => \E g \in [1..m -> Seq(S)] : Joins(g, m)}
<1>1. 0 \in A
  <2>1. [i \in 1..0 |-> <<>>] \in [1..0 -> Seq(S)]
    OBVIOUS
  <2>2. Joins([i \in 1..0 |-> <<>>], 0)
    OBVIOUS
  <2> QED BY <2>1, <2>2
<1>2. ASSUME NEW m \in A PROVE m + 1 \in A
  <2>1. SUFFICES ASSUME m + 1 <= n
                 PROVE  \E g \in [1..m + 1 -> Seq(S)] : Joins(g, m + 1)
    <3> HIDE DEF Joins
    <3> QED OBVIOUS
  <2>2. PICK g \in [1..m -> Seq(S)] : Joins(g, m)
    <3> HIDE DEF Joins
    <3> QED BY <2>1
  <2> DEFINE h == [i \in 1..m + 1 |-> IF i <= m THEN g[i] ELSE Step(g, i)]
  <2>3. m \in Nat /\ n \in Nat
    OBVIOUS
  <2>4. seqs[m + 1] \in Seq(S)
    BY <2>1, <2>3
  <2>5. Step(g, m + 1) \in Seq(S)
    <3>1. CASE m = 0
      BY <3>1, <2>4
    <3>2. CASE m # 0
      <4>1. g[m] \in Seq(S)
        BY <3>2, <2>3
      <4> QED BY <4>1, <2>4, <2>3, <3>2, ConcatProperties
    <3> QED BY <3>1, <3>2
  <2>6. h \in [1..m + 1 -> Seq(S)]
    <3> HIDE DEF Step
    <3>1. ASSUME NEW i \in 1..m + 1
          PROVE  (IF i <= m THEN g[i] ELSE Step(g, i)) \in Seq(S)
      BY <2>3, <2>5
    <3> QED BY <3>1
  <2>7. ASSUME NEW i \in 1..m + 1 PROVE h[i] = Step(h, i)
    <3>1. CASE i <= m
      <4>1. h[i] = g[i]
        <5> HIDE DEF Step
        <5> QED BY <3>1, <2>3
      <4>2. i # 1 => h[i - 1] = g[i - 1]
        <5> HIDE DEF Step
        <5> QED BY <3>1, <2>3
      <4>3. g[i] = Step(g, i)
        <5> HIDE DEF Step
        <5> QED BY <3>1, <2>2, <2>3
      <4> HIDE DEF h
      <4> QED BY <4>1, <4>2, <4>3
    <3>2. CASE i = m + 1
      <4>1. h[i] = Step(g, i)
        <5> HIDE DEF Step
        <5> QED BY <3>2, <2>3
      <4>2. i # 1 => h[i - 1] = g[i - 1]
        <5> HIDE DEF Step
        <5> QED BY <3>2, <2>3
      <4> QED BY <4>1, <4>2
    <3> QED BY <3>1, <3>2, <2>3
  <2>8. Joins(h, m + 1)
    BY <2>7
  <2> HIDE DEF h, Joins
  <2> QED BY <2>6, <2>8
<1>3. A = Nat
  <2>1. A \in SUBSET Nat
    OBVIOUS
  <2> HIDE DEF A
  <2> QED BY <1>1, <1>2, <2>1, SetInduction
<1>4. PICK g \in [1..n -> Seq(S)] : Joins(g, n)
  <2> HIDE DEF Joins
  <2> QED BY <1>3
<1>5. CASE n = 0
  BY <1>5 DEF FlattenSeq
<1>6. CASE n # 0
  <2> DEFINE f == CHOOSE f : f = [i \in 1..Len(seqs) |-> Step(f, i)]
  <2>1. Len(seqs) = n
    OBVIOUS
  <2>2. g = [i \in 1..Len(seqs) |-> Step(g, i)]
    <3> HIDE DEF Step
    <3> QED BY <1>4, <2>1
  <2>3. f = [i \in 1..Len(seqs) |-> Step(f, i)]
    <3> HIDE DEF Step
    <3> QED BY <2>2
  <2>4. FlattenSeq(seqs) = f[n]
    BY <1>6, <2>1 DEF FlattenSeq
  <2> HIDE DEF f
  <2> DEFINE B == {m \in Nat : m \in 1..n => f[m] \in Seq(S)}
  <2>5. 0 \in B
    OBVIOUS
  <2>6. ASSUME NEW m \in B PROVE m + 1 \in B
    <3>1. SUFFICES ASSUME m + 1 \in 1..n PROVE f[m + 1] \in Seq(S)
      OBVIOUS
    <3>2. f[m + 1] = Step(f, m + 1)
      <4> HIDE DEF Step
      <4> QED BY <2>1, <2>3, <3>1
    <3>3. seqs[m + 1] \in Seq(S)
      BY <3>1
    <3>4. m # 0 => f[m] \in Seq(S)
      BY <3>1
    <3> QED BY <3>2, <3>3, <3>4, ConcatProperties
  <2>7. B = Nat
    <3>1. B \in SUBSET Nat
      OBVIOUS
    <3> HIDE DEF B
    <3> QED BY <2>5, <2>6, <3>1, SetInduction
  <2>8. n \in B
    BY <2>7
  <2>9. n \in 1..n
    BY <1>6
  <2> QED BY <2>4, <2>8, <2>9
<1> QED BY <1>5, <1>6

(***************************************************************************)
(* Rows                                                                    *)
(***************************************************************************)
MirroredIn(r) ==
  \A i \in Tables : \A x, y \in Entities :
    /\ Contains(r[1][i][x], y) <=> Contains(r[2][i][y], x)
    /\ IsInjective(r[1][i][x]) /\ IsInjective(r[2][i][y])

(* The rows whose two indexes agree. *)
GoodRows == {r \in Rows : MirroredIn(r)}

(* The rows with the partners of x and those of y in table i replaced. *)
Replace(r, i, x, f, y, g) ==
  <<[r[1] EXCEPT ![i] = [r[1][i] EXCEPT ![x] = f]],
    [r[2] EXCEPT ![i] = [r[2][i] EXCEPT ![y] = g]]>>

LEMMA RowsShape ==
  ASSUME NEW r \in Rows
  PROVE  /\ r = <<r[1], r[2]>>
         /\ r[1] \in [Tables -> [Entities -> Seq(Entities)]]
         /\ r[2] \in [Tables -> [Entities -> Seq(Entities)]]
BY DEF Rows

LEMMA ReplaceType ==
  ASSUME NEW r \in Rows, NEW i \in Tables, NEW x \in Entities, NEW y \in Entities,
         NEW f \in Seq(Entities), NEW g \in Seq(Entities)
  PROVE  /\ Replace(r, i, x, f, y, g) \in Rows
         /\ Replace(r, i, x, f, y, g)[1][i][x] = f
         /\ Replace(r, i, x, f, y, g)[2][i][y] = g
         /\ \A j \in Tables : j # i => Replace(r, i, x, f, y, g)[1][j] = r[1][j]
         /\ \A j \in Tables : j # i => Replace(r, i, x, f, y, g)[2][j] = r[2][j]
         /\ \A e \in Entities : e # x => Replace(r, i, x, f, y, g)[1][i][e] = r[1][i][e]
         /\ \A e \in Entities : e # y => Replace(r, i, x, f, y, g)[2][i][e] = r[2][i][e]
<1> DEFINE a == [r[1] EXCEPT ![i] = [r[1][i] EXCEPT ![x] = f]]
           b == [r[2] EXCEPT ![i] = [r[2][i] EXCEPT ![y] = g]]
<1>1. /\ r[1] \in [Tables -> [Entities -> Seq(Entities)]]
      /\ r[2] \in [Tables -> [Entities -> Seq(Entities)]]
  BY RowsShape
<1>2. a \in [Tables -> [Entities -> Seq(Entities)]]
  <2>1. [r[1][i] EXCEPT ![x] = f] \in [Entities -> Seq(Entities)]
    BY <1>1
  <2> QED BY <1>1, <2>1
<1>3. b \in [Tables -> [Entities -> Seq(Entities)]]
  <2>1. [r[2][i] EXCEPT ![y] = g] \in [Entities -> Seq(Entities)]
    BY <1>1
  <2> QED BY <1>1, <2>1
<1>4. /\ a[i][x] = f
      /\ \A j \in Tables : j # i => a[j] = r[1][j]
      /\ \A e \in Entities : e # x => a[i][e] = r[1][i][e]
  BY <1>1
<1>5. /\ b[i][y] = g
      /\ \A j \in Tables : j # i => b[j] = r[2][j]
      /\ \A e \in Entities : e # y => b[i][e] = r[2][i][e]
  BY <1>1
<1>6. Replace(r, i, x, f, y, g) = <<a, b>>
  BY DEF Replace
<1> HIDE DEF a, b
<1> QED BY <1>2, <1>3, <1>4, <1>5, <1>6 DEF Rows

LEMMA RowsEqual ==
  ASSUME NEW r \in Rows, NEW t \in Rows,
         \A j \in Tables : \A e \in Entities : r[1][j][e] = t[1][j][e] /\ r[2][j][e] = t[2][j][e]
  PROVE  r = t
<1>1. /\ r = <<r[1], r[2]>> /\ t = <<t[1], t[2]>>
      /\ r[1] \in [Tables -> [Entities -> Seq(Entities)]]
      /\ r[2] \in [Tables -> [Entities -> Seq(Entities)]]
      /\ t[1] \in [Tables -> [Entities -> Seq(Entities)]]
      /\ t[2] \in [Tables -> [Entities -> Seq(Entities)]]
  BY RowsShape
<1>2. \A j \in Tables : r[1][j] = t[1][j]
  BY <1>1
<1>3. \A j \in Tables : r[2][j] = t[2][j]
  BY <1>1
<1>4. r[1] = t[1] /\ r[2] = t[2]
  BY <1>1, <1>2, <1>3
<1> QED BY <1>1, <1>4

(* Replacing the partners of both and then putting the old ones back. *)
LEMMA ReplaceBack ==
  ASSUME NEW r \in Rows, NEW i \in Tables, NEW x \in Entities, NEW y \in Entities,
         NEW f \in Seq(Entities), NEW g \in Seq(Entities)
  PROVE  Replace(Replace(r, i, x, f, y, g), i, x, r[1][i][x], y, r[2][i][y]) = r
<1> DEFINE s == Replace(r, i, x, f, y, g)
           a == r[1][i][x]
           b == r[2][i][y]
           t == Replace(s, i, x, a, y, b)
<1>1. a \in Seq(Entities) /\ b \in Seq(Entities)
  BY RowsShape
<1>2. /\ s \in Rows
      /\ \A j \in Tables : j # i => s[1][j] = r[1][j]
      /\ \A j \in Tables : j # i => s[2][j] = r[2][j]
      /\ \A e \in Entities : e # x => s[1][i][e] = r[1][i][e]
      /\ \A e \in Entities : e # y => s[2][i][e] = r[2][i][e]
  BY ReplaceType
<1>3. a = r[1][i][x] /\ b = r[2][i][y]
  OBVIOUS
<1> HIDE DEF s, a, b
<1>4. /\ t \in Rows
      /\ t[1][i][x] = a /\ t[2][i][y] = b
      /\ \A j \in Tables : j # i => t[1][j] = s[1][j]
      /\ \A j \in Tables : j # i => t[2][j] = s[2][j]
      /\ \A e \in Entities : e # x => t[1][i][e] = s[1][i][e]
      /\ \A e \in Entities : e # y => t[2][i][e] = s[2][i][e]
  BY <1>1, <1>2, ReplaceType
<1> HIDE DEF t
<1>5. \A j \in Tables : \A e \in Entities : t[1][j][e] = r[1][j][e] /\ t[2][j][e] = r[2][j][e]
  BY <1>2, <1>3, <1>4
<1>6. t = r
  BY <1>4, <1>5, RowsEqual
<1> QED BY <1>6 DEF s, t, a, b

(* Rows stay mirrored when one row, and nothing else, comes or goes. *)
LEMMA ReplaceGood ==
  ASSUME NEW r \in GoodRows, NEW i \in Tables, NEW x \in Entities, NEW y \in Entities,
         NEW f \in Seq(Entities), NEW g \in Seq(Entities),
         IsInjective(f), IsInjective(g),
         Contains(f, y) <=> Contains(g, x),
         \A e \in Entities : e # y => (Contains(f, e) <=> Contains(r[1][i][x], e)),
         \A e \in Entities : e # x => (Contains(g, e) <=> Contains(r[2][i][y], e))
  PROVE  Replace(r, i, x, f, y, g) \in GoodRows
<1> DEFINE s == Replace(r, i, x, f, y, g)
<1>1. r \in Rows /\ MirroredIn(r)
  BY DEF GoodRows
<1>2. /\ s \in Rows /\ s[1][i][x] = f /\ s[2][i][y] = g
      /\ \A j \in Tables : j # i => s[1][j] = r[1][j]
      /\ \A j \in Tables : j # i => s[2][j] = r[2][j]
      /\ \A e \in Entities : e # x => s[1][i][e] = r[1][i][e]
      /\ \A e \in Entities : e # y => s[2][i][e] = r[2][i][e]
  BY <1>1, ReplaceType
<1> HIDE DEF s
<1>3. ASSUME NEW j \in Tables, NEW u \in Entities, NEW v \in Entities
      PROVE  /\ Contains(s[1][j][u], v) <=> Contains(s[2][j][v], u)
             /\ IsInjective(s[1][j][u]) /\ IsInjective(s[2][j][v])
  <2>1. /\ Contains(r[1][j][u], v) <=> Contains(r[2][j][v], u)
        /\ IsInjective(r[1][j][u]) /\ IsInjective(r[2][j][v])
    BY <1>1 DEF MirroredIn
  <2>2. CASE j # i
    BY <2>1, <2>2, <1>2
  <2>3. CASE j = i /\ u # x /\ v # y
    BY <2>1, <2>3, <1>2
  <2>4. CASE j = i /\ u = x /\ v # y
    BY <2>1, <2>4, <1>2
  <2>5. CASE j = i /\ u # x /\ v = y
    BY <2>1, <2>5, <1>2
  <2>6. CASE j = i /\ u = x /\ v = y
    BY <2>6, <1>2
  <2> QED BY <2>2, <2>3, <2>4, <2>5, <2>6
<1> QED BY <1>2, <1>3 DEF MirroredIn, GoodRows, s

(* Where a partner is, and the list without it. *)
LEMMA PositionOf ==
  ASSUME NEW s \in Seq(Entities), NEW x, Contains(s, x)
  PROVE  Position(s, x) \in 1..Len(s) /\ s[Position(s, x)] = x
BY DEF Position, Contains

LEMMA WithoutProperties ==
  ASSUME NEW s \in Seq(Entities), NEW x \in Entities, Contains(s, x), IsInjective(s)
  PROVE  /\ Without(s, x) \in Seq(Entities)
         /\ IsInjective(Without(s, x))
         /\ \A e : Contains(Without(s, x), e) <=> Contains(s, e) /\ e # x
         /\ PutAt(Without(s, x), Position(s, x), x) = s
<1> DEFINE p == Position(s, x)
           w == Without(s, x)
<1>1. p \in 1..Len(s) /\ s[p] = x
  BY PositionOf
<1>2. w = RemoveAt(s, p)
  BY DEF Without
<1> HIDE DEF p, w
<1>3. w \in Seq(Entities) /\ Len(w) = Len(s) - 1
  BY <1>1, <1>2, RemoveAtProperties
<1>4. IsInjective(w) /\ \A e : Contains(w, e) <=> Contains(s, e) /\ e # x
  BY <1>1, <1>2, RemoveAtDistinct
<1>5. (IF p <= Len(w) THEN p ELSE Len(w) + 1) = p
  BY <1>1, <1>3
<1>6. PutAt(w, p, x) = InsertAt(w, p, x)
  BY <1>5 DEF PutAt
<1>7. InsertAt(w, p, x) = s
  BY <1>1, <1>2, InsertRemoved
<1> QED BY <1>3, <1>4, <1>6, <1>7 DEF p, w

LEMMA PutAtProperties ==
  ASSUME NEW s \in Seq(Entities), NEW x \in Entities, ~Contains(s, x), IsInjective(s),
         NEW n \in Nat \ {0}
  PROVE  /\ PutAt(s, n, x) \in Seq(Entities)
         /\ IsInjective(PutAt(s, n, x))
         /\ \A e : Contains(PutAt(s, n, x), e) <=> Contains(s, e) \/ e = x
<1> DEFINE p == IF n <= Len(s) THEN n ELSE Len(s) + 1
<1>1. p \in 1..Len(s) + 1
  OBVIOUS
<1>2. PutAt(s, n, x) = InsertAt(s, p, x)
  BY DEF PutAt
<1> HIDE DEF p
<1>3. InsertAt(s, p, x) \in Seq(Entities)
  BY ONLY <1>1, s \in Seq(Entities), x \in Entities, InsertAtProperties
<1>4. /\ IsInjective(InsertAt(s, p, x))
      /\ \A e : Contains(InsertAt(s, p, x), e) <=> Contains(s, e) \/ e = x
  BY <1>1, InsertAtDistinct
<1> QED BY <1>2, <1>3, <1>4

LEMMA AppendProperty ==
  ASSUME NEW s \in Seq(Entities), NEW x \in Entities, ~Contains(s, x), IsInjective(s)
  PROVE  /\ Append(s, x) \in Seq(Entities)
         /\ IsInjective(Append(s, x))
         /\ \A e : Contains(Append(s, x), e) <=> Contains(s, e) \/ e = x
         /\ Without(Append(s, x), x) = s
<1> DEFINE p == Len(s) + 1
           a == Append(s, x)
<1>1. p \in 1..Len(s) + 1
  OBVIOUS
<1>2. a = InsertAt(s, p, x) /\ RemoveAt(a, p) = s
  BY AppendIsInsert
<1>3. a \in Seq(Entities) /\ Len(a) = p /\ a[p] = x
  OBVIOUS
<1> HIDE DEF p, a
<1>4. IsInjective(a) /\ \A e : Contains(a, e) <=> Contains(s, e) \/ e = x
  BY <1>1, <1>2, InsertAtDistinct
<1>5. Contains(a, x)
  BY <1>4
<1>6. Position(a, x) \in 1..Len(a) /\ a[Position(a, x)] = x
  BY <1>3, <1>5, PositionOf
<1>7. p \in 1..Len(a) /\ DOMAIN a = 1..Len(a)
  BY <1>1, <1>3 DEF p
<1>8. Position(a, x) = p
  BY <1>3, <1>4, <1>6, <1>7 DEF IsInjective
<1>9. Without(a, x) = s
  BY <1>2, <1>8 DEF Without
<1> QED BY <1>3, <1>4, <1>9 DEF a

(***************************************************************************)
(* One row added, taken out or put back                                    *)
(***************************************************************************)
LEMMA GoodLists ==
  ASSUME NEW r \in GoodRows, NEW i \in Tables, NEW x \in Entities, NEW y \in Entities
  PROVE  /\ r \in Rows
         /\ r[1][i][x] \in Seq(Entities) /\ IsInjective(r[1][i][x])
         /\ r[2][i][y] \in Seq(Entities) /\ IsInjective(r[2][i][y])
         /\ Related(r, i, x, y) <=> Contains(r[1][i][x], y)
         /\ Related(r, i, x, y) <=> Contains(r[2][i][y], x)
<1>1. r \in Rows /\ MirroredIn(r)
  BY DEF GoodRows
<1>2. r[1][i][x] \in Seq(Entities) /\ r[2][i][y] \in Seq(Entities)
  BY <1>1, RowsShape
<1> QED BY <1>1, <1>2 DEF MirroredIn, Related

LEMMA InsertGood ==
  ASSUME NEW r \in GoodRows, NEW i \in Tables, NEW x \in Entities, NEW y \in Entities,
         ~Related(r, i, x, y)
  PROVE  /\ Insert(r, i, x, y) \in GoodRows
         /\ Related(Insert(r, i, x, y), i, x, y)
         /\ Retract(Insert(r, i, x, y), i, x, y) = r
<1> DEFINE a == r[1][i][x]
           b == r[2][i][y]
           f == Append(a, y)
           g == Append(b, x)
           s == Replace(r, i, x, f, y, g)
<1>1. /\ r \in Rows /\ a \in Seq(Entities) /\ b \in Seq(Entities)
      /\ IsInjective(a) /\ IsInjective(b) /\ ~Contains(a, y) /\ ~Contains(b, x)
  BY GoodLists
<1>2. Insert(r, i, x, y) = s
  BY DEF Insert, Replace
<1>3. a = r[1][i][x] /\ b = r[2][i][y]
  OBVIOUS
<1> HIDE DEF a, b
<1>4. /\ f \in Seq(Entities) /\ IsInjective(f) /\ Without(f, y) = a
      /\ \A e : Contains(f, e) <=> Contains(a, e) \/ e = y
  BY <1>1, AppendProperty
<1>5. /\ g \in Seq(Entities) /\ IsInjective(g) /\ Without(g, x) = b
      /\ \A e : Contains(g, e) <=> Contains(b, e) \/ e = x
  BY <1>1, AppendProperty
<1> HIDE DEF f, g
<1>6. s \in GoodRows
  BY <1>3, <1>4, <1>5, ReplaceGood
<1>7. s \in Rows /\ s[1][i][x] = f /\ s[2][i][y] = g
  BY <1>1, <1>4, <1>5, ReplaceType
<1>8. Replace(s, i, x, a, y, b) = r
  BY <1>1, <1>3, <1>4, <1>5, ReplaceBack
<1> HIDE DEF s
<1>9. Related(s, i, x, y)
  BY <1>4, <1>7 DEF Related
<1>10. Retract(s, i, x, y) = Replace(s, i, x, Without(f, y), y, Without(g, x))
  BY <1>7 DEF Retract, Replace
<1> QED BY <1>2, <1>4, <1>5, <1>6, <1>8, <1>9, <1>10

LEMMA RetractGood ==
  ASSUME NEW r \in GoodRows, NEW i \in Tables, NEW x \in Entities, NEW y \in Entities,
         Related(r, i, x, y)
  PROVE  /\ Retract(r, i, x, y) \in GoodRows
         /\ ~Related(Retract(r, i, x, y), i, x, y)
         /\ Position(r[1][i][x], y) \in Nat \ {0}
         /\ Position(r[2][i][y], x) \in Nat \ {0}
         /\ Replace(Retract(r, i, x, y), i,
                    x, PutAt(Retract(r, i, x, y)[1][i][x], Position(r[1][i][x], y), y),
                    y, PutAt(Retract(r, i, x, y)[2][i][y], Position(r[2][i][y], x), x)) = r
<1> DEFINE a == r[1][i][x]
           b == r[2][i][y]
           f == Without(a, y)
           g == Without(b, x)
           m == Position(a, y)
           n == Position(b, x)
           s == Replace(r, i, x, f, y, g)
<1>1. /\ r \in Rows /\ a \in Seq(Entities) /\ b \in Seq(Entities)
      /\ IsInjective(a) /\ IsInjective(b) /\ Contains(a, y) /\ Contains(b, x)
  BY GoodLists
<1>2. Retract(r, i, x, y) = s
  BY DEF Retract, Replace
<1>3. a = r[1][i][x] /\ b = r[2][i][y]
  OBVIOUS
<1> HIDE DEF a, b
<1>4. /\ f \in Seq(Entities) /\ IsInjective(f) /\ PutAt(f, m, y) = a
      /\ \A e : Contains(f, e) <=> Contains(a, e) /\ e # y
  BY <1>1, WithoutProperties
<1>5. /\ g \in Seq(Entities) /\ IsInjective(g) /\ PutAt(g, n, x) = b
      /\ \A e : Contains(g, e) <=> Contains(b, e) /\ e # x
  BY <1>1, WithoutProperties
<1>6. m \in Nat \ {0} /\ n \in Nat \ {0}
  <2>1. m \in 1..Len(a) /\ n \in 1..Len(b)
    BY <1>1, PositionOf
  <2> QED BY <2>1
<1> HIDE DEF f, g, m, n
<1>7. s \in GoodRows
  BY <1>3, <1>4, <1>5, ReplaceGood
<1>8. s \in Rows /\ s[1][i][x] = f /\ s[2][i][y] = g
  BY <1>1, <1>4, <1>5, ReplaceType
<1>9. Replace(s, i, x, a, y, b) = r
  BY <1>1, <1>3, <1>4, <1>5, ReplaceBack
<1> HIDE DEF s
<1>10. ~Related(s, i, x, y)
  BY <1>4, <1>8 DEF Related
<1>11. Replace(s, i, x, PutAt(s[1][i][x], m, y), y, PutAt(s[2][i][y], n, x)) = r
  BY <1>4, <1>5, <1>8, <1>9
<1> QED BY <1>2, <1>3, <1>6, <1>7, <1>10, <1>11 DEF m, n

(* What a journal holds: a removed row has its places. *)
Change ==
  {d \in Delta : ~d.added => d.forward_position # 0 /\ d.reverse_position # 0}

LEMMA ReversedGood ==
  ASSUME NEW r \in GoodRows, NEW d \in Change
  PROVE  Reversed(d, r) \in GoodRows
<1> DEFINE i == d.relation
           x == d.left
           y == d.right
           m == d.forward_position
           n == d.reverse_position
           a == r[1][i][x]
           b == r[2][i][y]
           f == PutAt(a, m, y)
           g == PutAt(b, n, x)
<1>1. /\ i \in Tables /\ x \in Entities /\ y \in Entities /\ d.added \in BOOLEAN
      /\ m \in Nat /\ n \in Nat
      /\ ~d.added => m # 0 /\ n # 0
  BY DEF Change, Delta
<1>2. CASE d.added /\ Related(r, i, x, y)
  <2>1. Reversed(d, r) = Retract(r, i, x, y)
    BY <1>2 DEF Reversed
  <2> QED BY <1>1, <1>2, <2>1, RetractGood
<1>3. CASE d.added <=> ~Related(r, i, x, y)
  <2>1. Reversed(d, r) = r
    BY <1>3, <1>1 DEF Reversed
  <2> QED BY <2>1
<1>4. CASE ~d.added /\ ~Related(r, i, x, y)
  <2>1. Reversed(d, r) = Replace(r, i, x, f, y, g)
    BY <1>4 DEF Reversed, Replace
  <2>2. /\ a \in Seq(Entities) /\ b \in Seq(Entities)
        /\ IsInjective(a) /\ IsInjective(b) /\ ~Contains(a, y) /\ ~Contains(b, x)
    BY <1>1, <1>4, GoodLists
  <2>3. a = r[1][i][x] /\ b = r[2][i][y]
    OBVIOUS
  <2>4. m \in Nat \ {0} /\ n \in Nat \ {0}
    BY <1>1, <1>4
  <2> HIDE DEF i, x, y, m, n, a, b
  <2>5. /\ f \in Seq(Entities) /\ IsInjective(f)
        /\ \A e : Contains(f, e) <=> Contains(a, e) \/ e = y
    BY <1>1, <2>2, <2>4, PutAtProperties
  <2>6. /\ g \in Seq(Entities) /\ IsInjective(g)
        /\ \A e : Contains(g, e) <=> Contains(b, e) \/ e = x
    BY <1>1, <2>2, <2>4, PutAtProperties
  <2> HIDE DEF f, g
  <2>7. Replace(r, i, x, f, y, g) \in GoodRows
    BY <1>1, <2>3, <2>5, <2>6, ReplaceGood
  <2> QED BY <2>1, <2>7
<1> QED BY <1>1, <1>2, <1>3, <1>4

(* Reversing a change that was just made gives the rows before it. *)
LEMMA ReverseAdded ==
  ASSUME NEW r \in GoodRows, NEW d \in Delta, d.added,
         ~Related(r, d.relation, d.left, d.right)
  PROVE  Reversed(d, Insert(r, d.relation, d.left, d.right)) = r
<1>1. d.relation \in Tables /\ d.left \in Entities /\ d.right \in Entities
  BY DEF Delta
<1> DEFINE s == Insert(r, d.relation, d.left, d.right)
<1>2. /\ Related(s, d.relation, d.left, d.right)
      /\ Retract(s, d.relation, d.left, d.right) = r
  BY <1>1, InsertGood
<1> HIDE DEF s
<1>3. Reversed(d, s) = Retract(s, d.relation, d.left, d.right)
  BY <1>2 DEF Reversed
<1> QED BY <1>2, <1>3 DEF s

LEMMA ReverseRemoved ==
  ASSUME NEW r \in GoodRows, NEW i \in Tables, NEW x \in Entities, NEW y \in Entities,
         Related(r, i, x, y),
         NEW d \in Delta, ~d.added, d.relation = i, d.left = x, d.right = y,
         d.forward_position = Position(r[1][i][x], y),
         d.reverse_position = Position(r[2][i][y], x)
  PROVE  Reversed(d, Retract(r, i, x, y)) = r
<1> DEFINE s == Retract(r, i, x, y)
           m == Position(r[1][i][x], y)
           n == Position(r[2][i][y], x)
<1>1. /\ ~Related(s, i, x, y)
      /\ Replace(s, i, x, PutAt(s[1][i][x], m, y), y, PutAt(s[2][i][y], n, x)) = r
  BY RetractGood
<1>2. d.forward_position = m /\ d.reverse_position = n
  OBVIOUS
<1> HIDE DEF s, m, n
<1>3. Reversed(d, s) = Replace(s, i, x, PutAt(s[1][i][x], m, y), y, PutAt(s[2][i][y], n, x))
  BY <1>1, <1>2 DEF Reversed, Replace
<1> QED BY <1>1, <1>3 DEF s

(***************************************************************************)
(* The invariant.  What the code records is a trail: as many states of the *)
(* rows as changes, and one more, also while the changes are being put back.*)
(***************************************************************************)
ShapeOK ==
  /\ count \in 0..MaxTables
  /\ cardinality \in [Tables -> Kinds \cup {NoCard}]
  /\ labelled \in [Families \X Labels -> 0..MaxTables]

(* A cached walk ends at an entity, or there is none. *)
CacheOK == outermost \in [Tables -> [Entities -> Entities \cup {NoOne}]]

(* What says which operation runs. *)
ControlOK ==
  /\ journalling \in BOOLEAN
  /\ turn \in {"startup", "between", "open", "failed"}
  /\ live \in SUBSET Entities
  /\ doing \in {"idle", "edit", "revert"}
  /\ work \in Seq(Delta)
  /\ victim \in Entities \cup {NoOne}

(* The open cycle's changes and the rows they went through. *)
TrailOK ==
  /\ journal \in Seq(Change) /\ path \in Seq(GoodRows)
  /\ ~journalling => journal = <<>>
  /\ turn \in {"startup", "between"} => ~journalling
  /\ doing # "revert" => Len(path) = Len(journal) + 1
  /\ doing = "revert" => work \in Seq(Change) /\ Len(path) = Len(work) + 1 /\ journal = <<>>

(* The same of each cycle that can be undone. *)
HistoryOK ==
  /\ history \in Seq(Seq(Change)) /\ paths \in Seq(Seq(GoodRows))
  /\ Len(paths) = Len(history)
  /\ \A n \in 1..Len(history) : Len(paths[n]) = Len(history[n]) + 1

(* The inductive invariant of every game. *)
Sound == ShapeOK /\ rows \in GoodRows /\ CacheOK /\ ControlOK /\ TrailOK /\ HistoryOK

LEMMA SoundImplies ==
  ASSUME Sound
  PROVE  TypeOK /\ Mirrored
<1>1. rows \in Rows /\ MirroredIn(rows)
  BY DEF Sound, GoodRows
<1>2. Mirrored
  <2>1. rows[1] = forward /\ rows[2] = reverse
    BY DEF rows
  <2> HIDE DEF rows
  <2> QED BY <1>1, <2>1 DEF Mirrored, MirroredIn
<1>3. Change \subseteq Delta /\ GoodRows \subseteq Rows
  BY DEF Change, GoodRows
<1>4. journal \in Seq(Delta) /\ path \in Seq(Rows)
  BY <1>3, SeqMonotonic DEF Sound, TrailOK
<1>5. Seq(Change) \subseteq Seq(Delta) /\ Seq(GoodRows) \subseteq Seq(Rows)
  BY <1>3, SeqMonotonic
<1>6. history \in Seq(Seq(Delta)) /\ paths \in Seq(Seq(Rows))
  BY <1>5, SeqMonotonic DEF Sound, HistoryOK
<1>7. Len(journal) \in Nat /\ Len(work) \in Nat
  BY DEF Sound, TrailOK, ControlOK
<1>8. path # <<>>
  <2>1. Len(path) > 0
    BY <1>7 DEF Sound, TrailOK
  <2> QED BY <2>1
<1>9. ShapeOK /\ CacheOK /\ ControlOK /\ Len(paths) = Len(history)
  BY DEF Sound, HistoryOK
<1> HIDE DEF Rows
<1> QED BY <1>1, <1>2, <1>4, <1>6, <1>8, <1>9 DEF TypeOK, ShapeOK, CacheOK, ControlOK

LEMMA EmptyRows ==
  <<[i \in Tables |-> [e \in Entities |-> <<>>]],
    [i \in Tables |-> [e \in Entities |-> <<>>]]>> \in GoodRows
<1> DEFINE a == [i \in Tables |-> [e \in Entities |-> <<>>]]
<1>1. a \in [Tables -> [Entities -> Seq(Entities)]]
  OBVIOUS
<1>2. \A i \in Tables : \A e \in Entities : a[i][e] = <<>>
  OBVIOUS
<1> HIDE DEF a
<1>3. IsInjective(<<>>) /\ \A e : ~Contains(<<>>, e)
  BY DEF IsInjective, Contains
<1>4. MirroredIn(<<a, a>>)
  BY <1>2, <1>3 DEF MirroredIn
<1>5. <<a, a>> \in GoodRows
  BY <1>1, <1>4 DEF GoodRows, Rows
<1> QED BY <1>5 DEF a

LEMMA InitSound == Init => Sound
<1> SUFFICES ASSUME Init PROVE Sound
  OBVIOUS
<1>1. rows \in GoodRows
  BY EmptyRows DEF Init, rows
<1>2. ShapeOK
  <2>1. Len(Cards) \in 0..MaxTables
    BY Constants
  <2>2. \A i \in Declared : Cards[i] \in Kinds
    BY Constants DEF Declared
  <2>3. count \in 0..MaxTables
    BY <2>1 DEF Init
  <2>4. cardinality \in [Tables -> Kinds \cup {NoCard}]
    BY <2>2 DEF Init
  <2>5. labelled \in [Families \X Labels -> 0..MaxTables]
    BY Constants DEF Init
  <2> QED BY <2>3, <2>4, <2>5 DEF ShapeOK
<1>3. CacheOK
  BY DEF Init, CacheOK
<1>4. ControlOK
  <2>1. work \in Seq(Delta)
    BY EmptySeq DEF Init
  <2> QED BY <2>1 DEF Init, ControlOK
<1>5. TrailOK
  <2> HIDE DEF rows
  <2>1. <<rows>> \in Seq(GoodRows) /\ Len(<<rows>>) = 1
    BY <1>1
  <2>2. path = <<rows>> /\ journal = <<>> /\ journalling = FALSE /\ doing = "idle"
    BY DEF Init
  <2> QED BY <2>1, <2>2 DEF TrailOK
<1>6. HistoryOK
  BY DEF Init, HistoryOK
<1> QED BY <1>1, <1>2, <1>3, <1>4, <1>5, <1>6 DEF Sound

(* The table an operation uses exists, and the tables stay what they are.  *)
LEMMA EnsureSound ==
  ASSUME ShapeOK, NEW k \in Keys, Ensure(k)
  PROVE  /\ TableOf(k) \in Tables
         /\ Cards[k[1]] \in Kinds
         /\ ShapeOK'
<1> DEFINE i == TableOf(k)
<1>1. k[1] \in Declared /\ (k[1] \in Families => k \in Families \X Labels)
  BY Constants DEF Keys
<1>2. k[1] \in Nat \ {0} /\ Cards[k[1]] \in Kinds
  BY <1>1, Constants DEF Declared
<1>3. i \in Nat \ {0} /\ i <= MaxTables
  BY <1>1, <1>2, Constants DEF ShapeOK, TableOf, Ensure
<1>4. i \in Tables
  BY <1>3, Constants DEF Tables
<1> HIDE DEF i
<1>5. count' \in 0..MaxTables
  BY <1>3, Constants DEF ShapeOK, Ensure, i
<1>6. labelled' \in [Families \X Labels -> 0..MaxTables]
  BY <1>1, <1>3, Constants DEF ShapeOK, Ensure, i
<1>7. cardinality' \in [Tables -> Kinds \cup {NoCard}]
  BY <1>2, <1>4 DEF ShapeOK, Ensure, i
<1> QED BY <1>2, <1>4, <1>5, <1>6, <1>7 DEF ShapeOK, i

LEMMA WantedType ==
  ASSUME NEW i \in Tables, NEW x \in Entities, NEW y \in Entities, NEW added \in BOOLEAN
  PROVE  Wanted(i, x, y, added) \in Delta
BY DEF Wanted, Added, Delta

(* The rows a loop takes out. *)
Gone == {d \in Delta : ~d.added}

LEMMA WantedGone ==
  ASSUME NEW i \in Tables, NEW x \in Entities, NEW y \in Entities
  PROVE  Wanted(i, x, y, FALSE) \in Gone
BY DEF Wanted, Added, Delta, Gone

(* An operation that starts leaves the rows and the trail alone. *)
LEMMA StartSound ==
  ASSUME Sound, ShapeOK', doing = "idle", doing' \in {"idle", "edit"}, work' \in Seq(Delta),
         victim' \in Entities \cup {NoOne}, CacheOK',
         UNCHANGED <<rows, journal, cycle, live, path>>
  PROVE  Sound'
<1>1. UNCHANGED <<forward, reverse, journal, journalling, history, turn, paths, live, path>>
  BY DEF rows, cycle
<1>2. (rows \in GoodRows)'
  BY <1>1 DEF Sound, rows
<1>3. ControlOK'
  BY <1>1 DEF Sound, ControlOK
<1>4. TrailOK'
  BY <1>1 DEF Sound, TrailOK
<1>5. HistoryOK'
  BY <1>1 DEF Sound, HistoryOK
<1> QED BY <1>2, <1>3, <1>4, <1>5 DEF Sound

(* The rows set displaces. *)
LEMMA DisplacedType ==
  ASSUME rows \in GoodRows, NEW card, NEW i \in Tables, NEW x \in Entities, NEW y \in Entities
  PROVE  Displaced(card, i, x, y) \in Seq(Delta)
<1> DEFINE lefts == reverse[i][y]
           rights == forward[i][x]
           l == IF RightIsMany(card) \/ lefts = <<>> THEN <<>> ELSE <<Wanted(i, lefts[1], y, FALSE)>>
           r == IF LeftIsMany(card) \/ rights = <<>> THEN <<>> ELSE <<Wanted(i, x, rights[1], FALSE)>>
<1>1. lefts \in Seq(Entities) /\ rights \in Seq(Entities)
  BY GoodLists DEF rows
<1>2. Displaced(card, i, x, y) = l \o r
  BY DEF Displaced
<1> HIDE DEF lefts, rights
<1>3. lefts # <<>> => lefts[1] \in Entities
  BY <1>1
<1>4. rights # <<>> => rights[1] \in Entities
  BY <1>1
<1>5. lefts # <<>> => Wanted(i, lefts[1], y, FALSE) \in Delta
  BY <1>3, WantedType
<1>6. rights # <<>> => Wanted(i, x, rights[1], FALSE) \in Delta
  BY <1>4, WantedType
<1>7. l \in Seq(Delta)
  BY <1>5, OneElement, EmptySeq
<1>8. r \in Seq(Delta)
  BY <1>6, OneElement, EmptySeq
<1> HIDE DEF l, r
<1> QED BY <1>2, <1>7, <1>8, ConcatProperties

LEMMA SetSound ==
  ASSUME Sound, NEW k \in Keys, NEW x \in Entities, NEW y \in Entities, Set(k, x, y)
  PROVE  Sound'
<1> DEFINE i == TableOf(k)
<1>1. ShapeOK /\ Ensure(k) /\ doing = "idle" /\ rows \in GoodRows
  BY DEF Sound, Set, MayChange
<1>2. i \in Tables /\ ShapeOK'
  BY <1>1, EnsureSound
<1> HIDE DEF i
<1>3. Wanted(i, x, y, TRUE) \in Delta
  BY <1>2, WantedType
<1>4. Displaced(Cards[k[1]], i, x, y) \in Seq(Delta)
  BY <1>1, <1>2, DisplacedType
<1>5. work \in Seq(Delta)
  BY DEF Sound, ControlOK
<1>6. work' \in Seq(Delta) /\ doing' \in {"idle", "edit"}
  <2>1. Append(Displaced(Cards[k[1]], i, x, y), Wanted(i, x, y, TRUE)) \in Seq(Delta)
    BY <1>3, <1>4, AppendProperties
  <2> QED BY <2>1, <1>1, <1>5 DEF Set, i
<1>7. CacheOK' /\ victim' \in Entities \cup {NoOne}
  BY DEF Set, Sound, CacheOK, ControlOK
<1>8. UNCHANGED <<rows, journal, cycle, live, path>>
  BY DEF Set
<1> QED BY <1>1, <1>2, <1>6, <1>7, <1>8, StartSound

LEMMA UnsetSound ==
  ASSUME Sound, NEW k \in Keys, NEW x \in Entities, NEW y \in Entities, Unset(k, x, y)
  PROVE  Sound'
<1>1. ShapeOK /\ Ensure(k) /\ doing = "idle"
  BY DEF Sound, Unset, MayChange
<1>2. TableOf(k) \in Tables /\ ShapeOK'
  BY <1>1, EnsureSound
<1>3. work' \in Seq(Delta) /\ doing' = "edit"
  <2>1. Wanted(TableOf(k), x, y, FALSE) \in Delta
    BY <1>2, WantedType
  <2> QED BY <2>1, OneElement DEF Unset
<1>4. CacheOK' /\ victim' \in Entities \cup {NoOne}
  BY DEF Unset, Sound, CacheOK, ControlOK
<1>5. UNCHANGED <<rows, journal, cycle, live, path>>
  BY DEF Unset
<1> QED BY <1>1, <1>2, <1>3, <1>4, <1>5, StartSound

(***************************************************************************)
(* The walk to the left ends at an entity.                                 *)
(***************************************************************************)
Further(lefts, e, chain) ==
  LET next == lefts[IF chain = <<>> THEN e ELSE Last(chain)]
  IN  IF next = <<>> \/ next[1] = e \/ Contains(chain, next[1])
      THEN chain ELSE Append(chain, next[1])

LEMMA FurtherType ==
  ASSUME NEW lefts \in [Entities -> Seq(Entities)], NEW e \in Entities,
         NEW chain \in Seq(Entities)
  PROVE  Further(lefts, e, chain) \in Seq(Entities)
<1> DEFINE at == IF chain = <<>> THEN e ELSE Last(chain)
           next == lefts[at]
<1>1. at \in Entities
  <2>1. chain # <<>> => Len(chain) \in 1..Len(chain)
    BY EmptySeq
  <2>2. chain # <<>> => Last(chain) \in Entities
    BY <2>1, ElementOfSeq DEF Last
  <2> QED BY <2>2
<1>2. next \in Seq(Entities)
  BY <1>1
<1>3. Further(lefts, e, chain) =
        IF next = <<>> \/ next[1] = e \/ Contains(chain, next[1])
        THEN chain ELSE Append(chain, next[1])
  BY DEF Further
<1> HIDE DEF next
<1>4. next # <<>> => next[1] \in Entities
  BY <1>2
<1> QED BY <1>3, <1>4, AppendProperties

LEMMA AncestorsType ==
  ASSUME NEW lefts \in [Entities -> Seq(Entities)], NEW e \in Entities
  PROVE  Ancestors(lefts, e) \in Seq(Entities)
<1> DEFINE N == Cardinality(Entities)
           Grown(g, i) == IF i = 0 THEN <<>> ELSE Further(lefts, e, g[i - 1])
           Walks(g, m) == \A i \in 0..m : g[i] = Grown(g, i)
           A == {m \in Nat : \E g \in [0..m -> Seq(Entities)] : Walks(g, m)}
<1>1. N \in Nat
  BY Constants, FS_CardinalityType
<1> HIDE DEF N
<1>2. 0 \in A
  <2> DEFINE g == [i \in 0..0 |-> <<>>]
  <2>1. g \in [0..0 -> Seq(Entities)]
    BY EmptySeq
  <2>2. Walks(g, 0)
    OBVIOUS
  <2> HIDE DEF g, Walks
  <2> QED BY <2>1, <2>2
<1>3. ASSUME NEW m \in A PROVE m + 1 \in A
  <2>1. PICK g \in [0..m -> Seq(Entities)] : Walks(g, m)
    <3> HIDE DEF Walks
    <3> QED OBVIOUS
  <2> DEFINE last == Further(lefts, e, g[m])
             h == [i \in 0..m + 1 |-> IF i <= m THEN g[i] ELSE last]
  <2>2. m \in Nat
    OBVIOUS
  <2>3. g[m] \in Seq(Entities)
    BY <2>2
  <2>4. last \in Seq(Entities)
    BY <2>3, FurtherType
  <2>5. last = Further(lefts, e, g[m])
    OBVIOUS
  <2> HIDE DEF last
  <2>6. h \in [0..m + 1 -> Seq(Entities)]
    BY <2>2, <2>4
  <2>7. ASSUME NEW i \in 0..m + 1 PROVE h[i] = Grown(h, i)
    <3>1. CASE i <= m
      <4>1. h[i] = g[i] /\ (i # 0 => h[i - 1] = g[i - 1])
        BY <3>1, <2>2
      <4>2. g[i] = Grown(g, i)
        <5> HIDE DEF Grown
        <5> QED BY <3>1, <2>1, <2>2
      <4> HIDE DEF h
      <4> QED BY <4>1, <4>2
    <3>2. CASE i = m + 1
      <4>1. h[i] = last /\ h[i - 1] = g[m] /\ i # 0
        BY <3>2, <2>2
      <4> HIDE DEF h
      <4> QED BY <4>1, <2>5
    <3> QED BY <3>1, <3>2, <2>2
  <2>8. Walks(h, m + 1)
    BY <2>7
  <2> HIDE DEF h, Walks
  <2> QED BY <2>2, <2>6, <2>8
<1>4. A = Nat
  <2>1. A \in SUBSET Nat
    OBVIOUS
  <2> HIDE DEF A
  <2> QED BY <1>2, <1>3, <2>1, SetInduction
<1>5. PICK g \in [0..N -> Seq(Entities)] : Walks(g, N)
  <2>1. N \in A
    BY <1>1, <1>4
  <2> HIDE DEF Walks
  <2> QED BY <2>1
<1> DEFINE f == CHOOSE f : f = [n \in 0..N |-> Grown(f, n)]
<1>6. Ancestors(lefts, e) = f[N]
  BY DEF Ancestors, Further, N
<1>7. g = [n \in 0..N |-> Grown(g, n)]
  <2> HIDE DEF Grown
  <2> QED BY <1>5
<1>8. f = [n \in 0..N |-> Grown(f, n)]
  <2> HIDE DEF Grown
  <2> QED BY <1>7
<1> HIDE DEF f
<1> DEFINE B == {m \in Nat : m \in 0..N => f[m] \in Seq(Entities)}
<1>9. 0 \in B
  <2>1. 0 \in 0..N
    BY <1>1
  <2>2. f[0] = Grown(f, 0)
    <3> HIDE DEF Grown
    <3> QED BY <1>8, <2>1
  <2>3. f[0] \in Seq(Entities)
    BY <2>2, EmptySeq
  <2> QED BY <2>3
<1>10. ASSUME NEW m \in B PROVE m + 1 \in B
  <2>1. SUFFICES ASSUME m + 1 \in 0..N PROVE f[m + 1] \in Seq(Entities)
    OBVIOUS
  <2>2. f[m + 1] = Grown(f, m + 1)
    <3> HIDE DEF Grown
    <3> QED BY <1>8, <2>1
  <2>3. m \in Nat /\ m \in 0..N
    BY <2>1, <1>1
  <2>4. f[m] \in Seq(Entities)
    BY <2>3
  <2>5. Further(lefts, e, f[m]) \in Seq(Entities)
    BY <2>4, FurtherType
  <2>6. f[m + 1] = Further(lefts, e, f[m])
    BY <2>2, <2>3
  <2> QED BY <2>5, <2>6
<1>11. B = Nat
  <2>1. B \in SUBSET Nat
    OBVIOUS
  <2> HIDE DEF B
  <2> QED BY <1>9, <1>10, <2>1, SetInduction
<1>12. N \in B
  BY <1>1, <1>11
<1>13. f[N] \in Seq(Entities)
  BY <1>1, <1>12
<1> QED BY <1>6, <1>13

LEMMA TopOfType ==
  ASSUME NEW lefts \in [Entities -> Seq(Entities)], NEW e \in Entities
  PROVE  TopOf(lefts, e) \in Entities
<1> DEFINE chain == Ancestors(lefts, e)
<1>1. chain \in Seq(Entities)
  BY AncestorsType
<1>2. TopOf(lefts, e) = IF chain = <<>> THEN e ELSE Last(chain)
  BY DEF TopOf
<1> HIDE DEF chain
<1>3. chain # <<>> => Len(chain) \in 1..Len(chain)
  BY <1>1, EmptySeq
<1>4. chain # <<>> => Last(chain) \in Entities
  BY <1>1, <1>3, ElementOfSeq DEF Last
<1> QED BY <1>2, <1>4

(***************************************************************************)
(* The operations keep the invariant                                       *)
(***************************************************************************)
LEMMA OutermostSound ==
  ASSUME Sound, NEW k \in Keys, NEW e \in Entities, Outermost(k, e)
  PROVE  Sound'
<1> DEFINE i == TableOf(k)
<1>1. ShapeOK /\ Ensure(k) /\ doing = "idle"
  BY DEF Sound, Outermost
<1>2. i \in Tables /\ ShapeOK'
  BY <1>1, EnsureSound
<1>3. reverse[i] \in [Entities -> Seq(Entities)]
  <2>1. reverse \in [Tables -> [Entities -> Seq(Entities)]]
    BY DEF Sound, GoodRows, Rows, rows
  <2> QED BY <1>2, <2>1
<1>4. TopOf(reverse[i], e) \in Entities
  BY <1>3, TopOfType
<1>5. CacheOK'
  <2>1. CacheOK
    BY DEF Sound
  <2> HIDE DEF i
  <2>2. [outermost[i] EXCEPT ![e] = TopOf(reverse[i], e)] \in [Entities -> Entities \cup {NoOne}]
    BY <1>2, <1>4, <2>1 DEF CacheOK
  <2>3. \/ outermost' = outermost
        \/ outermost' = [outermost EXCEPT ![i] = [outermost[i] EXCEPT ![e] = TopOf(reverse[i], e)]]
    BY DEF Outermost, i
  <2> QED BY <1>2, <2>1, <2>2, <2>3 DEF CacheOK
<1>6. UNCHANGED <<rows, journal, cycle, live, path>> /\ doing' = doing /\ work' = work /\ victim' = victim
  BY DEF Outermost
<1>7. work' \in Seq(Delta) /\ victim' \in Entities \cup {NoOne}
  BY <1>6 DEF Sound, ControlOK
<1> QED BY <1>1, <1>2, <1>5, <1>6, <1>7, StartSound

(* Everything a despawn has to do is to take rows out. *)
LEMMA DespawnWork ==
  ASSUME Sound, NEW e \in Entities, Despawn(e)
  PROVE  work' \in Seq(Gone)
<1> DEFINE F(i) == [n \in DOMAIN forward[i][e] |-> Wanted(i, e, forward[i][e][n], FALSE)]
           R(i) == [n \in DOMAIN reverse[i][e] |-> Wanted(i, reverse[i][e][n], e, FALSE)]
           of(i) == F(i) \o R(i)
           seqs == [i \in 1..count |-> of(i)]
<1>1. count \in Nat /\ \A i \in 1..count : i \in Tables
  BY Constants DEF Sound, ShapeOK, Tables
<1>2. ASSUME NEW i \in 1..count PROVE of(i) \in Seq(Gone)
  <2>1. i \in Tables
    BY <1>1
  <2>2. forward[i][e] \in Seq(Entities) /\ reverse[i][e] \in Seq(Entities)
    BY <2>1, GoodLists DEF Sound, rows
  <2>3. F(i) \in Seq(Gone)
    <3> DEFINE s == forward[i][e]
               t == [n \in DOMAIN s |-> Wanted(i, e, s[n], FALSE)]
    <3>1. s \in Seq(Entities) /\ DOMAIN s = 1..Len(s) /\ Len(s) \in Nat
      BY <2>2
    <3> HIDE DEF s
    <3>2. ASSUME NEW n \in 1..Len(s) PROVE Wanted(i, e, s[n], FALSE) \in Gone
      <4>1. s[n] \in Entities
        BY <3>1
      <4> QED BY <2>1, <4>1, WantedGone
    <3>3. t \in [1..Len(s) -> Gone]
      BY <3>1, <3>2
    <3>4. t \in Seq(Gone)
      <4> HIDE DEF t
      <4> QED BY <3>1, <3>3
    <3> QED BY <3>4 DEF t, s
  <2>4. R(i) \in Seq(Gone)
    <3> DEFINE s == reverse[i][e]
               t == [n \in DOMAIN s |-> Wanted(i, s[n], e, FALSE)]
    <3>1. s \in Seq(Entities) /\ DOMAIN s = 1..Len(s) /\ Len(s) \in Nat
      BY <2>2
    <3> HIDE DEF s
    <3>2. ASSUME NEW n \in 1..Len(s) PROVE Wanted(i, s[n], e, FALSE) \in Gone
      <4>1. s[n] \in Entities
        BY <3>1
      <4> QED BY <2>1, <4>1, WantedGone
    <3>3. t \in [1..Len(s) -> Gone]
      BY <3>1, <3>2
    <3>4. t \in Seq(Gone)
      <4> HIDE DEF t
      <4> QED BY <3>1, <3>3
    <3> QED BY <3>4 DEF t, s
  <2> HIDE DEF F, R
  <2> QED BY <2>3, <2>4, ConcatProperties
<1>3. seqs \in [1..count -> Seq(Gone)]
  <2> HIDE DEF of
  <2> QED BY <1>2
<1>4. FlattenSeq(seqs) \in Seq(Gone)
  <2> HIDE DEF seqs
  <2> QED BY <1>1, <1>3, FlattenType
<1>5. work' = FlattenSeq(seqs)
  BY DEF Despawn
<1> HIDE DEF seqs
<1> QED BY <1>4, <1>5

LEMMA DespawnSound ==
  ASSUME Sound, NEW e \in Entities, Despawn(e)
  PROVE  Sound'
<1>1. work' \in Seq(Delta)
  <2>1. work' \in Seq(Gone) /\ Gone \subseteq Delta
    BY DespawnWork DEF Gone
  <2> QED BY <2>1, SeqMonotonic
<1>2. doing = "idle" /\ doing' = "edit" /\ victim' = e
  BY DEF Despawn, MayChange
<1>3. UNCHANGED <<shape, rows, outermost, journal, cycle, live, path>>
  BY DEF Despawn
<1>4. ShapeOK' /\ CacheOK'
  BY <1>3 DEF shape, Sound, ShapeOK, CacheOK
<1> QED BY <1>1, <1>2, <1>3, <1>4, StartSound

(* The rows and the trail when one row is changed and recorded. *)
LEMMA RecordSound ==
  ASSUME TrailOK, ControlOK, doing = "edit", NEW d \in Change, NEW r \in GoodRows, Record(d, r),
         UNCHANGED <<journalling, turn, doing>>, work' \in Seq(Delta)
  PROVE  TrailOK'
<1>1. /\ journal \in Seq(Change) /\ path \in Seq(GoodRows)
      /\ Len(path) = Len(journal) + 1
      /\ Len(journal) \in Nat
  BY DEF TrailOK
<1>2. CASE journalling
  <2>1. journal' = Append(journal, d) /\ path' = Append(path, r)
    BY <1>2 DEF Record
  <2>2. journal' \in Seq(Change) /\ Len(journal') = Len(journal) + 1
    BY <1>1, <2>1, AppendProperties
  <2>3. path' \in Seq(GoodRows) /\ Len(path') = Len(path) + 1
    BY <1>1, <2>1, AppendProperties
  <2> QED BY <1>1, <1>2, <2>2, <2>3 DEF TrailOK
<1>3. CASE ~journalling
  <2>1. journal' = journal /\ path' = path
    BY <1>3 DEF Record
  <2> QED BY <1>1, <1>3, <2>1 DEF TrailOK
<1> QED BY <1>2, <1>3

LEMMA ClearCacheOK ==
  ASSUME CacheOK, NEW i \in Tables, ClearCache(i)
  PROVE  CacheOK'
<1>1. [e \in Entities |-> NoOne] \in [Entities -> Entities \cup {NoOne}]
  OBVIOUS
<1> QED BY <1>1 DEF CacheOK, ClearCache

(* What one iteration of a running edit does: nothing, stop, or one row.   *)
LEMMA EditCases ==
  ASSUME Sound, Edit
  PROVE  LET w == Head(work)
             i == w.relation
         IN  /\ doing = "edit" /\ work # <<>>
             /\ w \in Delta /\ Tail(work) \in Seq(Delta)
             /\ UNCHANGED <<shape, cycle, live>>
             /\ \/ /\ UNCHANGED <<rows, outermost, journal, path>>
                   /\ \/ work' = Tail(work) /\ doing' = doing /\ victim' = victim
                      \/ work' = <<>> /\ doing' = "idle" /\ victim' = NoOne
                \/ /\ work' = Tail(work) /\ doing' = doing /\ victim' = victim
                   /\ ClearCache(i)
                   /\ \E d \in Change, r \in GoodRows :
                        /\ d.relation = i
                        /\ SetRows(r) /\ Record(d, r)
                        /\ Reversed(d, r) = rows
                        /\ \A j \in Tables : j # i => r[2][j] = reverse[j]
<1> DEFINE w == Head(work)
           i == w.relation
           x == w.left
           y == w.right
           has == Related(rows, i, x, y)
           after == IF w.added THEN Insert(rows, i, x, y) ELSE Retract(rows, i, x, y)
           d == IF w.added THEN w ELSE Removed(i, x, y)
<1>1. doing = "edit" /\ work # <<>> /\ UNCHANGED <<shape, cycle, live>>
  BY DEF Edit
<1>2. w \in Delta /\ Tail(work) \in Seq(Delta)
  BY <1>1, HeadTailProperties DEF Sound, ControlOK
<1>3. i \in Tables /\ x \in Entities /\ y \in Entities /\ w.added \in BOOLEAN
  BY <1>2 DEF Delta
<1>4. rows \in GoodRows
  BY DEF Sound
<1>5. \/ /\ UNCHANGED <<rows, outermost, journal, path>>
         /\ \/ work' = Tail(work) /\ doing' = doing /\ victim' = victim
            \/ work' = <<>> /\ doing' = "idle" /\ victim' = NoOne
      \/ /\ has # w.added
         /\ work' = Tail(work) /\ doing' = doing /\ victim' = victim
         /\ SetRows(after) /\ ClearCache(i) /\ Record(d, after)
  <2> HIDE DEF after
  <2> QED BY DEF Edit, after
<1>6. ASSUME has # w.added
      PROVE  /\ d \in Change /\ after \in GoodRows
             /\ d.relation = i
             /\ Reversed(d, after) = rows
             /\ \A j \in Tables : j # i => after[2][j] = reverse[j]
  <2>0. has \in BOOLEAN
    BY DEF Related, Contains
  <2>1. CASE w.added
    <3>1. ~has /\ after = Insert(rows, i, x, y) /\ d = w
      BY <1>3, <1>6, <2>0, <2>1
    <3>2. after \in GoodRows
      BY <1>3, <1>4, <3>1, InsertGood
    <3>3. d \in Change
      BY <1>2, <2>1, <3>1 DEF Change
    <3>4. Reversed(d, after) = rows
      BY <1>2, <1>4, <2>1, <3>1, ReverseAdded
    <3>5. \A j \in Tables : j # i => after[2][j] = reverse[j]
      <4>1. after[2] = [reverse EXCEPT ![i][y] = Append(@, x)]
        BY <3>1 DEF Insert, rows
      <4>2. reverse \in [Tables -> [Entities -> Seq(Entities)]]
        BY <1>4 DEF GoodRows, Rows, rows
      <4> HIDE DEF after, i, x, y
      <4> QED BY <1>3, <4>1, <4>2
    <3> QED BY <3>1, <3>2, <3>3, <3>4, <3>5
  <2>2. CASE ~w.added
    <3>1. has /\ after = Retract(rows, i, x, y) /\ d = Removed(i, x, y)
      BY <1>3, <1>6, <2>0, <2>2
    <3>2. after \in GoodRows
      BY <1>3, <1>4, <3>1, RetractGood
    <3>3. /\ Position(forward[i][x], y) \in Nat \ {0}
          /\ Position(reverse[i][y], x) \in Nat \ {0}
      BY <1>3, <1>4, <3>1, RetractGood DEF rows
    <3>4. d \in Delta /\ d \in Change /\ d.relation = i /\ ~d.added /\ d.left = x /\ d.right = y
      BY <1>3, <3>1, <3>3 DEF Removed, Delta, Change
    <3>5. /\ d.forward_position = Position(rows[1][i][x], y)
          /\ d.reverse_position = Position(rows[2][i][y], x)
      BY <3>1 DEF Removed, rows
    <3>6. Reversed(d, after) = rows
      BY <1>3, <1>4, <3>1, <3>4, <3>5, ReverseRemoved
    <3>7. \A j \in Tables : j # i => after[2][j] = reverse[j]
      <4>1. after[2] = [reverse EXCEPT ![i][y] = Without(@, x)]
        BY <3>1 DEF Retract, rows
      <4>2. reverse \in [Tables -> [Entities -> Seq(Entities)]]
        BY <1>4 DEF GoodRows, Rows, rows
      <4> HIDE DEF after, i, x, y
      <4> QED BY <1>3, <4>1, <4>2
    <3> QED BY <3>2, <3>4, <3>6, <3>7
  <2> QED BY <1>3, <2>1, <2>2
<1> HIDE DEF w, i, x, y, has, after, d
<1>7. CASE has # w.added /\ SetRows(after) /\ ClearCache(i) /\ Record(d, after)
           /\ work' = Tail(work) /\ doing' = doing /\ victim' = victim
  <2>1. \E dd \in Change, rr \in GoodRows :
          /\ dd.relation = i
          /\ SetRows(rr) /\ Record(dd, rr)
          /\ Reversed(dd, rr) = rows
          /\ \A j \in Tables : j # i => rr[2][j] = reverse[j]
    BY <1>6, <1>7
  <2> QED BY <1>1, <1>2, <1>7, <2>1 DEF i, w
<1> QED BY <1>1, <1>2, <1>5, <1>7 DEF i, w

LEMMA EditSound ==
  ASSUME Sound, Edit
  PROVE  Sound'
<1> DEFINE w == Head(work)
           i == w.relation
<1>1. /\ doing = "edit" /\ work # <<>>
      /\ w \in Delta /\ Tail(work) \in Seq(Delta)
      /\ UNCHANGED <<shape, cycle, live>>
  BY EditCases
<1>2. \/ /\ UNCHANGED <<rows, outermost, journal, path>>
         /\ \/ work' = Tail(work) /\ doing' = doing /\ victim' = victim
            \/ work' = <<>> /\ doing' = "idle" /\ victim' = NoOne
      \/ /\ work' = Tail(work) /\ doing' = doing /\ victim' = victim
         /\ ClearCache(i)
         /\ \E d \in Change, r \in GoodRows :
              /\ d.relation = i
              /\ SetRows(r) /\ Record(d, r)
              /\ Reversed(d, r) = rows
              /\ \A j \in Tables : j # i => r[2][j] = reverse[j]
  BY EditCases
<1>3. i \in Tables
  BY <1>1 DEF Delta
<1> HIDE DEF w, i
<1>4. UNCHANGED <<count, cardinality, labelled, journalling, history, turn, paths, live>>
  BY <1>1 DEF shape, cycle
<1>5. ShapeOK' /\ HistoryOK'
  BY <1>4 DEF Sound, ShapeOK, HistoryOK
<1>6. work' \in Seq(Delta) /\ doing' \in {"idle", "edit"} /\ victim' \in Entities \cup {NoOne}
  <2>1. <<>> \in Seq(Delta)
    BY EmptySeq
  <2> QED BY <1>1, <1>2, <2>1 DEF Sound, ControlOK
<1>7. ControlOK'
  BY <1>4, <1>6 DEF Sound, ControlOK
<1>8. CASE UNCHANGED <<rows, outermost, journal, path>>
  <2>1. UNCHANGED <<forward, reverse, outermost, journal, path>>
    BY <1>8 DEF rows
  <2>2. (rows \in GoodRows)' /\ CacheOK'
    BY <2>1 DEF Sound, CacheOK, rows
  <2>3. TrailOK'
    BY <1>1, <1>4, <1>6, <2>1 DEF Sound, TrailOK
  <2> QED BY <1>5, <1>7, <2>2, <2>3 DEF Sound
<1>9. CASE /\ work' = Tail(work) /\ doing' = doing /\ victim' = victim
           /\ ClearCache(i)
           /\ \E d \in Change, r \in GoodRows :
                /\ d.relation = i
                /\ SetRows(r) /\ Record(d, r)
                /\ Reversed(d, r) = rows
                /\ \A j \in Tables : j # i => r[2][j] = reverse[j]
  <2>1. PICK d \in Change, r \in GoodRows : SetRows(r) /\ Record(d, r)
    BY <1>9
  <2>2. TrailOK /\ ControlOK /\ CacheOK
    BY DEF Sound
  <2>3. TrailOK'
    BY <1>1, <1>4, <1>6, <1>9, <2>1, <2>2, RecordSound
  <2>4. CacheOK'
    BY <1>3, <1>9, <2>2, ClearCacheOK
  <2>5. r = <<r[1], r[2]>>
    BY RowsShape DEF GoodRows
  <2>6. rows' = r
    BY <2>1, <2>5 DEF SetRows, rows
  <2>7. (rows \in GoodRows)'
    BY <2>6
  <2> QED BY <1>5, <1>7, <2>3, <2>4, <2>7 DEF Sound
<1> QED BY <1>2, <1>8, <1>9

LEMMA EditedSound ==
  ASSUME Sound, Edited
  PROVE  Sound'
<1>1. /\ doing = "edit" /\ doing' = "idle" /\ victim' = NoOne /\ live' = live \ {victim}
      /\ UNCHANGED <<count, cardinality, labelled, forward, reverse, outermost, journal,
                     journalling, history, turn, paths, work, path>>
  BY DEF Edited, shape, cycle, rows
<1>2. ShapeOK' /\ CacheOK' /\ HistoryOK' /\ (rows \in GoodRows)'
  BY <1>1 DEF Sound, ShapeOK, CacheOK, HistoryOK, rows
<1>3. ControlOK'
  BY <1>1 DEF Sound, ControlOK
<1>4. TrailOK'
  BY <1>1 DEF Sound, TrailOK
<1> QED BY <1>2, <1>3, <1>4 DEF Sound

LEMMA BeginSound ==
  ASSUME Sound, Begin
  PROVE  Sound'
<1>1. /\ doing = "idle" /\ turn \in {"startup", "between"}
      /\ turn' = "open" /\ journalling' = TRUE /\ path' = <<rows>>
      /\ UNCHANGED <<count, cardinality, labelled, forward, reverse, outermost, journal,
                     history, paths, live, doing, work, victim>>
  BY DEF Begin, shape, rows
<1>2. ShapeOK' /\ CacheOK' /\ HistoryOK' /\ (rows \in GoodRows)' /\ ControlOK'
  BY <1>1 DEF Sound, ShapeOK, CacheOK, HistoryOK, ControlOK, rows
<1>3. journal = <<>> /\ rows \in GoodRows
  BY <1>1 DEF Sound, TrailOK
<1> HIDE DEF rows
<1>4. path' \in Seq(GoodRows) /\ Len(path') = 1
  BY <1>1, <1>3, OneElement
<1>5. TrailOK'
  BY <1>1, <1>3, <1>4 DEF TrailOK, Sound
<1> QED BY <1>2, <1>5 DEF Sound

LEMMA KeptProperties ==
  ASSUME NEW S, NEW s \in Seq(S)
  PROVE  /\ Kept(s) \in Seq(S)
         /\ Len(Kept(s)) = IF Len(s) >= UndoDepth THEN Len(s) - 1 ELSE Len(s)
         /\ \A n \in 1..Len(Kept(s)) :
              Kept(s)[n] = IF Len(s) >= UndoDepth THEN s[n + 1] ELSE s[n]
<1>1. CASE Len(s) >= UndoDepth
  <2>1. s # <<>> /\ Len(s) \in Nat
    BY <1>1, Constants
  <2>2. Kept(s) = Tail(s)
    BY <1>1 DEF Kept
  <2>3. /\ Tail(s) \in Seq(S) /\ Len(Tail(s)) = Len(s) - 1
        /\ \A n \in 1..Len(Tail(s)) : Tail(s)[n] = s[n + 1]
    BY <2>1, HeadTailProperties
  <2> QED BY <1>1, <2>2, <2>3
<1>2. CASE ~(Len(s) >= UndoDepth)
  BY <1>2 DEF Kept
<1> QED BY <1>1, <1>2

LEMMA TakeJournalSound ==
  ASSUME Sound, doing = "idle", NEW elsewhere \in BOOLEAN, TakeJournal(elsewhere)
  PROVE  /\ HistoryOK'
         /\ journal' = <<>> /\ path' = <<rows>>
<1>0. journal' = <<>> /\ path' = <<rows>>
  BY DEF TakeJournal
<1>1. /\ history \in Seq(Seq(Change)) /\ paths \in Seq(Seq(GoodRows))
      /\ Len(paths) = Len(history)
      /\ \A n \in 1..Len(history) : Len(paths[n]) = Len(history[n]) + 1
  BY DEF Sound, HistoryOK
<1>2. journal \in Seq(Change) /\ path \in Seq(GoodRows) /\ Len(path) = Len(journal) + 1
  BY DEF Sound, TrailOK
<1>3. CASE UNCHANGED <<history, paths>>
  BY <1>0, <1>1, <1>3 DEF HistoryOK
<1>4. CASE history' = Append(Kept(history), journal) /\ paths' = Append(Kept(paths), path)
  <2> DEFINE h == Kept(history)
             p == Kept(paths)
  <2>1. /\ h \in Seq(Seq(Change))
        /\ Len(h) = IF Len(history) >= UndoDepth THEN Len(history) - 1 ELSE Len(history)
        /\ \A n \in 1..Len(h) : h[n] = IF Len(history) >= UndoDepth THEN history[n + 1] ELSE history[n]
    BY <1>1, KeptProperties
  <2>2. /\ p \in Seq(Seq(GoodRows))
        /\ Len(p) = IF Len(paths) >= UndoDepth THEN Len(paths) - 1 ELSE Len(paths)
        /\ \A n \in 1..Len(p) : p[n] = IF Len(paths) >= UndoDepth THEN paths[n + 1] ELSE paths[n]
    BY <1>1, KeptProperties
  <2> HIDE DEF h, p
  <2>3. Len(h) = Len(p) /\ Len(h) \in Nat
    BY <1>1, <2>1, <2>2
  <2>4. \A n \in 1..Len(h) : Len(p[n]) = Len(h[n]) + 1
    <3>1. CASE Len(history) >= UndoDepth
      <4>1. ASSUME NEW n \in 1..Len(h) PROVE Len(p[n]) = Len(h[n]) + 1
        <5>1. n + 1 \in 1..Len(history)
          BY <1>1, <2>1, <3>1
        <5>2. h[n] = history[n + 1] /\ p[n] = paths[n + 1]
          BY <1>1, <2>1, <2>2, <2>3, <3>1
        <5> QED BY <1>1, <5>1, <5>2
      <4> QED BY <4>1
    <3>2. CASE ~(Len(history) >= UndoDepth)
      BY <1>1, <2>1, <2>2, <3>2
    <3> QED BY <3>1, <3>2
  <2>5. /\ history' \in Seq(Seq(Change)) /\ Len(history') = Len(h) + 1
        /\ \A n \in 1..Len(h) : history'[n] = h[n]
        /\ history'[Len(h) + 1] = journal
    BY <1>2, <1>4, <2>1, AppendProperties DEF h
  <2>6. /\ paths' \in Seq(Seq(GoodRows)) /\ Len(paths') = Len(p) + 1
        /\ \A n \in 1..Len(p) : paths'[n] = p[n]
        /\ paths'[Len(p) + 1] = path
    BY <1>2, <1>4, <2>2, AppendProperties DEF p
  <2>7. ASSUME NEW n \in 1..Len(history') PROVE Len(paths'[n]) = Len(history'[n]) + 1
    <3>1. CASE n = Len(h) + 1
      <4>1. history'[n] = journal /\ paths'[n] = path
        BY <3>1, <2>3, <2>5, <2>6
      <4> QED BY <4>1, <1>2
    <3>2. CASE n # Len(h) + 1
      <4>1. n \in 1..Len(h)
        BY <3>2, <2>3, <2>5
      <4>2. history'[n] = h[n] /\ paths'[n] = p[n]
        BY <4>1, <2>3, <2>5, <2>6
      <4> QED BY <4>1, <4>2, <2>4
    <3> QED BY <3>1, <3>2
  <2> QED BY <1>0, <2>3, <2>5, <2>6, <2>7 DEF HistoryOK
<1> QED BY <1>0, <1>3, <1>4 DEF TakeJournal

LEMMA FinishSound ==
  ASSUME Sound, doing = "idle", NEW elsewhere \in BOOLEAN, TakeJournal(elsewhere),
         UNCHANGED <<shape, rows, outermost, live, doing, work, victim>>,
         journalling' \in BOOLEAN, turn' \in {"between", "open", "failed"},
         turn' = "between" => ~journalling'
  PROVE  Sound'
<1>1. HistoryOK' /\ journal' = <<>> /\ path' = <<rows>>
  BY TakeJournalSound
<1>2. UNCHANGED <<count, cardinality, labelled, forward, reverse, outermost, live, doing, work, victim>>
  BY DEF shape, rows
<1>3. ShapeOK' /\ CacheOK' /\ (rows \in GoodRows)' /\ ControlOK'
  BY <1>2 DEF Sound, ShapeOK, CacheOK, ControlOK, rows
<1>4. rows \in GoodRows
  BY DEF Sound
<1> HIDE DEF rows
<1>5. path' \in Seq(GoodRows) /\ Len(path') = 1
  BY <1>1, <1>4, OneElement
<1>6. TrailOK'
  BY <1>1, <1>2, <1>5, EmptySeq DEF TrailOK, Sound
<1> QED BY <1>1, <1>3, <1>6 DEF Sound

LEMMA RollbackSound ==
  ASSUME Sound, Rollback
  PROVE  Sound'
<1>1. /\ doing = "idle" /\ turn = "open" /\ turn' = "failed" /\ doing' = "revert"
      /\ work' = journal /\ journal' = <<>>
      /\ UNCHANGED <<count, cardinality, labelled, forward, reverse, outermost, journalling,
                     history, paths, live, victim, path>>
  BY DEF Rollback, shape, rows
<1>2. ShapeOK' /\ CacheOK' /\ HistoryOK' /\ (rows \in GoodRows)'
  BY <1>1 DEF Sound, ShapeOK, CacheOK, HistoryOK, rows
<1>3. Change \subseteq Delta
  BY DEF Change
<1>4. /\ journal \in Seq(Change) /\ journal \in Seq(Delta) /\ path \in Seq(GoodRows)
      /\ Len(path) = Len(journal) + 1
  BY <1>1, <1>3, SeqMonotonic DEF Sound, TrailOK
<1>5. ControlOK'
  BY <1>1, <1>4 DEF Sound, ControlOK
<1>6. TrailOK'
  BY <1>1, <1>4, EmptySeq DEF TrailOK
<1> QED BY <1>2, <1>5, <1>6 DEF Sound

LEMMA FrontProperties ==
  ASSUME NEW S, NEW s \in Seq(S), Len(s) > 0
  PROVE  /\ Front(s) \in Seq(S) /\ Len(Front(s)) = Len(s) - 1
         /\ \A n \in 1..Len(s) - 1 : Front(s)[n] = s[n]
         /\ Last(s) \in S /\ Last(s) = s[Len(s)]
<1> DEFINE m == Len(s) - 1
           t == SubSeq(s, 1, m)
<1>1. Len(s) \in Nat /\ \A n \in 1..Len(s) : s[n] \in S
  OBVIOUS
<1>2. 1 \in Int /\ m \in Int /\ \A n \in 1..m : s[n] \in S
  BY <1>1
<1>3. /\ t \in Seq(S) /\ Len(t) = IF 1 <= m THEN m - 1 + 1 ELSE 0
      /\ \A n \in 1..m - 1 + 1 : t[n] = s[1 + n - 1]
  <2> HIDE DEF m
  <2> QED BY <1>2, SubSeqProperties
<1>4. Front(s) = t
  BY DEF Front
<1>5. Last(s) \in S /\ Last(s) = s[Len(s)]
  BY <1>1 DEF Last
<1> HIDE DEF t
<1>6. m \in Nat
  BY <1>1
<1>7. t \in Seq(S) /\ Len(t) = m
  <2> HIDE DEF m
  <2> QED BY <1>3, <1>6
<1>8. \A n \in 1..m : t[n] = s[n]
  <2> HIDE DEF m
  <2>1. ASSUME NEW n \in 1..m PROVE t[n] = s[n]
    <3>1. n \in 1..m - 1 + 1 /\ 1 + n - 1 = n
      BY <1>6
    <3>2. t[n] = s[1 + n - 1]
      BY <1>3, <3>1
    <3> QED BY <3>1, <3>2
  <2> QED BY <2>1
<1> QED BY <1>4, <1>5, <1>7, <1>8

LEMMA UndoSound ==
  ASSUME Sound, Undo
  PROVE  Sound'
<1>1. /\ doing = "idle" /\ turn \in {"open", "failed"} /\ turn' = turn /\ doing' = "revert"
      /\ journal' = <<>> /\ journalling' = FALSE
      /\ UNCHANGED <<count, cardinality, labelled, forward, reverse, outermost, live, victim>>
  BY DEF Undo, shape, rows
<1>2. ShapeOK' /\ CacheOK' /\ (rows \in GoodRows)'
  BY <1>1 DEF Sound, ShapeOK, CacheOK, rows
<1>3. Change \subseteq Delta
  BY DEF Change
<1>4. /\ journal \in Seq(Change) /\ path \in Seq(GoodRows)
      /\ Len(path) = Len(journal) + 1
  BY <1>1 DEF Sound, TrailOK
<1>5. /\ history \in Seq(Seq(Change)) /\ paths \in Seq(Seq(GoodRows))
      /\ Len(paths) = Len(history)
      /\ \A n \in 1..Len(history) : Len(paths[n]) = Len(history[n]) + 1
  BY DEF Sound, HistoryOK
<1>6. /\ HistoryOK' /\ work' \in Seq(Change) /\ path' \in Seq(GoodRows)
      /\ Len(path') = Len(work') + 1
  <2>1. CASE history = <<>>
    <3>1. work' = journal /\ UNCHANGED <<history, paths, path>>
      BY <2>1 DEF Undo
    <3> QED BY <1>4, <1>5, <3>1 DEF HistoryOK
  <2>2. CASE history # <<>>
    <3> DEFINE h == Last(history)
               p == Last(paths)
    <3>1. /\ work' = h \o journal /\ path' = Front(p) \o path
          /\ history' = Front(history) /\ paths' = Front(paths)
      BY <2>2 DEF Undo
    <3>2. Len(history) \in Nat /\ Len(history) > 0
      BY <1>5, <2>2, EmptySeq
    <3>3. /\ Front(history) \in Seq(Seq(Change)) /\ Len(Front(history)) = Len(history) - 1
          /\ \A n \in 1..Len(history) - 1 : Front(history)[n] = history[n]
          /\ h \in Seq(Change) /\ h = history[Len(history)]
      BY <1>5, <3>2, FrontProperties
    <3>4. /\ Front(paths) \in Seq(Seq(GoodRows)) /\ Len(Front(paths)) = Len(paths) - 1
          /\ \A n \in 1..Len(paths) - 1 : Front(paths)[n] = paths[n]
          /\ p \in Seq(GoodRows) /\ p = paths[Len(paths)]
      BY <1>5, <3>2, FrontProperties
    <3> HIDE DEF h, p
    <3>5. Len(p) = Len(h) + 1 /\ Len(h) \in Nat
      <4>1. Len(history) \in 1..Len(history)
        BY <3>2
      <4>2. Len(paths[Len(history)]) = Len(history[Len(history)]) + 1
        BY <1>5, <4>1
      <4> QED BY <1>5, <3>3, <3>4, <4>2
    <3>6. HistoryOK'
      <4> DEFINE fh == Front(history)
                 fp == Front(paths)
      <4>1. \A n \in 1..Len(history) - 1 : Len(fp[n]) = Len(fh[n]) + 1
        <5>1. ASSUME NEW n \in 1..Len(history) - 1 PROVE Len(fp[n]) = Len(fh[n]) + 1
          <6>1. n \in 1..Len(history)
            BY <3>2
          <6>2. fh[n] = history[n] /\ fp[n] = paths[n]
            BY <1>5, <3>3, <3>4
          <6> HIDE DEF fh, fp
          <6> QED BY <1>5, <6>1, <6>2
        <5> QED BY <5>1
      <4>2. /\ fh \in Seq(Seq(Change)) /\ fp \in Seq(Seq(GoodRows))
            /\ Len(fh) = Len(history) - 1 /\ Len(fp) = Len(fh)
        BY <1>5, <3>3, <3>4
      <4>3. history' = fh /\ paths' = fp
        BY <3>1
      <4> HIDE DEF fh, fp
      <4> QED BY <4>1, <4>2, <4>3 DEF HistoryOK
    <3>7. Front(p) \in Seq(GoodRows) /\ Len(Front(p)) = Len(p) - 1
      <4>1. Len(p) > 0
        BY <3>5
      <4> QED BY <3>4, <4>1, FrontProperties
    <3>8. work' \in Seq(Change) /\ Len(work') = Len(h) + Len(journal)
      BY <1>4, <3>1, <3>3, ConcatProperties
    <3>9. path' \in Seq(GoodRows) /\ Len(path') = Len(Front(p)) + Len(path)
      BY <1>4, <3>1, <3>7, ConcatProperties
    <3>10. Len(journal) \in Nat
      BY <1>4
    <3> QED BY <1>4, <3>5, <3>6, <3>7, <3>8, <3>9, <3>10
  <2> QED BY <2>1, <2>2
<1>7. work' \in Seq(Delta)
  BY <1>3, <1>6, SeqMonotonic
<1>8. ControlOK'
  BY <1>1, <1>7 DEF Sound, ControlOK
<1>9. TrailOK'
  BY <1>1, <1>6, EmptySeq DEF TrailOK
<1> QED BY <1>2, <1>6, <1>8, <1>9 DEF Sound

LEMMA RevertSound ==
  ASSUME Sound, Revert
  PROVE  Sound'
<1> DEFINE d == Last(work)
           before == Reversed(d, rows)
<1>1. /\ doing = "revert" /\ doing' = doing /\ work # <<>>
      /\ work' = Front(work) /\ path' = Front(path)
      /\ SetRows(before)
      /\ outermost' = outermost \/ ClearCache(d.relation)
      /\ UNCHANGED <<count, cardinality, labelled, journal, journalling, history, turn, paths,
                     live, victim>>
  <2> HIDE DEF before
  <2> QED BY DEF Revert, shape, cycle, before
<1>2. /\ work \in Seq(Change) /\ Len(path) = Len(work) + 1 /\ journal = <<>>
      /\ path \in Seq(GoodRows)
  BY <1>1 DEF Sound, TrailOK
<1>3. Len(work) \in Nat /\ Len(work) > 0
  BY <1>1, <1>2, EmptySeq
<1>4. Front(work) \in Seq(Change) /\ Len(Front(work)) = Len(work) - 1 /\ d \in Change
  BY <1>2, <1>3, FrontProperties
<1>5. Front(path) \in Seq(GoodRows) /\ Len(Front(path)) = Len(path) - 1
  BY <1>2, <1>3, FrontProperties
<1>6. before \in GoodRows
  BY <1>4, ReversedGood DEF Sound
<1>7. before = <<before[1], before[2]>>
  BY <1>6, RowsShape DEF GoodRows
<1> HIDE DEF d, before
<1>8. rows' = before
  BY <1>1, <1>7 DEF SetRows, rows
<1>9. d \in Delta /\ d.relation \in Tables
  BY <1>4 DEF Change, Delta
<1>10. CacheOK'
  <2>1. CacheOK
    BY DEF Sound
  <2>2. CASE outermost' = outermost
    BY <2>1, <2>2 DEF CacheOK
  <2>3. CASE ClearCache(d.relation)
    BY <1>9, <2>1, <2>3, ClearCacheOK
  <2> QED BY <1>1, <2>2, <2>3
<1>11. ShapeOK' /\ HistoryOK'
  BY <1>1 DEF Sound, ShapeOK, HistoryOK
<1>12. work' \in Seq(Delta)
  <2>1. Change \subseteq Delta
    BY DEF Change
  <2> QED BY <1>1, <1>4, <2>1, SeqMonotonic
<1>13. ControlOK'
  BY <1>1, <1>12 DEF Sound, ControlOK
<1>14. TrailOK'
  BY <1>1, <1>2, <1>3, <1>4, <1>5 DEF Sound, TrailOK
<1> QED BY <1>6, <1>8, <1>10, <1>11, <1>13, <1>14 DEF Sound

LEMMA RevertedSound ==
  ASSUME Sound, Reverted
  PROVE  Sound'
<1>1. /\ doing = "revert" /\ work = <<>> /\ doing' = "idle"
      /\ UNCHANGED <<count, cardinality, labelled, forward, reverse, outermost, journal,
                     journalling, history, turn, paths, live, work, victim, path>>
  BY DEF Reverted, shape, cycle, rows
<1>2. ShapeOK' /\ CacheOK' /\ HistoryOK' /\ (rows \in GoodRows)' /\ ControlOK'
  BY <1>1 DEF Sound, ShapeOK, CacheOK, HistoryOK, ControlOK, rows
<1>3. TrailOK'
  BY <1>1 DEF Sound, TrailOK
<1> QED BY <1>2, <1>3 DEF Sound

LEMMA StutterSound ==
  ASSUME Sound, UNCHANGED vars
  PROVE  Sound'
<1>1. UNCHANGED <<count, cardinality, labelled, forward, reverse, outermost, journal,
                  journalling, history, turn, paths, live, doing, work, victim, path>>
  BY DEF vars, shape, cycle, rows
<1> QED BY <1>1 DEF Sound, ShapeOK, CacheOK, HistoryOK, ControlOK, TrailOK, rows

LEMMA NextSound == Sound /\ [Next]_vars => Sound'
<1> SUFFICES ASSUME Sound, [Next]_vars PROVE Sound'
  OBVIOUS
<1>1. ASSUME NEW k \in Keys, NEW p \in Pairs, Set(k, p[1], p[2]) PROVE Sound'
  BY <1>1, Constants, SetSound
<1>2. ASSUME NEW k \in Keys, NEW p \in Pairs, Unset(k, p[1], p[2]) PROVE Sound'
  BY <1>2, Constants, UnsetSound
<1>3. ASSUME NEW k \in Keys, NEW e \in Walked, Outermost(k, e) PROVE Sound'
  BY <1>3, Constants, OutermostSound
<1>4. ASSUME NEW e \in Mortal, Despawn(e) PROVE Sound'
  BY <1>4, Constants, DespawnSound
<1>5. ASSUME NEW elsewhere \in BOOLEAN, End(elsewhere) PROVE Sound'
  BY <1>5, FinishSound DEF End
<1>6. ASSUME NEW elsewhere \in BOOLEAN, Savepoint(elsewhere) PROVE Sound'
  BY <1>6, FinishSound DEF Savepoint
<1> QED BY <1>1, <1>2, <1>3, <1>4, <1>5, <1>6, EditSound, EditedSound, BeginSound,
           RollbackSound, UndoSound, RevertSound, RevertedSound, StutterSound DEF Next

LEMMA SoundAlways == Spec => []Sound
BY InitSound, NextSound, PTL DEF Spec

(* Whatever operations a game calls, every variable keeps its type. *)
THEOREM TypeCorrect == Spec => []TypeOK
BY SoundAlways, SoundImplies, PTL

(* The two indexes of every table hold the same rows, none of them twice,  *)
(* in the middle of set, forget and revert too.                            *)
THEOREM IndexesAgree == Spec => []Mirrored
BY SoundAlways, SoundImplies, PTL

(***************************************************************************)
(* Cached walks                                                            *)
(***************************************************************************)
LEMMA ReversedElsewhere ==
  ASSUME NEW r \in GoodRows, NEW d \in Change, NEW j \in Tables, j # d.relation
  PROVE  Reversed(d, r)[2][j] = r[2][j]
<1>1. r = <<r[1], r[2]>> /\ r[2] \in [Tables -> [Entities -> Seq(Entities)]]
  BY RowsShape DEF GoodRows
<1>2. \/ Reversed(d, r) = r
      \/ \E t : Reversed(d, r)[2] = [r[2] EXCEPT ![d.relation] = t]
  <2> DEFINE i == d.relation
             y == d.right
             t == [r[2][i] EXCEPT ![y] = Without(r[2][i][y], d.left)]
             u == [r[2][i] EXCEPT ![y] = PutAt(r[2][i][y], d.reverse_position, d.left)]
  <2>1. \/ Reversed(d, r) = r
        \/ Reversed(d, r)[2] = [r[2] EXCEPT ![i] = t]
        \/ Reversed(d, r)[2] = [r[2] EXCEPT ![i] = u]
    BY DEF Reversed, Retract
  <2> HIDE DEF t, u
  <2> QED BY <2>1
<1> QED BY <1>1, <1>2

LEMMA CacheFreshStep == Sound /\ CacheFresh /\ [Next]_vars => CacheFresh'
<1> SUFFICES ASSUME Sound, CacheFresh, [Next]_vars PROVE CacheFresh'
  OBVIOUS
<1>1. CASE UNCHANGED <<reverse, outermost>>
  BY <1>1 DEF CacheFresh
<1>2. ASSUME NEW i \in Tables, ClearCache(i),
             \A j \in Tables : j # i => reverse'[j] = reverse[j]
      PROVE  CacheFresh'
  <2>1. ASSUME NEW j \in Tables, NEW e \in Entities, outermost'[j][e] # NoOne
        PROVE  outermost'[j][e] = TopOf(reverse'[j], e)
    <3>1. CASE j = i
      BY <1>2, <2>1, <3>1 DEF ClearCache, Sound, CacheOK
    <3>2. CASE j # i
      <4>1. outermost'[j][e] = outermost[j][e]
        BY <1>2, <3>2 DEF ClearCache, Sound, CacheOK
      <4> QED BY <1>2, <2>1, <3>2, <4>1 DEF CacheFresh
    <3> QED BY <3>1, <3>2
  <2> QED BY <2>1 DEF CacheFresh
<1>3. ASSUME NEW k \in Keys, NEW e \in Walked, Outermost(k, e) PROVE CacheFresh'
  <2> DEFINE i == TableOf(k)
  <2>1. i \in Tables
    BY <1>3, EnsureSound DEF Sound, Outermost
  <2>2. e \in Entities
    BY Constants
  <2>3. reverse' = reverse
    BY <1>3 DEF Outermost, rows
  <2>4. \/ outermost' = outermost
        \/ outermost' = [outermost EXCEPT ![i][e] = TopOf(reverse[i], e)]
    BY <1>3 DEF Outermost
  <2> HIDE DEF i
  <2>5. CASE outermost' = outermost
    BY <1>1, <2>3, <2>5
  <2>6. CASE outermost' = [outermost EXCEPT ![i][e] = TopOf(reverse[i], e)]
    <3>1. ASSUME NEW j \in Tables, NEW f \in Entities
          PROVE  \/ outermost'[j][f] = outermost[j][f]
                 \/ j = i /\ f = e /\ outermost'[j][f] = TopOf(reverse[j], f)
      <4> DEFINE top == TopOf(reverse[i], e)
      <4>1. outermost \in [Tables -> [Entities -> Entities \cup {NoOne}]]
        BY DEF Sound, CacheOK
      <4>2. outermost' = [outermost EXCEPT ![i] = [outermost[i] EXCEPT ![e] = top]]
        BY <2>6
      <4>3. top = TopOf(reverse[i], e)
        OBVIOUS
      <4> HIDE DEF top
      <4>4. CASE j = i /\ f = e
        <5>1. outermost'[j][f] = top
          BY <2>1, <2>2, <4>1, <4>2, <4>4
        <5> QED BY <4>3, <4>4, <5>1
      <4>5. CASE j # i \/ f # e
        <5>1. outermost'[j][f] = outermost[j][f]
          BY <2>1, <2>2, <4>1, <4>2, <4>5
        <5> QED BY <5>1
      <4> QED BY <4>4, <4>5
    <3> QED BY <2>3, <3>1 DEF CacheFresh
  <2> QED BY <2>4, <2>5, <2>6
<1>4. CASE Edit
  <2> DEFINE i == Head(work).relation
  <2>1. /\ Head(work) \in Delta
        /\ \/ UNCHANGED <<rows, outermost, journal, path>>
           \/ /\ ClearCache(i)
              /\ \E d \in Change, r \in GoodRows :
                   SetRows(r) /\ \A j \in Tables : j # i => r[2][j] = reverse[j]
    BY <1>4, EditCases
  <2>2. i \in Tables
    BY <2>1 DEF Delta
  <2>3. CASE UNCHANGED <<rows, outermost, journal, path>>
    BY <1>1, <2>3 DEF rows
  <2>4. CASE /\ ClearCache(i)
             /\ \E d \in Change, r \in GoodRows :
                  SetRows(r) /\ \A j \in Tables : j # i => r[2][j] = reverse[j]
    <3>1. PICK r \in GoodRows : SetRows(r) /\ \A j \in Tables : j # i => r[2][j] = reverse[j]
      BY <2>4
    <3>2. reverse' = r[2]
      BY <3>1 DEF SetRows
    <3>3. \A j \in Tables : j # i => reverse'[j] = reverse[j]
      BY <3>1, <3>2
    <3> HIDE DEF i
    <3> QED BY <1>2, <2>2, <2>4, <3>3
  <2> QED BY <2>1, <2>3, <2>4
<1>5. CASE Revert
  <2> DEFINE d == Last(work)
             before == Reversed(d, rows)
  <2>1. /\ work \in Seq(Change) /\ work # <<>>
    BY <1>5 DEF Revert, Sound, TrailOK
  <2>2. Len(work) \in Nat /\ Len(work) > 0
    BY <2>1, EmptySeq
  <2>3. d \in Change
    BY <2>1, <2>2, FrontProperties
  <2>4. d.relation \in Tables
    BY <2>3 DEF Change, Delta
  <2>5. reverse' = before[2] /\ forward' = before[1]
    BY <1>5 DEF Revert, SetRows
  <2>6. (before = rows /\ UNCHANGED outermost) \/ ClearCache(d.relation)
    BY <1>5 DEF Revert
  <2>7. rows \in GoodRows /\ rows[2] = reverse
    BY DEF Sound, rows
  <2>8. \A j \in Tables : j # d.relation => before[2][j] = rows[2][j]
    BY <2>3, <2>7, ReversedElsewhere
  <2> HIDE DEF d, before, rows
  <2>9. CASE before = rows /\ UNCHANGED outermost
    BY <1>1, <2>5, <2>7, <2>9
  <2>10. CASE ClearCache(d.relation)
    <3>1. \A j \in Tables : j # d.relation => reverse'[j] = reverse[j]
      BY <2>5, <2>7, <2>8
    <3> QED BY <1>2, <2>4, <2>10, <3>1
  <2> QED BY <2>6, <2>9, <2>10
<1>6. \/ UNCHANGED <<reverse, outermost>>
      \/ \E k \in Keys, e \in Walked : Outermost(k, e)
      \/ Edit \/ Revert
  BY DEF Next, Set, Unset, Despawn, Edited, Reverted, Begin, Rollback, Undo, End, Savepoint,
     vars, rows
<1> QED BY <1>1, <1>3, <1>4, <1>5, <1>6

(* An entity's cached outermost container is the one the walk would find,  *)
(* whatever was set, taken out, put back or asked before.                  *)
THEOREM CachedWalksFresh == Spec => []CacheFresh
<1>1. Init => CacheFresh
  BY DEF Init, CacheFresh
<1> QED BY <1>1, SoundAlways, CacheFreshStep, PTL DEF Spec

(***************************************************************************)
(* Rollback and undo put every row back.  The argument is a trail: each    *)
(* recorded change, reversed, gives the rows before it, and the trails of  *)
(* the finished cycles and of the open one join end to end.                *)
(***************************************************************************)
Trailing(ds, p) == \A n \in 1..Len(ds) : Reversed(ds[n], p[n + 1]) = p[n]

(* Trails that join end to end. *)
Linked(h, ps, first) ==
  /\ \A n \in 1..Len(h) : Trailing(h[n], ps[n])
  /\ \A n \in 1..Len(h) - 1 : Last(ps[n]) = ps[n + 1][1]
  /\ Len(h) > 0 => Last(ps[Len(h)]) = first

(* The trail of a game that changes nothing after undo in the same turn.   *)
QuietTrail ==
  /\ turn = "startup" => history = <<>> /\ doing # "revert"
  /\ turn # "startup" /\ doing # "revert" => Trailing(journal, path) /\ Last(path) = rows
  /\ turn # "startup" /\ doing = "edit" => journalling
  /\ doing = "revert" => Trailing(work, path) /\ Last(path) = rows
  /\ turn # "startup" => Linked(history, paths, path[1])

LEMMA LastOfAppend ==
  ASSUME NEW S, NEW s \in Seq(S), NEW e \in S
  PROVE  /\ Append(s, e) \in Seq(S) /\ Len(Append(s, e)) = Len(s) + 1
         /\ Last(Append(s, e)) = e
         /\ \A n \in 1..Len(s) : Append(s, e)[n] = s[n]
<1> DEFINE a == Append(s, e)
<1>1. /\ a \in Seq(S) /\ Len(a) = Len(s) + 1 /\ a[Len(s) + 1] = e
      /\ \A n \in 1..Len(s) : a[n] = s[n]
  BY AppendProperties
<1> HIDE DEF a
<1>2. Last(a) = e
  BY <1>1 DEF Last
<1> QED BY <1>1, <1>2 DEF a

LEMMA ExtendTrail ==
  ASSUME NEW ds \in Seq(Change), NEW p \in Seq(GoodRows), Len(p) = Len(ds) + 1,
         Trailing(ds, p), NEW d \in Change, NEW r \in GoodRows, Reversed(d, r) = Last(p)
  PROVE  /\ Trailing(Append(ds, d), Append(p, r))
         /\ Last(Append(p, r)) = r
         /\ Append(p, r)[1] = p[1]
<1> DEFINE es == Append(ds, d)
           q == Append(p, r)
<1>1. /\ es \in Seq(Change) /\ Len(es) = Len(ds) + 1 /\ Last(es) = d
      /\ \A n \in 1..Len(ds) : es[n] = ds[n]
  BY LastOfAppend
<1>2. /\ q \in Seq(GoodRows) /\ Len(q) = Len(p) + 1 /\ Last(q) = r
      /\ \A n \in 1..Len(p) : q[n] = p[n]
  BY LastOfAppend
<1> HIDE DEF es, q
<1>3. Len(ds) \in Nat
  OBVIOUS
<1>4. ASSUME NEW n \in 1..Len(es) PROVE Reversed(es[n], q[n + 1]) = q[n]
  <2>1. CASE n = Len(es)
    <3>1. es[n] = d /\ q[n + 1] = r /\ q[n] = Last(p)
      BY <1>1, <1>2, <1>3, <2>1 DEF Last
    <3> QED BY <3>1
  <2>2. CASE n # Len(es)
    <3>1. n \in 1..Len(ds) /\ n \in 1..Len(p) /\ n + 1 \in 1..Len(p)
      BY <1>1, <1>3, <2>2
    <3>2. es[n] = ds[n] /\ q[n] = p[n] /\ q[n + 1] = p[n + 1]
      BY <1>1, <1>2, <3>1
    <3> QED BY <3>1, <3>2 DEF Trailing
  <2> QED BY <2>1, <2>2
<1>5. q[1] = p[1]
  BY <1>2, <1>3
<1> QED BY <1>2, <1>4, <1>5 DEF Trailing, es, q

LEMMA ShortenTrail ==
  ASSUME NEW ds \in Seq(Change), NEW p \in Seq(GoodRows), Len(p) = Len(ds) + 1, Len(ds) > 0,
         Trailing(ds, p)
  PROVE  /\ Trailing(Front(ds), Front(p))
         /\ Last(Front(p)) = Reversed(Last(ds), Last(p))
         /\ Front(p)[1] = p[1]
<1> DEFINE es == Front(ds)
           q == Front(p)
<1>1. /\ es \in Seq(Change) /\ Len(es) = Len(ds) - 1
      /\ \A n \in 1..Len(ds) - 1 : es[n] = ds[n]
      /\ Last(ds) = ds[Len(ds)]
  BY FrontProperties
<1>2. Len(ds) \in Nat /\ Len(p) > 0
  OBVIOUS
<1>3. /\ q \in Seq(GoodRows) /\ Len(q) = Len(p) - 1
      /\ \A n \in 1..Len(p) - 1 : q[n] = p[n]
      /\ Last(p) = p[Len(p)]
  BY <1>2, FrontProperties
<1> HIDE DEF es, q
<1>4. ASSUME NEW n \in 1..Len(es) PROVE Reversed(es[n], q[n + 1]) = q[n]
  <2>1. n \in 1..Len(ds) /\ n \in 1..Len(ds) - 1 /\ n \in 1..Len(p) - 1 /\ n + 1 \in 1..Len(p) - 1
    BY <1>1, <1>2
  <2>2. es[n] = ds[n] /\ q[n] = p[n] /\ q[n + 1] = p[n + 1]
    BY <1>1, <1>3, <2>1
  <2> QED BY <2>1, <2>2 DEF Trailing
<1>5. Last(q) = p[Len(ds)]
  <2>1. Len(q) = Len(ds) /\ Len(ds) \in 1..Len(p) - 1
    BY <1>2, <1>3
  <2> QED BY <1>3, <2>1 DEF Last
<1>6. Reversed(ds[Len(ds)], p[Len(ds) + 1]) = p[Len(ds)]
  BY <1>2 DEF Trailing
<1>7. q[1] = p[1]
  BY <1>2, <1>3
<1> QED BY <1>1, <1>2, <1>3, <1>4, <1>5, <1>6, <1>7 DEF Trailing, es, q

LEMMA JoinTrails ==
  ASSUME NEW h \in Seq(Change), NEW p \in Seq(GoodRows), Len(p) = Len(h) + 1, Trailing(h, p),
         NEW ds \in Seq(Change), NEW q \in Seq(GoodRows), Len(q) = Len(ds) + 1,
         Trailing(ds, q), Last(p) = q[1]
  PROVE  /\ Trailing(h \o ds, Front(p) \o q)
         /\ Last(Front(p) \o q) = Last(q)
         /\ (Front(p) \o q)[1] = p[1]
<1> DEFINE es == h \o ds
           f == Front(p)
           u == f \o q
<1>1. Len(h) \in Nat /\ Len(ds) \in Nat /\ Len(p) > 0
  OBVIOUS
<1>2. /\ f \in Seq(GoodRows) /\ Len(f) = Len(h)
      /\ \A n \in 1..Len(h) : f[n] = p[n]
      /\ p[Len(h) + 1] = q[1]
  <2>1. /\ f \in Seq(GoodRows) /\ Len(f) = Len(p) - 1
        /\ \A n \in 1..Len(p) - 1 : f[n] = p[n]
        /\ Last(p) = p[Len(p)]
    BY <1>1, FrontProperties
  <2> HIDE DEF f
  <2> QED BY <1>1, <2>1
<1> HIDE DEF f
<1>3. /\ es \in Seq(Change) /\ Len(es) = Len(h) + Len(ds)
      /\ \A n \in 1..Len(h) + Len(ds) : es[n] = IF n <= Len(h) THEN h[n] ELSE ds[n - Len(h)]
  BY ConcatProperties
<1>4. /\ u \in Seq(GoodRows) /\ Len(u) = Len(f) + Len(q)
      /\ \A n \in 1..Len(f) + Len(q) : u[n] = IF n <= Len(f) THEN f[n] ELSE q[n - Len(f)]
  <2>1. f \in Seq(GoodRows) /\ q \in Seq(GoodRows)
    BY <1>2
  <2> QED BY ONLY <2>1, ConcatProperties
<1> HIDE DEF es, u
<1>5. \A n \in 1..Len(h) + 1 : u[n] = p[n]
  <2>1. ASSUME NEW n \in 1..Len(h) + 1 PROVE u[n] = p[n]
    <3>1. CASE n <= Len(h)
      <4>1. n \in 1..Len(h) /\ n \in 1..Len(f) + Len(q) /\ n <= Len(f)
        BY <1>1, <1>2, <3>1
      <4>2. u[n] = f[n]
        BY <1>4, <4>1
      <4> QED BY <1>2, <4>1, <4>2
    <3>2. CASE n = Len(h) + 1
      <4>1. n - Len(f) = 1 /\ n \in 1..Len(f) + Len(q) /\ ~(n <= Len(f))
        BY <1>1, <1>2, <3>2
      <4>2. u[n] = q[1]
        BY <1>4, <4>1
      <4> QED BY <1>2, <3>2, <4>2
    <3> QED BY <1>1, <3>1, <3>2
  <2> QED BY <2>1
<1>6. \A m \in 1..Len(q) : u[Len(h) + m] = q[m]
  <2>1. ASSUME NEW m \in 1..Len(q) PROVE u[Len(h) + m] = q[m]
    <3>1. Len(h) + m \in 1..Len(f) + Len(q) /\ ~(Len(h) + m <= Len(f)) /\ Len(h) + m - Len(f) = m
      BY <1>1, <1>2
    <3> QED BY <1>4, <3>1
  <2> QED BY <2>1
<1>7. ASSUME NEW n \in 1..Len(es) PROVE Reversed(es[n], u[n + 1]) = u[n]
  <2>1. CASE n <= Len(h)
    <3>1. n \in 1..Len(h) /\ n \in 1..Len(h) + 1 /\ n + 1 \in 1..Len(h) + 1
      BY <1>1, <2>1
    <3>2. es[n] = h[n] /\ u[n] = p[n] /\ u[n + 1] = p[n + 1]
      BY <1>3, <1>5, <2>1, <3>1
    <3> QED BY <3>1, <3>2 DEF Trailing
  <2>2. CASE ~(n <= Len(h))
    <3> DEFINE m == n - Len(h)
    <3>1. m \in 1..Len(ds) /\ m \in 1..Len(q) /\ m + 1 \in 1..Len(q)
          /\ n = Len(h) + m /\ n + 1 = Len(h) + (m + 1)
      BY <1>1, <1>3, <2>2
    <3>2. es[n] = ds[m]
      BY <1>3, <2>2
    <3> HIDE DEF m
    <3>3. u[n] = q[m] /\ u[n + 1] = q[m + 1]
      BY <1>6, <3>1
    <3> QED BY <3>1, <3>2, <3>3 DEF Trailing
  <2> QED BY <2>1, <2>2
<1>8. Last(u) = Last(q)
  <2>1. Len(u) = Len(h) + Len(q) /\ Len(q) \in 1..Len(q)
    BY <1>1, <1>2, <1>4
  <2> QED BY <1>6, <2>1 DEF Last
<1>9. u[1] = p[1]
  BY <1>1, <1>5
<1> QED BY <1>7, <1>8, <1>9 DEF Trailing, es, f, u

(* Forgetting the oldest cycle, and adding one, keep the trails linked.    *)
LEMMA KeptLinked ==
  ASSUME NEW h \in Seq(Seq(Change)), NEW ps \in Seq(Seq(GoodRows)), Len(ps) = Len(h), NEW first,
         Linked(h, ps, first)
  PROVE  Linked(Kept(h), Kept(ps), first)
<1> DEFINE g == Kept(h)
           qs == Kept(ps)
<1>1. /\ Len(g) = IF Len(h) >= UndoDepth THEN Len(h) - 1 ELSE Len(h)
      /\ \A n \in 1..Len(g) : g[n] = IF Len(h) >= UndoDepth THEN h[n + 1] ELSE h[n]
  BY KeptProperties
<1>2. /\ Len(qs) = IF Len(ps) >= UndoDepth THEN Len(ps) - 1 ELSE Len(ps)
      /\ \A n \in 1..Len(qs) : qs[n] = IF Len(ps) >= UndoDepth THEN ps[n + 1] ELSE ps[n]
  BY KeptProperties
<1>3. CASE Len(h) >= UndoDepth
  <2> HIDE DEF g, qs
  <2>1. /\ Len(g) = Len(h) - 1 /\ Len(h) \in Nat
        /\ \A n \in 1..Len(h) - 1 : g[n] = h[n + 1] /\ qs[n] = ps[n + 1]
    <3>1. Len(g) = Len(h) - 1 /\ Len(h) \in Nat /\ Len(qs) = Len(h) - 1
      BY <1>1, <1>2, <1>3
    <3>2. \A n \in 1..Len(h) - 1 : g[n] = h[n + 1]
      BY <1>1, <1>3, <3>1
    <3>3. \A n \in 1..Len(h) - 1 : qs[n] = ps[n + 1]
      BY <1>2, <1>3, <3>1
    <3> QED BY <3>1, <3>2, <3>3
  <2>2. ASSUME NEW n \in 1..Len(g) PROVE Trailing(g[n], qs[n])
    <3>1. n + 1 \in 1..Len(h) /\ g[n] = h[n + 1] /\ qs[n] = ps[n + 1]
      BY <2>1
    <3> QED BY <3>1 DEF Linked
  <2>3. ASSUME NEW n \in 1..Len(g) - 1 PROVE Last(qs[n]) = qs[n + 1][1]
    <3>1. /\ n \in 1..Len(h) - 1 /\ n + 1 \in 1..Len(h) - 1
          /\ qs[n] = ps[n + 1] /\ qs[n + 1] = ps[(n + 1) + 1]
      BY <2>1
    <3>2. Last(ps[n + 1]) = ps[(n + 1) + 1][1]
      BY <3>1 DEF Linked
    <3> QED BY <3>1, <3>2
  <2>4. ASSUME Len(g) > 0 PROVE Last(qs[Len(g)]) = first
    <3>1. Len(g) \in 1..Len(h) - 1 /\ Len(g) + 1 = Len(h)
      BY <2>1, <2>4
    <3>2. qs[Len(g)] = ps[Len(h)] /\ Len(h) > 0
      BY <2>1, <3>1
    <3> QED BY <3>2 DEF Linked
  <2> QED BY <2>2, <2>3, <2>4 DEF Linked, g, qs
<1>4. CASE ~(Len(h) >= UndoDepth)
  <2>1. Kept(h) = h /\ Kept(ps) = ps
    BY <1>4 DEF Kept
  <2> QED BY <2>1
<1> QED BY <1>3, <1>4

LEMMA AppendLinked ==
  ASSUME NEW h \in Seq(Seq(Change)), NEW ps \in Seq(Seq(GoodRows)), Len(ps) = Len(h),
         NEW d \in Seq(Change), NEW p \in Seq(GoodRows), Linked(h, ps, p[1]), Trailing(d, p)
  PROVE  Linked(Append(h, d), Append(ps, p), Last(p))
<1> DEFINE g == Append(h, d)
           qs == Append(ps, p)
<1>1. /\ Len(g) = Len(h) + 1 /\ Last(g) = d /\ \A n \in 1..Len(h) : g[n] = h[n]
      /\ g \in Seq(Seq(Change))
  BY LastOfAppend
<1>2. /\ Len(qs) = Len(ps) + 1 /\ Last(qs) = p /\ \A n \in 1..Len(ps) : qs[n] = ps[n]
      /\ qs \in Seq(Seq(GoodRows))
  BY LastOfAppend
<1> HIDE DEF g, qs
<1>3. Len(h) \in Nat /\ g[Len(h) + 1] = d /\ qs[Len(h) + 1] = p
  BY <1>1, <1>2 DEF Last
<1>4. ASSUME NEW n \in 1..Len(g) PROVE Trailing(g[n], qs[n])
  <2>1. CASE n = Len(h) + 1
    BY <1>3, <2>1
  <2>2. CASE n # Len(h) + 1
    <3>1. n \in 1..Len(h)
      BY <1>1, <1>3, <2>2
    <3>2. g[n] = h[n]
      BY <1>1, <3>1
    <3>3. qs[n] = ps[n]
      BY <1>2, <3>1
    <3> QED BY <3>1, <3>2, <3>3 DEF Linked
  <2> QED BY <2>1, <2>2
<1>5. ASSUME NEW n \in 1..Len(g) - 1 PROVE Last(qs[n]) = qs[n + 1][1]
  <2>1. n \in 1..Len(h) /\ qs[n] = ps[n]
    BY <1>1, <1>2, <1>3
  <2>2. CASE n = Len(h)
    <3>1. Last(ps[n]) = p[1]
      BY <1>3, <2>1, <2>2 DEF Linked
    <3>2. qs[n + 1] = p
      BY <1>3, <2>2
    <3> QED BY <2>1, <3>1, <3>2
  <2>3. CASE n # Len(h)
    <3>1. n \in 1..Len(h) - 1 /\ n + 1 \in 1..Len(h)
      BY <1>3, <2>1, <2>3
    <3>2. qs[n + 1] = ps[n + 1]
      BY <1>2, <3>1
    <3> QED BY <2>1, <3>1, <3>2 DEF Linked
  <2> QED BY <2>2, <2>3
<1>6. Last(qs[Len(g)]) = Last(p)
  BY <1>1, <1>3
<1> QED BY <1>4, <1>5, <1>6 DEF Linked, g, qs

(* Taking the last cycle back. *)
LEMMA FrontLinked ==
  ASSUME NEW h \in Seq(Seq(Change)), NEW ps \in Seq(Seq(GoodRows)), Len(ps) = Len(h),
         Len(h) > 0, NEW first, Linked(h, ps, first)
  PROVE  /\ Linked(Front(h), Front(ps), Last(ps)[1])
         /\ Trailing(Last(h), Last(ps))
         /\ Last(Last(ps)) = first
<1> DEFINE g == Front(h)
           qs == Front(ps)
<1>1. /\ Len(g) = Len(h) - 1 /\ \A n \in 1..Len(h) - 1 : g[n] = h[n]
      /\ Last(h) = h[Len(h)]
  BY FrontProperties
<1>2. /\ Len(qs) = Len(ps) - 1 /\ \A n \in 1..Len(ps) - 1 : qs[n] = ps[n]
      /\ Last(ps) = ps[Len(ps)]
  BY FrontProperties
<1> HIDE DEF g, qs
<1>3. Len(h) \in Nat
  OBVIOUS
<1>4. ASSUME NEW n \in 1..Len(g) PROVE Trailing(g[n], qs[n])
  <2>1. n \in 1..Len(h) /\ g[n] = h[n] /\ qs[n] = ps[n]
    BY <1>1, <1>2, <1>3
  <2> QED BY <2>1 DEF Linked
<1>5. ASSUME NEW n \in 1..Len(g) - 1 PROVE Last(qs[n]) = qs[n + 1][1]
  <2>1. n \in 1..Len(h) - 1 /\ qs[n] = ps[n] /\ qs[n + 1] = ps[n + 1]
    BY <1>1, <1>2, <1>3
  <2> QED BY <2>1 DEF Linked
<1>6. ASSUME Len(g) > 0 PROVE Last(qs[Len(g)]) = Last(ps)[1]
  <2>1. Len(g) \in 1..Len(h) - 1 /\ Len(g) + 1 = Len(ps)
    BY <1>1, <1>3, <1>6
  <2>2. qs[Len(g)] = ps[Len(g)] /\ Last(ps) = ps[Len(g) + 1]
    BY <1>2, <2>1
  <2> QED BY <2>1, <2>2 DEF Linked
<1>7. Trailing(Last(h), Last(ps)) /\ Last(Last(ps)) = first
  <2>1. Len(h) \in 1..Len(h)
    BY <1>3
  <2> QED BY <1>1, <1>2, <2>1 DEF Linked
<1> QED BY <1>4, <1>5, <1>6, <1>7 DEF Linked, g, qs

(* A list of rows with nothing recorded. *)
LEMMA NoTrail ==
  ASSUME NEW r \in GoodRows
  PROVE  Trailing(<<>>, <<r>>) /\ Last(<<r>>) = r /\ <<r>>[1] = r
<1>1. Len(<<>>) = 0 /\ Len(<<r>>) = 1 /\ <<r>>[1] = r
  OBVIOUS
<1> QED BY <1>1 DEF Trailing, Last

LEMMA StartQuiet ==
  ASSUME QuietUndo = TRUE, QuietTrail, MayChange, doing' \in {"idle", "edit"},
         UNCHANGED <<rows, journal, cycle, path>>
  PROVE  QuietTrail'
<1>1. UNCHANGED <<forward, reverse, journal, journalling, history, turn, paths, path>>
  BY DEF rows, cycle
<1>2. doing = "idle" /\ (turn # "startup" => journalling)
  BY DEF MayChange
<1> QED BY <1>1, <1>2 DEF QuietTrail, rows

LEMMA OutermostQuiet ==
  ASSUME QuietTrail, doing = "idle", UNCHANGED <<rows, journal, cycle, path, doing, work>>
  PROVE  QuietTrail'
<1>1. UNCHANGED <<forward, reverse, journal, journalling, history, turn, paths, path, doing, work>>
  BY DEF rows, cycle
<1> QED BY <1>1 DEF QuietTrail, rows

LEMMA EditQuiet ==
  ASSUME Sound, QuietTrail, Edit
  PROVE  QuietTrail'
<1> DEFINE i == Head(work).relation
<1>1. doing = "edit" /\ UNCHANGED <<shape, cycle, live>>
  BY EditCases
<1>2. \/ UNCHANGED <<rows, outermost, journal, path>> /\ doing' \in {"idle", "edit"}
      \/ /\ doing' = doing
         /\ \E d \in Change, r \in GoodRows :
              SetRows(r) /\ Record(d, r) /\ Reversed(d, r) = rows
  BY EditCases
<1>3. UNCHANGED <<journalling, history, turn, paths>>
  BY <1>1 DEF cycle
<1>4. CASE UNCHANGED <<rows, outermost, journal, path>> /\ doing' \in {"idle", "edit"}
  <2>1. UNCHANGED <<forward, reverse, journal, path>>
    BY <1>4 DEF rows
  <2> QED BY <1>1, <1>3, <1>4, <2>1 DEF QuietTrail, rows
<1>5. CASE /\ doing' = doing
           /\ \E d \in Change, r \in GoodRows :
                SetRows(r) /\ Record(d, r) /\ Reversed(d, r) = rows
  <2>1. PICK d \in Change, r \in GoodRows : SetRows(r) /\ Record(d, r) /\ Reversed(d, r) = rows
    BY <1>5
  <2>2. r = <<r[1], r[2]>>
    BY RowsShape DEF GoodRows
  <2>3. rows' = r
    BY <2>1, <2>2 DEF SetRows, rows
  <2>4. CASE turn = "startup"
    BY <1>1, <1>3, <1>5, <2>4 DEF QuietTrail
  <2>5. CASE turn # "startup"
    <3>1. journal' = Append(journal, d) /\ path' = Append(path, r)
      BY <1>1, <2>1, <2>5 DEF QuietTrail, Record
    <3>2. /\ journal \in Seq(Change) /\ path \in Seq(GoodRows) /\ Len(path) = Len(journal) + 1
      BY <1>1 DEF Sound, TrailOK
    <3>3. Trailing(journal, path) /\ Last(path) = rows
      BY <1>1, <2>5 DEF QuietTrail
    <3>4. Trailing(journal', path') /\ Last(path') = r /\ path'[1] = path[1]
      BY <2>1, <3>1, <3>2, <3>3, ExtendTrail
    <3>5. Linked(history', paths', path'[1])
      BY <1>3, <2>5, <3>4 DEF QuietTrail
    <3> HIDE DEF rows
    <3>6. journalling' /\ turn' # "startup" /\ doing' = "edit"
      BY <1>1, <1>3, <1>5, <2>5 DEF QuietTrail
    <3> QED BY <2>3, <3>4, <3>5, <3>6 DEF QuietTrail
  <2> QED BY <2>4, <2>5
<1> QED BY <1>2, <1>4, <1>5

LEMMA BeginQuiet ==
  ASSUME Sound, QuietTrail, Begin
  PROVE  QuietTrail'
<1>1. /\ doing = "idle" /\ turn \in {"startup", "between"}
      /\ turn' = "open" /\ journalling' = TRUE /\ path' = <<rows>>
      /\ UNCHANGED <<forward, reverse, journal, history, paths, doing, work>>
  BY DEF Begin, rows
<1>2. journal = <<>> /\ rows \in GoodRows /\ Len(path) = 1
  BY <1>1, EmptySeq DEF Sound, TrailOK
<1>3. rows' = rows
  BY <1>1 DEF rows
<1> HIDE DEF rows
<1>4. Trailing(<<>>, <<rows>>) /\ Last(<<rows>>) = rows /\ <<rows>>[1] = rows
  BY <1>2, NoTrail
<1>5. Trailing(journal', path') /\ Last(path') = rows' /\ path'[1] = rows
  BY <1>1, <1>2, <1>3, <1>4
<1>6. Linked(history', paths', path'[1])
  <2>1. CASE turn = "startup"
    <3>1. Len(history') = 0
      BY <1>1, <2>1 DEF QuietTrail
    <3> QED BY <3>1 DEF Linked
  <2>2. CASE turn # "startup"
    <3>1. Last(path) = rows /\ Linked(history, paths, path[1])
      BY <1>1, <2>2 DEF QuietTrail
    <3>2. path[1] = rows
      BY <1>2, <3>1 DEF Last
    <3> QED BY <1>1, <1>5, <3>1, <3>2
  <2> QED BY <2>1, <2>2
<1> QED BY <1>1, <1>5, <1>6 DEF QuietTrail

LEMMA FinishQuiet ==
  ASSUME Sound, QuietTrail, doing = "idle", turn \in {"open", "failed"},
         NEW elsewhere \in BOOLEAN, TakeJournal(elsewhere),
         UNCHANGED <<rows, doing, work>>, turn' # "startup"
  PROVE  QuietTrail'
<1>1. journal' = <<>> /\ path' = <<rows>>
  BY DEF TakeJournal
<1>2. /\ history \in Seq(Seq(Change)) /\ paths \in Seq(Seq(GoodRows)) /\ Len(paths) = Len(history)
      /\ journal \in Seq(Change) /\ path \in Seq(GoodRows) /\ Len(path) = Len(journal) + 1
      /\ rows \in GoodRows
  BY DEF Sound, HistoryOK, TrailOK
<1>3. Trailing(journal, path) /\ Last(path) = rows /\ Linked(history, paths, path[1])
  BY DEF QuietTrail
<1> HIDE DEF rows
<1>4. Linked(history', paths', rows)
  <2>1. CASE history' = Append(Kept(history), journal) /\ paths' = Append(Kept(paths), path)
    <3> DEFINE h == Kept(history)
               ps == Kept(paths)
    <3>1. Linked(h, ps, path[1])
      BY <1>2, <1>3, KeptLinked
    <3>2. h \in Seq(Seq(Change)) /\ ps \in Seq(Seq(GoodRows)) /\ Len(ps) = Len(h)
      <4>1. h \in Seq(Seq(Change))
            /\ Len(h) = IF Len(history) >= UndoDepth THEN Len(history) - 1 ELSE Len(history)
        BY <1>2, KeptProperties
      <4>2. ps \in Seq(Seq(GoodRows))
            /\ Len(ps) = IF Len(paths) >= UndoDepth THEN Len(paths) - 1 ELSE Len(paths)
        BY <1>2, KeptProperties
      <4> HIDE DEF h, ps
      <4> QED BY <1>2, <4>1, <4>2
    <3> HIDE DEF h, ps
    <3>3. Linked(Append(h, journal), Append(ps, path), Last(path))
      BY <1>2, <1>3, <3>1, <3>2, AppendLinked
    <3> QED BY <1>3, <2>1, <3>3 DEF h, ps
  <2>2. CASE ~(history' = Append(Kept(history), journal) /\ paths' = Append(Kept(paths), path))
    <3>1. journal = <<>> /\ history' = history /\ paths' = paths
      BY <2>2 DEF TakeJournal
    <3>2. Len(path) = 1
      BY <1>2, <3>1
    <3>3. path[1] = rows
      BY <1>3, <3>2 DEF Last
    <3> QED BY <1>3, <3>1, <3>3
  <2> QED BY <2>1, <2>2
<1>5. Trailing(<<>>, <<rows>>) /\ Last(<<rows>>) = rows /\ <<rows>>[1] = rows
  BY <1>2, NoTrail
<1>6. Trailing(journal', path') /\ Last(path') = rows' /\ path'[1] = rows
  BY <1>1, <1>5
<1>7. Linked(history', paths', path'[1])
  BY <1>4, <1>6
<1> QED BY <1>6, <1>7 DEF QuietTrail

LEMMA RollbackQuiet ==
  ASSUME QuietTrail, Rollback
  PROVE  QuietTrail'
<1>1. /\ doing = "idle" /\ turn = "open" /\ turn' = "failed" /\ doing' = "revert"
      /\ work' = journal /\ UNCHANGED <<rows, history, paths, path>>
  BY DEF Rollback
<1> HIDE DEF rows
<1> QED BY <1>1 DEF QuietTrail

LEMMA UndoQuiet ==
  ASSUME Sound, QuietTrail, Undo
  PROVE  QuietTrail'
<1>1. /\ doing = "idle" /\ turn \in {"open", "failed"} /\ turn' = turn /\ doing' = "revert"
      /\ rows' = rows
  BY DEF Undo
<1>2. /\ history \in Seq(Seq(Change)) /\ paths \in Seq(Seq(GoodRows)) /\ Len(paths) = Len(history)
      /\ \A n \in 1..Len(history) : Len(paths[n]) = Len(history[n]) + 1
      /\ journal \in Seq(Change) /\ path \in Seq(GoodRows) /\ Len(path) = Len(journal) + 1
  BY <1>1 DEF Sound, HistoryOK, TrailOK
<1>3. Trailing(journal, path) /\ Last(path) = rows /\ Linked(history, paths, path[1])
  BY <1>1 DEF QuietTrail
<1> HIDE DEF rows
<1>4. CASE history = <<>>
  <2>1. work' = journal /\ UNCHANGED <<history, paths, path>>
    BY <1>4 DEF Undo
  <2> QED BY <1>1, <1>3, <2>1 DEF QuietTrail
<1>5. CASE history # <<>>
  <2> DEFINE h == Last(history)
             p == Last(paths)
  <2>1. /\ work' = h \o journal /\ path' = Front(p) \o path
        /\ history' = Front(history) /\ paths' = Front(paths)
    BY <1>5 DEF Undo
  <2>2. Len(history) > 0 /\ Len(paths) > 0 /\ Len(history) \in 1..Len(history)
    BY <1>2, <1>5, EmptySeq
  <2>3. h \in Seq(Change) /\ p \in Seq(GoodRows) /\ h = history[Len(history)] /\ p = paths[Len(paths)]
    BY <1>2, <2>2, FrontProperties
  <2>4. Linked(Front(history), Front(paths), p[1]) /\ Trailing(h, p) /\ Last(p) = path[1]
    BY <1>2, <1>3, <2>2, FrontLinked
  <2> HIDE DEF h, p
  <2>5. Len(p) = Len(h) + 1
    BY <1>2, <2>2, <2>3
  <2>6. /\ Trailing(h \o journal, Front(p) \o path)
        /\ Last(Front(p) \o path) = Last(path)
        /\ (Front(p) \o path)[1] = p[1]
    <3>1. /\ h \in Seq(Change) /\ p \in Seq(GoodRows) /\ Len(p) = Len(h) + 1 /\ Trailing(h, p)
          /\ journal \in Seq(Change) /\ path \in Seq(GoodRows) /\ Len(path) = Len(journal) + 1
          /\ Trailing(journal, path) /\ Last(p) = path[1]
      BY <1>2, <1>3, <2>3, <2>4, <2>5
    <3> QED BY ONLY <3>1, JoinTrails
  <2>7. Trailing(work', path') /\ Last(path') = rows' /\ path'[1] = p[1]
    BY <1>1, <1>3, <2>1, <2>6
  <2>8. Linked(history', paths', path'[1])
    BY <2>1, <2>4, <2>7
  <2> QED BY <1>1, <2>7, <2>8 DEF QuietTrail
<1> QED BY <1>4, <1>5

LEMMA RevertQuiet ==
  ASSUME Sound, QuietTrail, Revert
  PROVE  QuietTrail'
<1> DEFINE before == Reversed(Last(work), rows)
<1>1. /\ doing = "revert" /\ doing' = doing /\ work # <<>>
      /\ work' = Front(work) /\ path' = Front(path) /\ SetRows(before)
      /\ UNCHANGED <<history, turn, paths>>
  <2> HIDE DEF before
  <2> QED BY DEF Revert, cycle, before
<1>2. /\ work \in Seq(Change) /\ Len(path) = Len(work) + 1 /\ path \in Seq(GoodRows)
  BY <1>1 DEF Sound, TrailOK
<1>3. Len(work) \in Nat /\ Len(work) > 0
  BY <1>1, <1>2, EmptySeq
<1>4. Last(work) \in Change
  BY <1>2, <1>3, FrontProperties
<1>5. before \in GoodRows
  BY <1>4, ReversedGood DEF Sound
<1>6. before = <<before[1], before[2]>>
  BY <1>5, RowsShape DEF GoodRows
<1>7. Trailing(work, path) /\ Last(path) = rows
  BY <1>1 DEF QuietTrail
<1>8. Trailing(Front(work), Front(path)) /\ Last(Front(path)) = before /\ Front(path)[1] = path[1]
  BY <1>2, <1>3, <1>7, ShortenTrail
<1> HIDE DEF before
<1>9. rows' = before
  BY <1>1, <1>6 DEF SetRows, rows
<1> HIDE DEF rows
<1>10. Trailing(work', path') /\ Last(path') = rows' /\ path'[1] = path[1]
  BY <1>1, <1>8, <1>9
<1> QED BY <1>1, <1>10 DEF QuietTrail

LEMMA RevertedQuiet ==
  ASSUME Sound, QuietTrail, Reverted
  PROVE  QuietTrail'
<1>1. /\ doing = "revert" /\ work = <<>> /\ doing' = "idle"
      /\ UNCHANGED <<rows, journal, journalling, history, turn, paths, work, path>>
  BY DEF Reverted, cycle
<1>2. journal = <<>>
  BY <1>1 DEF Sound, TrailOK
<1> HIDE DEF rows
<1> QED BY <1>1, <1>2 DEF QuietTrail

LEMMA QuietStep ==
  ASSUME QuietUndo = TRUE, Sound, QuietTrail, [Next]_vars
  PROVE  QuietTrail'
<1>1. ASSUME NEW k \in Keys, NEW p \in Pairs, Set(k, p[1], p[2]) \/ Unset(k, p[1], p[2])
      PROVE  QuietTrail'
  <2>1. MayChange /\ doing' \in {"idle", "edit"} /\ UNCHANGED <<rows, journal, cycle, path>>
    BY <1>1 DEF Set, Unset, MayChange
  <2> QED BY <2>1, StartQuiet
<1>2. ASSUME NEW e \in Mortal, Despawn(e) PROVE QuietTrail'
  <2>1. MayChange /\ doing' \in {"idle", "edit"} /\ UNCHANGED <<rows, journal, cycle, path>>
    BY <1>2 DEF Despawn
  <2> QED BY <2>1, StartQuiet
<1>3. ASSUME NEW k \in Keys, NEW e \in Walked, Outermost(k, e) PROVE QuietTrail'
  BY <1>3, OutermostQuiet DEF Outermost
<1>4. ASSUME NEW elsewhere \in BOOLEAN, End(elsewhere) PROVE QuietTrail'
  BY <1>4, FinishQuiet DEF End
<1>5. ASSUME NEW elsewhere \in BOOLEAN, Savepoint(elsewhere) PROVE QuietTrail'
  BY <1>5, FinishQuiet DEF Savepoint
<1>6. CASE Edited
  <2>1. /\ doing = "edit" /\ doing' = "idle"
        /\ UNCHANGED <<rows, journal, journalling, history, turn, paths, path>>
    BY <1>6 DEF Edited, cycle
  <2> HIDE DEF rows
  <2> QED BY <2>1 DEF QuietTrail
<1>7. CASE UNCHANGED vars
  <2>1. UNCHANGED <<rows, journal, journalling, history, turn, paths, path, doing, work>>
    BY <1>7 DEF vars, cycle
  <2> HIDE DEF rows
  <2> QED BY <2>1 DEF QuietTrail
<1> QED BY <1>1, <1>2, <1>3, <1>4, <1>5, <1>6, <1>7, EditQuiet, BeginQuiet, RollbackQuiet,
           UndoQuiet, RevertQuiet, RevertedQuiet DEF Next

LEMMA QuietRestored ==
  ASSUME Sound, QuietTrail
  PROVE  Restored
<1>1. SUFFICES ASSUME doing = "revert", work = <<>> PROVE rows = path[1]
  BY DEF Restored
<1>2. Len(path) = 1 /\ Last(path) = rows
  BY <1>1 DEF Sound, TrailOK, QuietTrail
<1> QED BY <1>2 DEF Last

(* Of a game that changes nothing after undo in the same turn: when a turn *)
(* fails and when one is undone, every table is left row for row, and in   *)
(* the same order on both sides, as it was when the cycle began.           *)
THEOREM TurnsRestored == ASSUME QuietUndo = TRUE PROVE Spec => []Restored
<1>1. Init => QuietTrail
  BY DEF Init, QuietTrail
<1>2. Sound /\ QuietTrail /\ [Next]_vars => QuietTrail'
  BY QuietStep
<1> QED BY <1>1, <1>2, SoundAlways, QuietRestored, PTL DEF Spec

(***************************************************************************)
(* Cardinality.  Said of pairs: a side that allows one partner has one, and*)
(* a table that has no cardinality yet has no rows.                        *)
(***************************************************************************)
Fitting(c, r) ==
  \A i \in Tables : \A x, y, z \in Entities :
    /\ ~LeftIsMany(c[i]) /\ Related(r, i, x, y) /\ Related(r, i, x, z) => y = z
    /\ ~RightIsMany(c[i]) /\ Related(r, i, x, z) /\ Related(r, i, y, z) => x = y
    /\ c[i] = NoCard => ~Related(r, i, x, y)

(* The rows that fit a table of cardinalities. *)
Fit(c) == {r \in GoodRows : Fitting(c, r)}

(* Every declared relation has its table, every label one of its own after them. *)
LabelsOK ==
  /\ Len(Cards) <= count
  /\ \A d \in Declared : cardinality[d] = Cards[d]
  /\ \A i \in Tables : i > count => cardinality[i] = NoCard
  /\ \A k \in Families \X Labels : labelled[k] # 0 =>
       /\ labelled[k] \in Len(Cards) + 1..count
       /\ cardinality[labelled[k]] = Cards[k[1]]
  /\ \A k, l \in Families \X Labels : labelled[k] # 0 /\ labelled[k] = labelled[l] => k = l

(* A list of rows to change still takes this row out. *)
Goes(s, i, x, y) ==
  \E n \in 1..Len(s) : ~s[n].added /\ s[n].relation = i /\ s[n].left = x /\ s[n].right = y

(* The table a key names, once there is one. *)
Names(k, i) ==
  /\ k[1] \in Families => labelled[k] # 0
  /\ i = TableOf(k)

(* All but the last of the rows a set, unset or forget deals with go, and   *)
(* the journal has room for them where the last is to come.                 *)
JournalRoom ==
  doing = "edit" /\ work # <<>> =>
    /\ \A n \in 1..Len(work) - 1 : ~work[n].added
    /\ Last(work).added /\ journalling => Len(journal) + Len(work) <= JournalLimit

(* A row that is still to be added has room where the rows in its way are  *)
(* taken out first.                                                        *)
WayClear ==
  doing = "edit" /\ work # <<>> /\ Last(work).added =>
    LET w == Last(work)
        i == w.relation
    IN  /\ \E k \in Keys : Names(k, i)
        /\ \A z \in Entities : ~RightIsMany(cardinality[i]) /\ Related(rows, i, z, w.right) =>
             Goes(work, i, z, w.right)
        /\ \A z \in Entities : ~LeftIsMany(cardinality[i]) /\ Related(rows, i, w.left, z) =>
             Goes(work, i, w.left, z)

(* Rows fit their tables now, at every change and in every kept cycle. *)
Orderly ==
  /\ LabelsOK /\ WayClear
  /\ rows \in Fit(cardinality)
  /\ path \in Seq(Fit(cardinality))
  /\ paths \in Seq(Seq(Fit(cardinality)))

(* A list of rows that all go needs no room. *)
LEMMA AllGo ==
  ASSUME NEW s \in Seq(Gone)
  PROVE  /\ \A n \in 1..Len(s) - 1 : ~s[n].added
         /\ s # <<>> => ~Last(s).added
<1>1. \A d \in Gone : ~d.added
  BY DEF Gone
<1>2. \A n \in 1..Len(s) - 1 : s[n] \in Gone
  OBVIOUS
<1>3. s # <<>> => Last(s) \in Gone
  BY DEF Last
<1> QED BY <1>1, <1>2, <1>3

(* The three things an iteration of set, unset or forget may do. *)
LEMMA EditDoes ==
  ASSUME Sound, Edit
  PROVE  LET w == Head(work)
             i == w.relation
             has == Related(rows, i, w.left, w.right)
         IN  /\ w \in Delta /\ has \in BOOLEAN /\ doing = "edit" /\ work # <<>>
             /\ UNCHANGED <<shape, cycle>>
             /\ \/ has = w.added /\ work' = Tail(work) /\ UNCHANGED <<rows, journal, path>>
                \/ /\ ~w.added /\ journalling /\ Len(journal) >= JournalLimit /\ has
                   /\ work' = <<>> /\ UNCHANGED <<rows, journal, path>>
                \/ /\ w.added /\ ~has /\ work' = Tail(work)
                   /\ rows' = Insert(rows, i, w.left, w.right)
                   /\ Record(w, rows')
                \/ /\ ~w.added /\ has /\ work' = Tail(work)
                   /\ rows' = Retract(rows, i, w.left, w.right)
                   /\ Record(Removed(i, w.left, w.right), rows')
<1> DEFINE w == Head(work)
           i == w.relation
           has == Related(rows, i, w.left, w.right)
           after == IF w.added THEN Insert(rows, i, w.left, w.right)
                    ELSE Retract(rows, i, w.left, w.right)
<1>1. doing = "edit" /\ work # <<>> /\ UNCHANGED <<shape, cycle>>
  BY DEF Edit
<1>2. w \in Delta /\ has \in BOOLEAN
  BY <1>1, HeadTailProperties DEF Sound, ControlOK, Related, Contains
<1>3. w.added \in BOOLEAN /\ i \in Tables /\ w.left \in Entities /\ w.right \in Entities
  BY <1>2 DEF Delta
<1>4. \/ has = w.added /\ work' = Tail(work) /\ UNCHANGED <<rows, journal, path>>
      \/ /\ has # w.added /\ journalling /\ ~w.added /\ Len(journal) >= JournalLimit
         /\ work' = <<>> /\ UNCHANGED <<rows, journal, path>>
      \/ /\ has # w.added /\ work' = Tail(work) /\ SetRows(after)
         /\ Record(IF w.added THEN w ELSE Removed(i, w.left, w.right), after)
  <2> HIDE DEF after
  <2> QED BY DEF Edit, after
<1>5. has # w.added => (has <=> ~w.added)
  BY <1>2, <1>3
<1>6. SetRows(after) => rows' = after
  <2>1. after = <<after[1], after[2]>>
    BY DEF Insert, Retract
  <2> HIDE DEF after
  <2> QED BY <2>1 DEF SetRows, rows
<1>7. ASSUME has # w.added, SetRows(after),
             Record(IF w.added THEN w ELSE Removed(i, w.left, w.right), after)
      PROVE  \/ /\ w.added /\ ~has /\ rows' = Insert(rows, i, w.left, w.right) /\ Record(w, rows')
             \/ /\ ~w.added /\ has /\ rows' = Retract(rows, i, w.left, w.right)
                /\ Record(Removed(i, w.left, w.right), rows')
  <2>1. rows' = after
    BY <1>6, <1>7
  <2>2. CASE w.added
    <3>1. after = Insert(rows, i, w.left, w.right)
      BY <2>2
    <3> HIDE DEF after
    <3> QED BY <1>5, <1>7, <2>1, <2>2, <3>1
  <2>3. CASE ~w.added
    <3>1. after = Retract(rows, i, w.left, w.right)
      BY <2>3
    <3> HIDE DEF after
    <3> QED BY <1>5, <1>7, <2>1, <2>3, <3>1
  <2> QED BY <2>2, <2>3
<1> HIDE DEF has, after, i
<1> QED BY <1>1, <1>2, <1>4, <1>5, <1>7 DEF has, i

(* The rows set takes out are those that are in the way of its own.        *)
LEMMA DisplacedGoes ==
  ASSUME rows \in GoodRows, NEW c, NEW i \in Tables, NEW x \in Entities, NEW y \in Entities,
         NEW s, s = Append(Displaced(c[i], i, x, y), Wanted(i, x, y, TRUE))
  PROVE  /\ Len(s) \in 1..3
         /\ \A n \in 1..Len(s) - 1 : ~s[n].added
         /\ Fitting(c, rows) =>
              /\ \A z \in Entities : ~RightIsMany(c[i]) /\ Related(rows, i, z, y) => Goes(s, i, z, y)
              /\ \A z \in Entities : ~LeftIsMany(c[i]) /\ Related(rows, i, x, z) => Goes(s, i, x, z)
<1> DEFINE lefts == reverse[i][y]
           rights == forward[i][x]
           l == IF RightIsMany(c[i]) \/ lefts = <<>> THEN <<>> ELSE <<Wanted(i, lefts[1], y, FALSE)>>
           r == IF LeftIsMany(c[i]) \/ rights = <<>> THEN <<>> ELSE <<Wanted(i, x, rights[1], FALSE)>>
           w == Wanted(i, x, y, TRUE)
<1>1. lefts \in Seq(Entities) /\ rights \in Seq(Entities)
  BY GoodLists DEF rows
<1>2. \A z \in Entities : Related(rows, i, z, y) <=> Contains(lefts, z)
  BY GoodLists DEF rows
<1>3. \A z \in Entities : Related(rows, i, x, z) <=> Contains(rights, z)
  BY GoodLists DEF rows
<1>4. s = Append(l \o r, w)
  BY DEF Displaced
<1>5. w \in Delta
  BY WantedType
<1> HIDE DEF lefts, rights, w
<1>6. lefts # <<>> => lefts[1] \in Entities /\ Contains(lefts, lefts[1])
  BY <1>1 DEF Contains
<1>7. rights # <<>> => rights[1] \in Entities /\ Contains(rights, rights[1])
  BY <1>1 DEF Contains
<1>8. \A a, b \in Entities : Wanted(i, a, b, FALSE) \in Gone
                             /\ ~Wanted(i, a, b, FALSE).added
                             /\ Wanted(i, a, b, FALSE).relation = i
                             /\ Wanted(i, a, b, FALSE).left = a
                             /\ Wanted(i, a, b, FALSE).right = b
  BY DEF Wanted, Added, Delta, Gone
<1>9. l \in Seq(Gone) /\ Len(l) <= 1
  <2>1. CASE RightIsMany(c[i]) \/ lefts = <<>>
    <3>1. l = <<>>
      BY <2>1
    <3> HIDE DEF l
    <3> QED BY <3>1, EmptySeq
  <2>2. CASE ~(RightIsMany(c[i]) \/ lefts = <<>>)
    <3> DEFINE e == Wanted(i, lefts[1], y, FALSE)
    <3>1. e \in Gone
      BY <1>6, <1>8, <2>2
    <3>2. l = <<e>>
      BY <2>2
    <3> HIDE DEF e, l
    <3> QED BY <3>1, <3>2, OneElement
  <2> QED BY <2>1, <2>2
<1>10. r \in Seq(Gone) /\ Len(r) <= 1
  <2>1. CASE LeftIsMany(c[i]) \/ rights = <<>>
    <3>1. r = <<>>
      BY <2>1
    <3> HIDE DEF r
    <3> QED BY <3>1, EmptySeq
  <2>2. CASE ~(LeftIsMany(c[i]) \/ rights = <<>>)
    <3> DEFINE e == Wanted(i, x, rights[1], FALSE)
    <3>1. e \in Gone
      BY <1>7, <1>8, <2>2
    <3>2. r = <<e>>
      BY <2>2
    <3> HIDE DEF e, r
    <3> QED BY <3>1, <3>2, OneElement
  <2> QED BY <2>1, <2>2
<1>11. ASSUME Fitting(c, rows), NEW z \in Entities, ~RightIsMany(c[i]), Related(rows, i, z, y)
       PROVE  Len(l) = 1 /\ l[1] = Wanted(i, z, y, FALSE)
  <2>1. Contains(lefts, z)
    BY <1>2, <1>11
  <2>2. lefts # <<>>
    BY <2>1 DEF Contains
  <2>3. Related(rows, i, lefts[1], y) /\ lefts[1] \in Entities
    BY <1>2, <1>6, <2>2
  <2>4. lefts[1] = z
    BY <1>11, <2>3 DEF Fitting
  <2> QED BY <1>11, <2>2, <2>4
<1>12. ASSUME Fitting(c, rows), NEW z \in Entities, ~LeftIsMany(c[i]), Related(rows, i, x, z)
       PROVE  Len(r) = 1 /\ r[1] = Wanted(i, x, z, FALSE)
  <2>1. Contains(rights, z)
    BY <1>3, <1>12
  <2>2. rights # <<>>
    BY <2>1 DEF Contains
  <2>3. Related(rows, i, x, rights[1]) /\ rights[1] \in Entities
    BY <1>3, <1>7, <2>2
  <2>4. rights[1] = z
    BY <1>12, <2>3 DEF Fitting
  <2> QED BY <1>12, <2>2, <2>4
<1> HIDE DEF l, r
<1>13. /\ l \o r \in Seq(Gone) /\ Len(l \o r) = Len(l) + Len(r)
       /\ \A n \in 1..Len(l) + Len(r) : (l \o r)[n] = IF n <= Len(l) THEN l[n] ELSE r[n - Len(l)]
  BY <1>9, <1>10, ConcatProperties
<1>14. Len(l) \in Nat /\ Len(r) \in Nat
  BY <1>9, <1>10, LenProperties
<1> DEFINE t == l \o r
<1> HIDE DEF t
<1>15. t \in Seq(Delta) /\ t \in Seq(Gone)
  <2>1. Gone \subseteq Delta
    BY DEF Gone
  <2> QED BY <1>13, <2>1, SeqMonotonic DEF t
<1>16. /\ Len(s) = Len(t) + 1 /\ Last(s) = w
       /\ \A n \in 1..Len(t) : s[n] = t[n]
  <2>1. s = Append(t, w)
    BY <1>4 DEF t
  <2> QED BY ONLY <2>1, <1>5, <1>15, LastOfAppend
<1>17. \A n \in 1..Len(t) : t[n] \in Gone
  BY <1>15, ElementOfSeq
<1>18. Len(s) \in 1..3 /\ Len(t) = Len(l) + Len(r) /\ Len(s) - 1 = Len(t)
  BY <1>9, <1>10, <1>13, <1>14, <1>16 DEF t
<1>19. \A n \in 1..Len(s) - 1 : ~s[n].added
  BY <1>16, <1>17, <1>18 DEF Gone
<1>20. ASSUME NEW n \in 1..Len(s), NEW a \in Entities, NEW b \in Entities,
               s[n] = Wanted(i, a, b, FALSE)
        PROVE  Goes(s, i, a, b)
  <2>1. ~s[n].added /\ s[n].relation = i /\ s[n].left = a /\ s[n].right = b
    <3> DEFINE e == Wanted(i, a, b, FALSE)
    <3>1. ~e.added /\ e.relation = i /\ e.left = a /\ e.right = b /\ s[n] = e
      BY <1>8, <1>20
    <3> HIDE DEF e
    <3> QED BY ONLY <3>1
  <2> QED BY <2>1 DEF Goes
<1>21. ASSUME Fitting(c, rows), NEW z \in Entities, ~RightIsMany(c[i]), Related(rows, i, z, y)
       PROVE  Goes(s, i, z, y)
  <2>1. Len(l) = 1 /\ l[1] = Wanted(i, z, y, FALSE)
    BY <1>11, <1>21
  <2>2. 1 \in 1..Len(t) /\ t[1] = l[1]
    <3>1. 1 \in 1..Len(l) + Len(r) /\ 1 <= Len(l)
      BY <1>14, <2>1
    <3>2. (l \o r)[1] = l[1]
      BY <1>13, <3>1
    <3> QED BY <1>18, <3>1, <3>2 DEF t
  <2>3. s[1] = Wanted(i, z, y, FALSE)
    BY <1>16, <2>1, <2>2
  <2>4. 1 \in 1..Len(s)
    BY <1>18
  <2> QED BY <1>20, <2>3, <2>4
<1>22. ASSUME Fitting(c, rows), NEW z \in Entities, ~LeftIsMany(c[i]), Related(rows, i, x, z)
       PROVE  Goes(s, i, x, z)
  <2>1. Len(r) = 1 /\ r[1] = Wanted(i, x, z, FALSE)
    BY <1>12, <1>22
  <2> DEFINE n == Len(l) + 1
  <2>2. n \in 1..Len(l) + Len(r) /\ ~(n <= Len(l)) /\ n - Len(l) = 1
    BY <1>14, <2>1
  <2> HIDE DEF n
  <2>3. n \in 1..Len(t) /\ t[n] = r[1]
    <3>1. (l \o r)[n] = r[n - Len(l)]
      BY <1>13, <2>2
    <3> QED BY <1>18, <2>2, <3>1 DEF t
  <2>4. s[n] = Wanted(i, x, z, FALSE)
    BY <1>16, <2>1, <2>3
  <2>5. n \in 1..Len(s)
    BY <1>16, <1>18, <2>3
  <2> QED BY <1>20, <2>4, <2>5
<1> QED BY <1>16, <1>18, <1>19, <1>21, <1>22 DEF w

LEMMA UnsetWork ==
  ASSUME Sound, NEW k \in Keys, NEW x \in Entities, NEW y \in Entities, Unset(k, x, y)
  PROVE  work' \in Seq(Gone)
<1>1. TableOf(k) \in Tables
  BY EnsureSound DEF Sound, Unset
<1> DEFINE w == Wanted(TableOf(k), x, y, FALSE)
<1>2. w \in Gone
  BY <1>1, WantedGone
<1>3. work' = <<w>>
  BY DEF Unset
<1> HIDE DEF w
<1> QED BY <1>2, <1>3, OneElement

LEMMA RoomWhereAllGo ==
  ASSUME work' \in Seq(Gone)
  PROVE  JournalRoom' /\ WayClear'
BY AllGo DEF JournalRoom, WayClear

LEMMA SetRoom ==
  ASSUME Sound, NEW k \in Keys, NEW x \in Entities, NEW y \in Entities, Set(k, x, y)
  PROVE  JournalRoom'
<1> DEFINE i == TableOf(k)
           card == Cards[k[1]]
           s == Append(Displaced(card, i, x, y), Wanted(i, x, y, TRUE))
<1>1. ShapeOK /\ Ensure(k) /\ doing = "idle" /\ rows \in GoodRows
  BY DEF Sound, Set, MayChange
<1>2. i \in Tables
  BY <1>1, EnsureSound
<1>3. UNCHANGED <<journal, journalling>>
  BY DEF Set, cycle
<1>4. \/ doing' = "idle"
      \/ work' = s /\ ~(journalling /\ Len(journal) + 3 > JournalLimit)
  BY <1>1 DEF Set
<1>5. Len(s) \in 1..3 /\ \A n \in 1..Len(s) - 1 : ~s[n].added
  <2> DEFINE c == [j \in Tables |-> card]
  <2>1. c[i] = card
    BY <1>2
  <2>2. s = Append(Displaced(c[i], i, x, y), Wanted(i, x, y, TRUE))
    BY <2>1
  <2> HIDE DEF c, i, s
  <2> QED BY <1>1, <1>2, <2>2, DisplacedGoes
<1> HIDE DEF i, card, s
<1>6. ASSUME work' = s, ~(journalling /\ Len(journal) + 3 > JournalLimit)
      PROVE  JournalRoom'
  <2>1. Len(journal) \in Nat /\ JournalLimit \in Nat
    BY Constants DEF Sound, TrailOK
  <2>2. Len(s) \in 1..3
    BY <1>5, Zenon
  <2>3. \A m \in Nat, n \in 1..3, limit \in Nat : ~(m + 3 > limit) => m + n <= limit
    OBVIOUS
  <2>4. ~(Len(journal) + 3 > JournalLimit) => Len(journal) + Len(s) <= JournalLimit
    BY ONLY <2>1, <2>2, <2>3
  <2>5. journalling' => Len(journal') + Len(work') <= JournalLimit
    BY <1>3, <1>6, <2>4
  <2>6. \A n \in 1..Len(work') - 1 : ~work'[n].added
    BY <1>5, <1>6
  <2> QED BY <2>5, <2>6 DEF JournalRoom
<1>7. CASE doing' = "idle"
  BY <1>7 DEF JournalRoom
<1> QED BY <1>4, <1>6, <1>7

(* What the rows of the running operation and the last of them are after one *)
(* has been dealt with.                                                     *)
LEMMA TailOfWork ==
  ASSUME Sound, work # <<>>
  PROVE  /\ Tail(work) \in Seq(Delta) /\ Len(Tail(work)) = Len(work) - 1
         /\ \A n \in 1..Len(work) - 1 : Tail(work)[n] = work[n + 1]
         /\ Len(work) \in Nat /\ Len(work) > 0 /\ Head(work) = work[1]
         /\ Tail(work) # <<>> => Last(Tail(work)) = Last(work)
<1> DEFINE t == Tail(work)
<1>1. /\ work \in Seq(Delta) /\ t \in Seq(Delta) /\ Len(t) = Len(work) - 1
      /\ \A n \in 1..Len(t) : t[n] = work[n + 1]
  BY HeadTailProperties DEF Sound, ControlOK
<1>2. Len(work) \in Nat /\ Len(work) > 0 /\ Head(work) = work[1]
  BY <1>1, EmptySeq
<1> HIDE DEF t
<1>3. ASSUME t # <<>> PROVE Last(t) = Last(work)
  <2>1. Len(t) \in Nat /\ Len(t) > 0
    BY <1>1, <1>3, EmptySeq
  <2> QED BY <1>1, <1>2, <2>1 DEF Last
<1> QED BY <1>1, <1>2, <1>3 DEF t

LEMMA RecordLength ==
  ASSUME Sound, NEW d, NEW r, Record(d, r)
  PROVE  Len(journal) \in Nat /\ Len(journal') \in Nat /\ Len(journal') <= Len(journal) + 1
<1>1. journal \in Seq(Change \cup {d})
  <2>1. journal \in Seq(Change)
    BY DEF Sound, TrailOK
  <2> QED BY <2>1, SeqMonotonic
<1>2. Len(Append(journal, d)) = Len(journal) + 1 /\ Len(journal) \in Nat
  BY <1>1, AppendProperties
<1>3. journal' = Append(journal, d) \/ journal' = journal
  BY DEF Record
<1>4. CASE journal' = Append(journal, d)
  BY <1>2, <1>4
<1>5. CASE journal' = journal
  BY <1>2, <1>5
<1> QED BY <1>3, <1>4, <1>5

LEMMA EditRoom ==
  ASSUME Sound, JournalRoom, Edit
  PROVE  JournalRoom'
<1>1. /\ doing = "edit" /\ work # <<>> /\ UNCHANGED cycle
      /\ \/ work' = <<>>
         \/ work' = Tail(work) /\ (journal' = journal \/ \E d : Record(d, rows'))
  BY EditDoes
<1>2. journalling' = journalling
  BY <1>1 DEF cycle
<1>3. CASE work' = <<>>
  BY <1>3 DEF JournalRoom
<1>4. CASE work' = Tail(work) /\ (journal' = journal \/ \E d : Record(d, rows'))
  <2> DEFINE t == Tail(work)
  <2>1. /\ t \in Seq(Delta) /\ Len(t) = Len(work) - 1
        /\ \A n \in 1..Len(work) - 1 : t[n] = work[n + 1]
        /\ Len(work) \in Nat /\ Len(work) > 0
        /\ t # <<>> => Last(t) = Last(work)
    BY <1>1, TailOfWork
  <2> HIDE DEF t
  <2>2. Len(journal) \in Nat /\ Len(journal') \in Nat /\ Len(journal') <= Len(journal) + 1
    <3>1. CASE journal' = journal
      <4>1. Len(journal) \in Nat
        BY DEF Sound, TrailOK
      <4> QED BY <3>1, <4>1
    <3>2. CASE \E d : Record(d, rows')
      <4>1. PICK d : Record(d, rows')
        BY <3>2
      <4> QED BY <4>1, RecordLength
    <3> QED BY <1>4, <3>1, <3>2
  <2>3. ASSUME NEW n \in 1..Len(t) - 1 PROVE ~t[n].added
    <3>1. n + 1 \in 1..Len(work) - 1 /\ t[n] = work[n + 1]
      BY <2>1
    <3> QED BY <1>1, <3>1 DEF JournalRoom
  <2>4. ASSUME t # <<>>, Last(t).added, journalling PROVE Len(journal') + Len(t) <= JournalLimit
    <3>1. Len(journal) + Len(work) <= JournalLimit
      BY <1>1, <2>1, <2>4 DEF JournalRoom
    <3>2. JournalLimit \in Nat
      BY Constants
    <3> QED BY <2>1, <2>2, <3>1, <3>2
  <2>5. work' = t
    BY <1>4 DEF t
  <2> QED BY <1>2, <2>3, <2>4, <2>5 DEF JournalRoom
<1> QED BY <1>1, <1>3, <1>4

LEMMA RoomStep ==
  ASSUME Sound, JournalRoom, [Next]_vars
  PROVE  JournalRoom'
<1>1. ASSUME NEW k \in Keys, NEW p \in Pairs, Set(k, p[1], p[2]) PROVE JournalRoom'
  BY <1>1, SetRoom, Constants
<1>2. ASSUME NEW k \in Keys, NEW p \in Pairs, Unset(k, p[1], p[2]) PROVE JournalRoom'
  BY <1>2, UnsetWork, RoomWhereAllGo, Constants
<1>3. ASSUME NEW e \in Mortal, Despawn(e) PROVE JournalRoom'
  BY <1>3, DespawnWork, RoomWhereAllGo, Constants
<1>4. ASSUME UNCHANGED <<doing, work, journal, journalling>> PROVE JournalRoom'
  BY <1>4 DEF JournalRoom
<1>5. ASSUME doing' \in {"idle", "revert"} PROVE JournalRoom'
  BY <1>5 DEF JournalRoom
<1>6. ASSUME NEW k \in Keys, NEW e \in Walked, Outermost(k, e) PROVE JournalRoom'
  BY <1>4, <1>6 DEF Outermost, cycle
<1>7. ASSUME NEW elsewhere \in BOOLEAN, End(elsewhere) \/ Savepoint(elsewhere) PROVE JournalRoom'
  BY <1>5, <1>7 DEF End, Savepoint
<1>8. CASE Begin \/ Edited \/ Reverted \/ Rollback \/ Undo \/ Revert
  BY <1>5, <1>8 DEF Begin, Edited, Reverted, Rollback, Undo, Revert
<1>9. CASE UNCHANGED vars
  BY <1>4, <1>9 DEF vars, cycle
<1> QED BY <1>1, <1>2, <1>3, <1>6, <1>7, <1>8, <1>9, EditRoom DEF Next

(* A running loop keeps its room in the journal. *)
LEMMA RoomAlways == Spec => []JournalRoom
<1>1. Init => JournalRoom
  BY DEF Init, JournalRoom
<1>2. Sound /\ JournalRoom /\ [Next]_vars => JournalRoom'
  BY RoomStep
<1> QED BY <1>1, <1>2, SoundAlways, PTL DEF Spec

(* What an iteration of set, unset or forget does when a row is to come. *)
LEMMA SetDoes ==
  ASSUME Sound, JournalRoom, [Next]_vars
  PROVE  [doing = "edit" /\ work # <<>> /\ Last(work).added => work' = Tail(work)]_vars
<1> SUFFICES ASSUME Next, doing = "edit", work # <<>>, Last(work).added
             PROVE  work' = Tail(work)
  OBVIOUS
<1>1. Edit
  <2> USE DEF MayChange
  <2> QED BY DEF Next, Set, Unset, Outermost, Despawn, Edited, Revert, Reverted, Begin, Rollback,
             Undo, End, Savepoint
<1>2. \/ work' = Tail(work)
      \/ journalling /\ Len(journal) >= JournalLimit
  BY <1>1, EditDoes
<1>3. /\ Len(work) > 0 /\ Len(work) \in Nat /\ Len(journal) \in Nat /\ JournalLimit \in Nat
  BY EmptySeq, Constants DEF Sound, ControlOK, TrailOK
<1>4. journalling => Len(journal) + Len(work) <= JournalLimit
  BY DEF JournalRoom
<1>5. ~(journalling /\ Len(journal) >= JournalLimit)
  BY <1>3, <1>4
<1> QED BY <1>2, <1>5

(* set never stops between a row it displaces and the row that replaces it: *)
(* it has asked the journal for room for all three, and no other operation, *)
(* rollback or undo runs before it is done.                                 *)
THEOREM SetsComplete == Spec => SetCompletes
<1>1. Sound /\ JournalRoom /\ [Next]_vars =>
        [doing = "edit" /\ work # <<>> /\ Last(work).added => work' = Tail(work)]_vars
  BY SetDoes
<1> QED BY <1>1, SoundAlways, RoomAlways, PTL DEF Spec, SetCompletes

(* Every pair there is, and one more. *)
OneMore(q, r, i, x, y) ==
  \A j \in Tables : \A a, b \in Entities :
    Related(q, j, a, b) <=> Related(r, j, a, b) \/ (j = i /\ a = x /\ b = y)

(* Every pair but one. *)
OneLess(q, r, i, x, y) ==
  \A j \in Tables : \A a, b \in Entities :
    Related(q, j, a, b) <=> Related(r, j, a, b) /\ ~(j = i /\ a = x /\ b = y)

(* The pairs there are when one row comes or goes. *)
LEMMA InsertRelates ==
  ASSUME NEW r \in GoodRows, NEW i \in Tables, NEW x \in Entities, NEW y \in Entities,
         ~Related(r, i, x, y)
  PROVE  OneMore(Insert(r, i, x, y), r, i, x, y)
<1> DEFINE f == Append(r[1][i][x], y)
           g == Append(r[2][i][y], x)
           s == Replace(r, i, x, f, y, g)
<1>1. /\ r \in Rows /\ r[1][i][x] \in Seq(Entities) /\ r[2][i][y] \in Seq(Entities)
      /\ IsInjective(r[1][i][x]) /\ IsInjective(r[2][i][y]) /\ ~Contains(r[1][i][x], y) /\ ~Contains(r[2][i][y], x)
  BY GoodLists
<1>2. f \in Seq(Entities) /\ \A e : Contains(f, e) <=> Contains(r[1][i][x], e) \/ e = y
  BY <1>1, AppendProperty
<1>3. g \in Seq(Entities)
  BY <1>1, AppendProperty
<1>4. Insert(r, i, x, y) = s
  BY DEF Insert, Replace
<1> HIDE DEF f, g
<1>5. /\ s[1][i][x] = f
      /\ \A j \in Tables : j # i => s[1][j] = r[1][j]
      /\ \A e \in Entities : e # x => s[1][i][e] = r[1][i][e]
  BY <1>1, <1>2, <1>3, ReplaceType
<1> HIDE DEF s
<1>6. ASSUME NEW j \in Tables, NEW a \in Entities, NEW b \in Entities
      PROVE  Contains(s[1][j][a], b) <=> Contains(r[1][j][a], b) \/ (j = i /\ a = x /\ b = y)
  <2>1. CASE j = i /\ a = x
    BY <1>2, <1>5, <2>1
  <2>2. CASE ~(j = i /\ a = x)
    <3>1. s[1][j][a] = r[1][j][a]
      BY <1>5, <2>2
    <3> QED BY <3>1, <2>2
  <2> QED BY <2>1, <2>2
<1> QED BY <1>4, <1>6 DEF Related, OneMore

LEMMA RetractRelates ==
  ASSUME NEW r \in GoodRows, NEW i \in Tables, NEW x \in Entities, NEW y \in Entities,
         Related(r, i, x, y)
  PROVE  OneLess(Retract(r, i, x, y), r, i, x, y)
<1> DEFINE f == Without(r[1][i][x], y)
           g == Without(r[2][i][y], x)
           s == Replace(r, i, x, f, y, g)
<1>1. /\ r \in Rows /\ r[1][i][x] \in Seq(Entities) /\ r[2][i][y] \in Seq(Entities)
      /\ IsInjective(r[1][i][x]) /\ IsInjective(r[2][i][y]) /\ Contains(r[1][i][x], y) /\ Contains(r[2][i][y], x)
  BY GoodLists
<1>2. f \in Seq(Entities) /\ \A e : Contains(f, e) <=> Contains(r[1][i][x], e) /\ e # y
  BY <1>1, WithoutProperties
<1>3. g \in Seq(Entities)
  BY <1>1, WithoutProperties
<1>4. Retract(r, i, x, y) = s
  BY DEF Retract, Replace
<1> HIDE DEF f, g
<1>5. /\ s[1][i][x] = f
      /\ \A j \in Tables : j # i => s[1][j] = r[1][j]
      /\ \A e \in Entities : e # x => s[1][i][e] = r[1][i][e]
  BY <1>1, <1>2, <1>3, ReplaceType
<1> HIDE DEF s
<1>6. ASSUME NEW j \in Tables, NEW a \in Entities, NEW b \in Entities
      PROVE  Contains(s[1][j][a], b) <=> Contains(r[1][j][a], b) /\ ~(j = i /\ a = x /\ b = y)
  <2>1. CASE j = i /\ a = x
    BY <1>2, <1>5, <2>1
  <2>2. CASE ~(j = i /\ a = x)
    <3>1. s[1][j][a] = r[1][j][a]
      BY <1>5, <2>2
    <3> QED BY <3>1, <2>2
  <2> QED BY <2>1, <2>2
<1> QED BY <1>4, <1>6 DEF Related, OneLess

LEMMA InsertFits ==
  ASSUME NEW c, NEW r \in Fit(c), NEW i \in Tables, NEW x \in Entities, NEW y \in Entities,
         ~Related(r, i, x, y), c[i] # NoCard,
         ~RightIsMany(c[i]) => \A z \in Entities : ~Related(r, i, z, y),
         ~LeftIsMany(c[i]) => \A z \in Entities : ~Related(r, i, x, z)
  PROVE  Insert(r, i, x, y) \in Fit(c)
<1> DEFINE s == Insert(r, i, x, y)
<1>1. r \in GoodRows /\ Fitting(c, r)
  BY DEF Fit
<1>2. \A j \in Tables : \A a, b \in Entities :
        Related(s, j, a, b) <=> Related(r, j, a, b) \/ (j = i /\ a = x /\ b = y)
  BY <1>1, InsertRelates DEF OneMore
<1>3. s \in GoodRows
  BY <1>1, InsertGood
<1> HIDE DEF s
<1>4. Fitting(c, s)
  BY <1>1, <1>2 DEF Fitting
<1> QED BY <1>3, <1>4 DEF Fit, s

LEMMA RetractFits ==
  ASSUME NEW c, NEW r \in Fit(c), NEW i \in Tables, NEW x \in Entities, NEW y \in Entities,
         Related(r, i, x, y)
  PROVE  Retract(r, i, x, y) \in Fit(c)
<1> DEFINE s == Retract(r, i, x, y)
<1>1. r \in GoodRows /\ Fitting(c, r)
  BY DEF Fit
<1>2. \A j \in Tables : \A a, b \in Entities :
        Related(s, j, a, b) <=> Related(r, j, a, b) /\ ~(j = i /\ a = x /\ b = y)
  BY <1>1, RetractRelates DEF OneLess
<1>3. s \in GoodRows
  BY <1>1, RetractGood
<1> HIDE DEF s
<1>4. Fitting(c, s)
  BY <1>1, <1>2 DEF Fitting
<1> QED BY <1>3, <1>4 DEF Fit, s

(* A table that gets its cardinality has no rows that could break it.      *)
LEMMA FitGrows ==
  ASSUME NEW c, NEW d, NEW i \in Tables, NEW card \in Kinds, c[i] \in {NoCard, card},
         d[i] = card, \A j \in Tables : j # i => d[j] = c[j]
  PROVE  Fit(c) \subseteq Fit(d)
<1>1. card # NoCard
  BY DEF Kinds, NoCard
<1>2. ASSUME NEW r \in GoodRows, Fitting(c, r) PROVE Fitting(d, r)
  <2>1. ASSUME NEW j \in Tables, NEW x \in Entities, NEW y \in Entities, NEW z \in Entities
        PROVE  /\ ~LeftIsMany(d[j]) /\ Related(r, j, x, y) /\ Related(r, j, x, z) => y = z
               /\ ~RightIsMany(d[j]) /\ Related(r, j, x, z) /\ Related(r, j, y, z) => x = y
               /\ d[j] = NoCard => ~Related(r, j, x, y)
    <3>1. CASE d[j] = c[j]
      BY <1>2, <2>1, <3>1 DEF Fitting
    <3>2. CASE d[j] # c[j]
      <4>1. j = i /\ c[j] = NoCard
        BY <3>2
      <4>2. ~Related(r, j, x, y) /\ ~Related(r, j, x, z)
        BY <1>2, <4>1 DEF Fitting
      <4> QED BY <1>1, <4>1, <4>2
    <3> QED BY <3>1, <3>2
  <2> QED BY <2>1 DEF Fitting
<1> QED BY <1>2 DEF Fit

LEMMA KeyFacts ==
  ASSUME NEW k \in Keys
  PROVE  /\ k[1] \in Declared /\ k[1] \in 1..Len(Cards) /\ Cards[k[1]] \in Kinds
         /\ Cards[k[1]] # NoCard
         /\ k[1] \in Families => k \in Families \X Labels
         /\ k[1] \notin Families => k = <<k[1], 0>>
<1>1. k[1] \in Declared /\ (k[1] \in Families => k \in Families \X Labels)
      /\ (k[1] \notin Families => k = <<k[1], 0>>)
  BY Constants DEF Keys
<1>2. k[1] \in 1..Len(Cards) /\ Cards[k[1]] \in Kinds
  BY <1>1, Constants DEF Declared
<1> QED BY <1>1, <1>2 DEF Kinds, NoCard

(* What a call that names a table leaves of the tables. *)
LEMMA EnsureOrders ==
  ASSUME ShapeOK, LabelsOK, NEW k \in Keys, Ensure(k)
  PROVE  /\ LabelsOK'
         /\ k[1] \in Families => labelled'[k] # 0
         /\ TableOf(k)' = TableOf(k)
         /\ cardinality'[TableOf(k)] = Cards[k[1]]
         /\ Fit(cardinality) \subseteq Fit(cardinality')
<1> DEFINE i == TableOf(k)
           card == Cards[k[1]]
<1>1. i \in Tables /\ card \in Kinds
  BY EnsureSound
<1>2. /\ k[1] \in 1..Len(Cards) /\ card # NoCard
      /\ k[1] \in Families => k \in Families \X Labels
  BY KeyFacts
<1>3. Len(Cards) \in Nat /\ count \in Nat /\ MaxTables \in Nat /\ Len(Cards) <= count
  BY Constants DEF ShapeOK, LabelsOK
<1>4. /\ count' = IF i > count THEN i ELSE count
      /\ labelled' = IF k[1] \in Families THEN [labelled EXCEPT ![k] = i] ELSE labelled
      /\ cardinality[i] \in {NoCard, card}
      /\ cardinality' = [cardinality EXCEPT ![i] = card]
  BY DEF Ensure
<1>5. i = IF k[1] \notin Families THEN k[1] ELSE IF labelled[k] # 0 THEN labelled[k] ELSE count + 1
  BY DEF TableOf
<1>6. cardinality'[i] = card /\ \A j \in Tables : j # i => cardinality'[j] = cardinality[j]
  BY <1>1, <1>4 DEF ShapeOK
<1> HIDE DEF i, card
<1>7. Fit(cardinality) \subseteq Fit(cardinality')
  BY <1>1, <1>4, <1>6, FitGrows
<1>8. CASE k[1] \notin Families
  <2>1. i = k[1] /\ i <= Len(Cards) /\ i \in Nat /\ i \in Declared
    BY <1>2, <1>3, <1>5, <1>8, Constants DEF Declared
  <2>2. cardinality[i] = card
    BY <2>1 DEF LabelsOK, card
  <2>3. count' = count /\ labelled' = labelled
    BY <1>3, <1>4, <1>8, <2>1
  <2>4. cardinality' = cardinality
    BY <1>1, <1>4, <2>2 DEF ShapeOK
  <2>5. TableOf(k)' = i /\ (k[1] \in Families => labelled'[k] # 0)
    BY <1>8, <2>1 DEF TableOf
  <2>6. LabelsOK'
    BY <2>3, <2>4 DEF LabelsOK
  <2> QED BY <1>6, <1>7, <2>5, <2>6 DEF i, card
<1>9. CASE k[1] \in Families /\ labelled[k] # 0
  <2>1. k \in Families \X Labels /\ i = labelled[k] /\ i \in Len(Cards) + 1..count /\ cardinality[i] = card
    BY <1>2, <1>5, <1>9 DEF LabelsOK, card
  <2>2. count' = count /\ labelled' = labelled
    <3>1. i <= count
      BY <1>3, <2>1
    <3>2. [labelled EXCEPT ![k] = i] = labelled
      BY <2>1 DEF ShapeOK
    <3> QED BY <1>3, <1>4, <1>9, <2>1, <3>1, <3>2
  <2>3. cardinality' = cardinality
    BY <1>1, <1>4, <2>1 DEF ShapeOK
  <2>4. TableOf(k)' = i /\ (k[1] \in Families => labelled'[k] # 0)
    BY <1>9, <2>1, <2>2 DEF TableOf
  <2>5. LabelsOK'
    BY <2>2, <2>3 DEF LabelsOK
  <2> QED BY <1>6, <1>7, <2>4, <2>5 DEF i, card
<1>10. CASE k[1] \in Families /\ labelled[k] = 0
  <2>1. k \in Families \X Labels /\ i = count + 1 /\ i # 0 /\ count' = i /\ i > count /\ i \in Nat
    BY <1>2, <1>3, <1>4, <1>5, <1>10
  <2>2. labelled' = [labelled EXCEPT ![k] = i]
    BY <1>4, <1>10
  <2>3. labelled'[k] = i /\ \A l \in Families \X Labels : l # k => labelled'[l] = labelled[l]
    BY <2>1, <2>2 DEF ShapeOK
  <2>4. TableOf(k)' = i /\ (k[1] \in Families => labelled'[k] # 0)
    BY <1>10, <2>1, <2>3 DEF TableOf
  <2>5. \A d \in Declared : d \in Tables /\ d # i
    BY <1>3, <2>1, Constants DEF Declared, Tables
  <2>6. \A l \in Families \X Labels : labelled[l] # 0 =>
          labelled[l] \in Tables /\ labelled[l] <= count /\ labelled[l] # i
          /\ labelled[l] \in Len(Cards) + 1..count'
    BY <1>3, <2>1 DEF LabelsOK, ShapeOK, Tables
  <2>7. Len(Cards) <= count' /\ i \in Len(Cards) + 1..count'
    BY <1>3, <2>1
  <2>8. \A d \in Declared : cardinality'[d] = Cards[d]
    BY <1>6, <2>5 DEF LabelsOK
  <2>9. \A j \in Tables : j > count' => cardinality'[j] = NoCard
    BY <1>3, <1>6, <2>1 DEF LabelsOK, Tables
  <2>10. \A l \in Families \X Labels : labelled'[l] # 0 =>
           labelled'[l] \in Len(Cards) + 1..count' /\ cardinality'[labelled'[l]] = Cards[l[1]]
    BY <1>6, <2>3, <2>6, <2>7 DEF LabelsOK, card
  <2>11. \A l, m \in Families \X Labels : labelled'[l] # 0 /\ labelled'[l] = labelled'[m] => l = m
    BY <2>1, <2>3, <2>6 DEF LabelsOK
  <2>12. LabelsOK'
    BY <2>7, <2>8, <2>9, <2>10, <2>11 DEF LabelsOK
  <2> QED BY <1>6, <1>7, <2>4, <2>12 DEF i, card
<1> QED BY <1>8, <1>9, <1>10

(* What is kept of lists of rows when a table gets its cardinality. *)
LEMMA FitLists ==
  ASSUME NEW S, NEW T, S \subseteq T
  PROVE  Seq(S) \subseteq Seq(T) /\ Seq(Seq(S)) \subseteq Seq(Seq(T))
<1>1. Seq(S) \subseteq Seq(T)
  BY SeqMonotonic
<1>2. \A A, B : A \subseteq B => Seq(A) \subseteq Seq(B)
  BY SeqMonotonic
<1> QED BY <1>2

(* set clears the way for its own row. *)
LEMMA SetOrderly ==
  ASSUME Sound, Orderly, NEW k \in Keys, NEW x \in Entities, NEW y \in Entities, Set(k, x, y)
  PROVE  Orderly'
<1> DEFINE i == TableOf(k)
<1>1. ShapeOK /\ LabelsOK /\ Ensure(k) /\ doing = "idle"
  BY DEF Sound, Orderly, Set, MayChange
<1>2. i \in Tables
  BY <1>1, EnsureSound
<1>3. /\ LabelsOK' /\ (k[1] \in Families => labelled'[k] # 0) /\ TableOf(k)' = i
      /\ cardinality'[i] = Cards[k[1]]
      /\ Fit(cardinality) \subseteq Fit(cardinality')
  BY <1>1, EnsureOrders
<1>4. UNCHANGED <<rows, journal, journalling, path, paths>>
  BY DEF Set, cycle
<1>5. rows \in Fit(cardinality') /\ path \in Seq(Fit(cardinality')) /\ paths \in Seq(Seq(Fit(cardinality')))
  BY <1>3, FitLists DEF Orderly
<1> DEFINE c == cardinality'
           s == Append(Displaced(c[i], i, x, y), Wanted(i, x, y, TRUE))
<1>6. doing' = "idle" \/ work' = s
  BY <1>1, <1>3 DEF Set
<1>7. rows \in GoodRows /\ Fitting(c, rows)
  BY <1>5 DEF Fit
<1>8. /\ \A z \in Entities : ~RightIsMany(c[i]) /\ Related(rows, i, z, y) => Goes(s, i, z, y)
      /\ \A z \in Entities : ~LeftIsMany(c[i]) /\ Related(rows, i, x, z) => Goes(s, i, x, z)
  <2> HIDE DEF i, c
  <2>1. s = Append(Displaced(c[i], i, x, y), Wanted(i, x, y, TRUE))
    OBVIOUS
  <2> HIDE DEF s
  <2>2. Fitting(c, rows) =>
          /\ \A z \in Entities : ~RightIsMany(c[i]) /\ Related(rows, i, z, y) => Goes(s, i, z, y)
          /\ \A z \in Entities : ~LeftIsMany(c[i]) /\ Related(rows, i, x, z) => Goes(s, i, x, z)
    BY <1>2, <1>7, <2>1, DisplacedGoes
  <2> QED BY <1>7, <2>2
<1>9. Last(s) = Wanted(i, x, y, TRUE)
  <2> DEFINE t == Displaced(c[i], i, x, y)
             w == Wanted(i, x, y, TRUE)
  <2>1. t \in Seq(Delta) /\ w \in Delta
    <3> HIDE DEF i, c
    <3> QED BY <1>2, <1>7, DisplacedType, WantedType
  <2> HIDE DEF t, w
  <2>2. Last(Append(t, w)) = w
    BY <2>1, LastOfAppend
  <2> QED BY <2>2 DEF t, w
<1>10. Wanted(i, x, y, TRUE).relation = i /\ Wanted(i, x, y, TRUE).left = x /\ Wanted(i, x, y, TRUE).right = y
  BY DEF Wanted, Added
<1> HIDE DEF i, c, s
<1>11. ASSUME work' = s
       PROVE  WayClear'
  <2>1. Last(work') = Wanted(i, x, y, TRUE) /\ Last(work').relation = i
        /\ Last(work').left = x /\ Last(work').right = y
    BY <1>9, <1>10, <1>11
  <2>2. i = TableOf(k)' /\ (k[1] \in Families => labelled'[k] # 0)
    BY <1>3
  <2>3. \E key \in Keys : Names(key, Last(work).relation)'
    BY <2>1, <2>2 DEF Names
  <2>6. \A z \in Entities : ~RightIsMany(cardinality'[i]) /\ Related(rows', i, z, y) => Goes(work', i, z, y)
    BY <1>4, <1>8, <1>11 DEF c
  <2>7. \A z \in Entities : ~LeftIsMany(cardinality'[i]) /\ Related(rows', i, x, z) => Goes(work', i, x, z)
    BY <1>4, <1>8, <1>11 DEF c
  <2> QED BY <2>1, <2>3, <2>6, <2>7 DEF WayClear
<1>12. WayClear'
  <2>1. CASE doing' = "idle"
    BY <2>1 DEF WayClear
  <2> QED BY <1>6, <1>11, <2>1
<1>13. (rows \in Fit(cardinality))' /\ (path \in Seq(Fit(cardinality)))'
       /\ (paths \in Seq(Seq(Fit(cardinality))))'
  BY <1>4, <1>5 DEF Fit, Fitting, rows
<1> QED BY <1>3, <1>12, <1>13 DEF Orderly

(* An operation that leaves the rows and the trail alone. *)
LEMMA StartOrderly ==
  ASSUME Orderly, LabelsOK', WayClear', Fit(cardinality) \subseteq Fit(cardinality'),
         UNCHANGED <<rows, path, paths>>
  PROVE  Orderly'
<1>1. rows \in Fit(cardinality') /\ path \in Seq(Fit(cardinality')) /\ paths \in Seq(Seq(Fit(cardinality')))
  BY FitLists DEF Orderly
<1>2. (rows \in Fit(cardinality))' /\ (path \in Seq(Fit(cardinality)))'
      /\ (paths \in Seq(Seq(Fit(cardinality))))'
  BY <1>1 DEF Fit, Fitting, rows
<1> QED BY <1>2 DEF Orderly

(* The same where the tables stay as they are. *)
LEMMA SameOrderly ==
  ASSUME Orderly, WayClear', UNCHANGED shape,
         rows' \in Fit(cardinality), path' \in Seq(Fit(cardinality)),
         paths' \in Seq(Seq(Fit(cardinality)))
  PROVE  Orderly'
<1>1. UNCHANGED <<count, cardinality, labelled>>
  BY DEF shape
<1>2. LabelsOK'
  BY <1>1 DEF Orderly, LabelsOK
<1>3. (rows \in Fit(cardinality))' /\ (path \in Seq(Fit(cardinality)))'
      /\ (paths \in Seq(Seq(Fit(cardinality))))'
  BY <1>1 DEF Fit, Fitting, rows
<1> QED BY <1>2, <1>3 DEF Orderly

LEMMA UnsetOrderly ==
  ASSUME Sound, Orderly, NEW k \in Keys, NEW x \in Entities, NEW y \in Entities, Unset(k, x, y)
  PROVE  Orderly'
<1>1. ShapeOK /\ LabelsOK /\ Ensure(k) /\ doing = "idle"
  BY DEF Sound, Orderly, Unset, MayChange
<1>2. TableOf(k) \in Tables
  BY <1>1, EnsureSound
<1>3. LabelsOK' /\ Fit(cardinality) \subseteq Fit(cardinality')
  BY <1>1, EnsureOrders
<1>4. UNCHANGED <<rows, path, paths>>
  BY DEF Unset, cycle
<1>5. WayClear'
  BY UnsetWork, RoomWhereAllGo
<1> QED BY <1>3, <1>4, <1>5, StartOrderly

LEMMA OutermostOrderly ==
  ASSUME Sound, Orderly, NEW k \in Keys, NEW e \in Entities, Outermost(k, e)
  PROVE  Orderly'
<1>1. ShapeOK /\ LabelsOK /\ Ensure(k) /\ doing' = "idle" /\ UNCHANGED <<rows, path, paths>>
  BY DEF Sound, Orderly, Outermost, cycle
<1>2. LabelsOK' /\ Fit(cardinality) \subseteq Fit(cardinality')
  BY <1>1, EnsureOrders
<1>3. WayClear'
  BY <1>1 DEF WayClear
<1> QED BY <1>1, <1>2, <1>3, StartOrderly

(* One row is dealt with: it is passed over, or taken out. *)
LEMMA WayStillClear ==
  ASSUME Sound, WayClear, doing = "edit", work # <<>>, ~Head(work).added,
         UNCHANGED shape, work' = Tail(work),
         \A j \in Tables : \A a, b \in Entities : Related(rows', j, a, b) =>
           /\ Related(rows, j, a, b)
           /\ ~(j = Head(work).relation /\ a = Head(work).left /\ b = Head(work).right)
  PROVE  WayClear'
<1> DEFINE t == Tail(work)
<1>1. /\ t \in Seq(Delta) /\ Len(t) = Len(work) - 1
      /\ \A n \in 1..Len(work) - 1 : t[n] = work[n + 1]
      /\ Len(work) \in Nat /\ Len(work) > 0 /\ Head(work) = work[1]
      /\ t # <<>> => Last(t) = Last(work)
  BY TailOfWork
<1>2. Last(work) \in Delta
  BY <1>1 DEF Sound, ControlOK, Last
<1> HIDE DEF t
<1>4. ASSUME t # <<>>, Last(t).added
      PROVE  /\ Last(t) = Last(work)
             /\ \E k \in Keys : (k[1] \in Families => labelled'[k] # 0)
                                 /\ Last(t).relation = TableOf(k)'
             /\ \A z \in Entities : ~RightIsMany(cardinality[Last(t).relation])
                    /\ Related(rows', Last(t).relation, z, Last(t).right) =>
                  Goes(t, Last(t).relation, z, Last(t).right)
             /\ \A z \in Entities : ~LeftIsMany(cardinality[Last(t).relation])
                    /\ Related(rows', Last(t).relation, Last(t).left, z) =>
                  Goes(t, Last(t).relation, Last(t).left, z)
  <2> DEFINE w == Last(work)
             i == w.relation
  <2>2. Last(t) = w
    BY <1>1, <1>4
  <2>3. w \in Delta
    BY <1>2
  <2>4. i \in Tables /\ w.left \in Entities /\ w.right \in Entities
    BY <2>3 DEF Delta
  <2>5. /\ \E k \in Keys : Names(k, i)
        /\ \A z \in Entities : ~RightIsMany(cardinality[i]) /\ Related(rows, i, z, w.right) =>
             Goes(work, i, z, w.right)
        /\ \A z \in Entities : ~LeftIsMany(cardinality[i]) /\ Related(rows, i, w.left, z) =>
             Goes(work, i, w.left, z)
    BY <1>4, <2>2 DEF WayClear
  <2> HIDE DEF w, i
  <2>6. ASSUME NEW a \in Entities, NEW b \in Entities, Related(rows', i, a, b), Goes(work, i, a, b)
        PROVE  Goes(t, i, a, b)
    <3>1. PICK n \in 1..Len(work) : ~work[n].added /\ work[n].relation = i
                                    /\ work[n].left = a /\ work[n].right = b
      BY <2>6 DEF Goes
    <3>2. n # 1
      BY <1>1, <2>4, <2>6, <3>1
    <3>3. n - 1 \in 1..Len(t) /\ t[n - 1] = work[(n - 1) + 1] /\ (n - 1) + 1 = n
      BY <1>1, <3>1, <3>2
    <3> QED BY <3>1, <3>3 DEF Goes
  <2>7. \E k \in Keys : (k[1] \in Families => labelled'[k] # 0) /\ i = TableOf(k)'
    <3>1. PICK k \in Keys : Names(k, i)
      BY <2>5
    <3>2. UNCHANGED <<count, labelled>>
      BY DEF shape
    <3> QED BY <3>1, <3>2 DEF Names, TableOf
  <2>8. \A z \in Entities : ~RightIsMany(cardinality[i]) /\ Related(rows', i, z, w.right) =>
          Goes(t, i, z, w.right)
    BY <2>4, <2>5, <2>6
  <2>9. \A z \in Entities : ~LeftIsMany(cardinality[i]) /\ Related(rows', i, w.left, z) =>
          Goes(t, i, w.left, z)
    BY <2>4, <2>5, <2>6
  <2> QED BY <2>2, <2>7, <2>8, <2>9 DEF i, w
<1>5. work' = t /\ cardinality' = cardinality
  BY DEF t, shape
<1>7. ASSUME work' # <<>>, Last(work').added
      PROVE  /\ \E k \in Keys : Names(k, Last(work).relation)'
             /\ \A z \in Entities : ~RightIsMany(cardinality'[Last(work').relation])
                    /\ Related(rows', Last(work').relation, z, Last(work').right) =>
                  Goes(work', Last(work').relation, z, Last(work').right)
             /\ \A z \in Entities : ~LeftIsMany(cardinality'[Last(work').relation])
                    /\ Related(rows', Last(work').relation, Last(work').left, z) =>
                  Goes(work', Last(work').relation, Last(work').left, z)
  <2>1. t # <<>> /\ Last(t).added
    BY <1>5, <1>7
  <2>2. \E k \in Keys : Names(k, Last(work).relation)'
    BY <1>4, <1>5, <2>1 DEF Names
  <2>3. \A z \in Entities : ~RightIsMany(cardinality'[Last(work').relation])
              /\ Related(rows', Last(work').relation, z, Last(work').right) =>
            Goes(work', Last(work').relation, z, Last(work').right)
    BY <1>4, <1>5, <2>1
  <2>4. \A z \in Entities : ~LeftIsMany(cardinality'[Last(work').relation])
              /\ Related(rows', Last(work').relation, Last(work').left, z) =>
            Goes(work', Last(work').relation, Last(work').left, z)
    BY <1>4, <1>5, <2>1
  <2> QED BY <2>2, <2>3, <2>4
<1> QED BY <1>7 DEF WayClear

LEMMA RecordFits ==
  ASSUME NEW d, NEW r \in Fit(cardinality), Record(d, r), path \in Seq(Fit(cardinality))
  PROVE  path' \in Seq(Fit(cardinality))
<1>1. Append(path, r) \in Seq(Fit(cardinality))
  BY AppendProperties
<1>2. path' = Append(path, r) \/ path' = path
  BY DEF Record
<1> QED BY <1>1, <1>2

(* An iteration: a row that comes has room by then. *)
LEMMA EditOrderly ==
  ASSUME Sound, JournalRoom, Orderly, Edit
  PROVE  Orderly'
<1> DEFINE w == Head(work)
           i == w.relation
           has == Related(rows, i, w.left, w.right)
<1>1. /\ w \in Delta /\ has \in BOOLEAN /\ doing = "edit" /\ work # <<>>
      /\ UNCHANGED <<shape, cycle>>
      /\ \/ has = w.added /\ work' = Tail(work) /\ UNCHANGED <<rows, journal, path>>
         \/ /\ ~w.added /\ journalling /\ Len(journal) >= JournalLimit /\ has
            /\ work' = <<>> /\ UNCHANGED <<rows, journal, path>>
         \/ /\ w.added /\ ~has /\ work' = Tail(work)
            /\ rows' = Insert(rows, i, w.left, w.right)
            /\ Record(w, rows')
         \/ /\ ~w.added /\ has /\ work' = Tail(work)
            /\ rows' = Retract(rows, i, w.left, w.right)
            /\ Record(Removed(i, w.left, w.right), rows')
  BY EditDoes
<1>2. i \in Tables /\ w.left \in Entities /\ w.right \in Entities /\ w.added \in BOOLEAN
  BY <1>1 DEF Delta
<1>3. /\ rows \in Fit(cardinality) /\ rows \in GoodRows
      /\ path \in Seq(Fit(cardinality)) /\ paths \in Seq(Seq(Fit(cardinality)))
      /\ WayClear /\ LabelsOK
  BY DEF Orderly, Fit
<1>4. UNCHANGED <<shape, paths>>
  BY <1>1 DEF cycle
<1>5. /\ Tail(work) \in Seq(Delta) /\ Len(Tail(work)) = Len(work) - 1
      /\ w = work[1] /\ Len(work) \in Nat /\ Len(work) > 0
  BY <1>1, TailOfWork
<1> HIDE DEF w, i, has
<1>6. w.added => Len(work) = 1 /\ Tail(work) = <<>> /\ w = Last(work)
  <2>1. ASSUME w.added PROVE Len(work) = 1
    <3>1. \A n \in 1..Len(work) - 1 : ~work[n].added
      BY <1>1 DEF JournalRoom
    <3> QED BY <1>5, <2>1, <3>1
  <2>2. Len(work) = 1 => w = Last(work)
    BY <1>5 DEF Last
  <2>3. Len(work) = 1 => Tail(work) = <<>>
    <3> DEFINE t == Tail(work)
    <3>1. t \in Seq(Delta) /\ Len(t) = Len(work) - 1
      BY <1>5
    <3> HIDE DEF t
    <3>2. Len(work) = 1 => t = <<>>
      BY <1>5, <3>1, EmptySeq
    <3> QED BY <3>2 DEF t
  <2> QED BY <2>1, <2>2, <2>3
<1>7. work' = <<>> => WayClear'
  BY DEF WayClear
<1>8. CASE has = w.added /\ work' = Tail(work) /\ UNCHANGED <<rows, journal, path>>
  <2>1. WayClear'
    <3>1. CASE w.added
      BY <1>6, <1>7, <1>8, <3>1
    <3>2. CASE ~w.added
      <4>1. ~has
        BY <1>1, <1>8, <3>2
      <4>2. \A j \in Tables : \A a, b \in Entities : Related(rows', j, a, b) =>
              Related(rows, j, a, b) /\ ~(j = i /\ a = w.left /\ b = w.right)
        BY <1>8, <4>1 DEF has
      <4> QED BY <1>1, <1>3, <1>4, <1>8, <3>2, <4>2, WayStillClear DEF w, i
    <3> QED BY <3>1, <3>2
  <2> QED BY <1>3, <1>4, <1>8, <2>1, SameOrderly
<1>9. CASE work' = <<>> /\ UNCHANGED <<rows, journal, path>>
  BY <1>3, <1>4, <1>7, <1>9, SameOrderly
<1>10. CASE /\ w.added /\ ~has /\ work' = Tail(work)
            /\ rows' = Insert(rows, i, w.left, w.right)
            /\ Record(w, rows')
  <2>1. /\ \E k \in Keys : Names(k, i)
        /\ \A z \in Entities : ~RightIsMany(cardinality[i]) /\ Related(rows, i, z, w.right) =>
             Goes(work, i, z, w.right)
        /\ \A z \in Entities : ~LeftIsMany(cardinality[i]) /\ Related(rows, i, w.left, z) =>
             Goes(work, i, w.left, z)
    <3>1. w = Last(work) /\ Last(work).added /\ i = Last(work).relation
      BY <1>6, <1>10 DEF i
    <3> QED BY <1>1, <1>3, <3>1 DEF WayClear
  <2>2. \A a, b : ~Goes(work, i, a, b)
    BY <1>5, <1>6, <1>10 DEF Goes
  <2>3. cardinality[i] # NoCard
    <3>1. PICK k \in Keys : Names(k, i)
      BY <2>1
    <3>2. /\ k[1] \in Declared /\ Cards[k[1]] # NoCard
          /\ k[1] \in Families => k \in Families \X Labels
      BY KeyFacts
    <3> QED BY <1>3, <3>1, <3>2 DEF LabelsOK, Names, TableOf
  <2>4. ~RightIsMany(cardinality[i]) => \A z \in Entities : ~Related(rows, i, z, w.right)
    BY <2>1, <2>2
  <2>5. ~LeftIsMany(cardinality[i]) => \A z \in Entities : ~Related(rows, i, w.left, z)
    BY <2>1, <2>2
  <2>6. ~Related(rows, i, w.left, w.right)
    BY <1>10 DEF has
  <2>7. rows' \in Fit(cardinality)
    <3> HIDE DEF rows
    <3> QED BY <1>2, <1>3, <1>10, <2>3, <2>4, <2>5, <2>6, InsertFits
  <2>8. path' \in Seq(Fit(cardinality))
    BY <1>3, <1>10, <2>7, RecordFits
  <2> QED BY <1>3, <1>4, <1>6, <1>7, <1>10, <2>7, <2>8, SameOrderly
<1>11. CASE /\ ~w.added /\ has /\ work' = Tail(work)
            /\ rows' = Retract(rows, i, w.left, w.right)
            /\ Record(Removed(i, w.left, w.right), rows')
  <2>1. Related(rows, i, w.left, w.right)
    BY <1>11 DEF has
  <2>2. rows' \in Fit(cardinality)
    <3> HIDE DEF rows
    <3> QED BY <1>2, <1>3, <1>11, <2>1, RetractFits
  <2>3. path' \in Seq(Fit(cardinality))
    BY <1>3, <1>11, <2>2, RecordFits
  <2>4. \A j \in Tables : \A a, b \in Entities : Related(rows', j, a, b) =>
          Related(rows, j, a, b) /\ ~(j = i /\ a = w.left /\ b = w.right)
    BY <1>2, <1>3, <1>11, <2>1, RetractRelates DEF OneLess
  <2>5. WayClear'
    BY <1>1, <1>3, <1>4, <1>11, <2>4, WayStillClear DEF w, i
  <2> QED BY <1>3, <1>4, <2>2, <2>3, <2>5, SameOrderly
<1> QED BY <1>1, <1>8, <1>9, <1>10, <1>11

LEMMA DespawnOrderly ==
  ASSUME Sound, Orderly, NEW e \in Entities, Despawn(e)
  PROVE  Orderly'
<1>1. WayClear'
  BY DespawnWork, AllGo DEF WayClear
<1>2. UNCHANGED <<shape, rows, path, paths>>
  BY DEF Despawn, cycle
<1>3. rows \in Fit(cardinality) /\ path \in Seq(Fit(cardinality)) /\ paths \in Seq(Seq(Fit(cardinality)))
  BY DEF Orderly
<1> QED BY <1>1, <1>2, <1>3, SameOrderly

LEMMA BeginOrderly ==
  ASSUME Orderly, Begin
  PROVE  Orderly'
<1>1. doing' = "idle" /\ path' = <<rows>> /\ UNCHANGED <<shape, rows, paths>>
  BY DEF Begin
<1>2. WayClear'
  BY <1>1 DEF WayClear
<1>3. rows \in Fit(cardinality) /\ paths \in Seq(Seq(Fit(cardinality)))
  BY DEF Orderly
<1>4. <<rows>> \in Seq(Fit(cardinality))
  <2> HIDE DEF rows
  <2> QED BY <1>3, OneElement
<1> HIDE DEF rows
<1> QED BY <1>1, <1>2, <1>3, <1>4, SameOrderly

LEMMA FinishOrderly ==
  ASSUME Sound, Orderly, doing = "idle", NEW elsewhere \in BOOLEAN, TakeJournal(elsewhere),
         UNCHANGED <<shape, rows, doing>>
  PROVE  Orderly'
<1>1. path' = <<rows>> /\ (paths' = Append(Kept(paths), path) \/ paths' = paths)
  BY DEF TakeJournal
<1>2. WayClear'
  BY DEF WayClear
<1>3. /\ rows \in Fit(cardinality) /\ path \in Seq(Fit(cardinality))
      /\ paths \in Seq(Seq(Fit(cardinality)))
  BY DEF Orderly
<1> HIDE DEF rows
<1>4. <<rows>> \in Seq(Fit(cardinality))
  BY <1>3, OneElement
<1>5. Kept(paths) \in Seq(Seq(Fit(cardinality)))
  BY <1>3, KeptProperties
<1>6. Append(Kept(paths), path) \in Seq(Seq(Fit(cardinality)))
  BY <1>3, <1>5, AppendProperties
<1>7. paths' \in Seq(Seq(Fit(cardinality)))
  BY <1>1, <1>3, <1>6
<1> QED BY <1>1, <1>2, <1>3, <1>4, <1>7, SameOrderly

LEMMA UndoOrderly ==
  ASSUME Sound, Orderly, Undo
  PROVE  Orderly'
<1>1. doing' = "revert" /\ UNCHANGED <<shape, rows>>
  BY DEF Undo
<1>2. WayClear'
  BY <1>1 DEF WayClear
<1>3. /\ rows \in Fit(cardinality) /\ path \in Seq(Fit(cardinality))
      /\ paths \in Seq(Seq(Fit(cardinality)))
  BY DEF Orderly
<1> HIDE DEF rows
<1>4. CASE history = <<>>
  <2>1. UNCHANGED <<path, paths>>
    BY <1>4 DEF Undo
  <2> QED BY <1>1, <1>2, <1>3, <2>1, SameOrderly
<1>5. CASE history # <<>>
  <2> DEFINE p == Last(paths)
  <2>1. path' = Front(p) \o path /\ paths' = Front(paths)
    BY <1>5 DEF Undo
  <2>2. /\ Len(history) \in Nat /\ Len(history) > 0 /\ Len(paths) = Len(history)
        /\ Len(paths[Len(history)]) = Len(history[Len(history)]) + 1
        /\ Len(history[Len(history)]) \in Nat
    <3>1. history \in Seq(Seq(Change)) /\ Len(history) \in Nat /\ Len(history) > 0
      BY <1>5, EmptySeq DEF Sound, HistoryOK
    <3>2. Len(history) \in 1..Len(history)
      BY <3>1
    <3>3. history[Len(history)] \in Seq(Change)
      BY <3>1, <3>2
    <3> QED BY <3>1, <3>2, <3>3 DEF Sound, HistoryOK
  <2>3. /\ paths' \in Seq(Seq(Fit(cardinality)))
        /\ p \in Seq(Fit(cardinality)) /\ p = paths[Len(paths)]
    BY <1>3, <2>1, <2>2, FrontProperties
  <2>4. Len(p) > 0
    BY <2>2, <2>3
  <2> HIDE DEF p
  <2>5. Front(p) \in Seq(Fit(cardinality))
    BY <2>3, <2>4, FrontProperties
  <2>6. path' \in Seq(Fit(cardinality))
    BY <1>3, <2>1, <2>5, ConcatProperties
  <2> QED BY <1>1, <1>2, <1>3, <2>3, <2>6, SameOrderly
<1> QED BY <1>4, <1>5

(* What revert arrives at is on the trail. *)
LEMMA RevertOrderly ==
  ASSUME Sound, QuietTrail, Orderly, Revert
  PROVE  Orderly'
<1>1. /\ doing = "revert" /\ doing' = "revert" /\ work # <<>>
      /\ path' = Front(path) /\ UNCHANGED <<shape, paths>>
  BY DEF Revert, cycle
<1>2. WayClear'
  BY <1>1 DEF WayClear
<1>3. path \in Seq(Fit(cardinality)) /\ paths \in Seq(Seq(Fit(cardinality)))
  BY DEF Orderly
<1>4. Len(path) = Len(work) + 1 /\ work \in Seq(Change)
  BY <1>1 DEF Sound, TrailOK
<1>5. Len(work) \in Nat /\ Len(work) > 0
  BY <1>1, <1>4, EmptySeq
<1>6. Front(path) \in Seq(Fit(cardinality)) /\ Len(Front(path)) = Len(path) - 1
  <2>1. Len(path) > 0
    BY <1>4, <1>5
  <2> QED BY <1>3, <2>1, FrontProperties
<1>7. Last(Front(path)) \in Fit(cardinality)
  <2> DEFINE q == Front(path)
  <2> HIDE DEF q
  <2>1. q \in Seq(Fit(cardinality)) /\ Len(q) > 0
    BY <1>4, <1>5, <1>6 DEF q
  <2>2. Last(q) \in Fit(cardinality)
    BY <2>1, FrontProperties
  <2> QED BY <2>2 DEF q
<1>8. rows' = Last(path')
  BY <1>1, RevertQuiet DEF QuietTrail
<1> HIDE DEF rows
<1>9. rows' \in Fit(cardinality) /\ path' \in Seq(Fit(cardinality)) /\ paths' \in Seq(Seq(Fit(cardinality)))
  BY <1>1, <1>3, <1>6, <1>7, <1>8
<1> QED BY <1>1, <1>2, <1>9, SameOrderly

LEMMA IdleOrderly ==
  ASSUME Orderly, doing' # "edit" \/ UNCHANGED <<doing, work>>,
         UNCHANGED <<shape, rows, path, paths>>
  PROVE  Orderly'
<1>1. rows \in Fit(cardinality) /\ path \in Seq(Fit(cardinality)) /\ paths \in Seq(Seq(Fit(cardinality)))
  BY DEF Orderly
<1>2. UNCHANGED <<count, cardinality, labelled, forward, reverse>>
  BY DEF shape, rows
<1>3. WayClear'
  BY <1>2 DEF Orderly, WayClear, Names, TableOf, rows
<1> QED BY <1>1, <1>3, SameOrderly

LEMMA InitOrderly == Init => Orderly
<1> SUFFICES ASSUME Init PROVE Orderly
  OBVIOUS
<1>1. Len(Cards) \in Nat /\ MaxTables \in Nat /\ Declared = 1..Len(Cards) /\ Cards \in Seq(Kinds)
      /\ Len(Cards) <= MaxTables /\ NoCard \notin Kinds
  BY Constants DEF Declared, Kinds, NoCard
<1>2. LabelsOK
  BY <1>1 DEF Init, LabelsOK, Tables
<1>3. WayClear
  BY DEF Init, WayClear
<1>4. forward = [i \in Tables |-> [e \in Entities |-> <<>>]]
      /\ reverse = [i \in Tables |-> [e \in Entities |-> <<>>]]
  BY DEF Init
<1>5. rows \in GoodRows
  BY <1>4, EmptyRows DEF rows
<1>6. \A i \in Tables : \A x, y \in Entities : ~Related(rows, i, x, y)
  BY <1>4 DEF Related, Contains, rows
<1> DEFINE c == cardinality
<1> HIDE DEF rows, c
<1>7. Fitting(c, rows)
  BY <1>6 DEF Fitting
<1>8. rows \in Fit(c)
  BY <1>5, <1>7 DEF Fit
<1>9. path = <<rows>> /\ paths = <<>>
  BY DEF Init
<1>10. path \in Seq(Fit(c)) /\ paths \in Seq(Seq(Fit(c)))
  BY <1>8, <1>9, OneElement, EmptySeq
<1> QED BY <1>2, <1>3, <1>8, <1>10 DEF Orderly, c

(* Every step of the specification keeps the rows in order. *)
LEMMA OrderlyStep ==
  ASSUME Sound, JournalRoom, QuietTrail, Orderly, [Next]_vars
  PROVE  Orderly'
<1>1. ASSUME NEW k \in Keys, NEW p \in Pairs, Set(k, p[1], p[2]) \/ Unset(k, p[1], p[2])
      PROVE  Orderly'
  <2>1. p[1] \in Entities /\ p[2] \in Entities
    BY Constants
  <2> QED BY <1>1, <2>1, SetOrderly, UnsetOrderly
<1>2. ASSUME NEW k \in Keys, NEW e \in Walked, Outermost(k, e) PROVE Orderly'
  BY <1>2, Constants, OutermostOrderly
<1>3. ASSUME NEW e \in Mortal, Despawn(e) PROVE Orderly'
  BY <1>3, Constants, DespawnOrderly
<1>4. ASSUME NEW elsewhere \in BOOLEAN, End(elsewhere) PROVE Orderly'
  BY <1>4, FinishOrderly DEF End
<1>5. ASSUME NEW elsewhere \in BOOLEAN, Savepoint(elsewhere) PROVE Orderly'
  BY <1>5, FinishOrderly DEF Savepoint
<1>6. CASE Edited
  <2>1. doing' # "edit" /\ UNCHANGED <<shape, rows, path, paths>>
    BY <1>6 DEF Edited, cycle
  <2> QED BY <2>1, IdleOrderly
<1>7. CASE Rollback
  <2>1. doing' # "edit" /\ UNCHANGED <<shape, rows, path, paths>>
    BY <1>7 DEF Rollback
  <2> QED BY <2>1, IdleOrderly
<1>8. CASE Reverted
  <2>1. doing' # "edit" /\ UNCHANGED <<shape, rows, path, paths>>
    BY <1>8 DEF Reverted, cycle
  <2> QED BY <2>1, IdleOrderly
<1>9. CASE UNCHANGED vars
  <2>1. UNCHANGED <<doing, work>> /\ UNCHANGED <<shape, rows, path, paths>>
    BY <1>9 DEF vars, cycle
  <2> QED BY <2>1, IdleOrderly
<1> QED BY <1>1, <1>2, <1>3, <1>4, <1>5, <1>6, <1>7, <1>8, <1>9, EditOrderly, BeginOrderly,
           UndoOrderly, RevertOrderly DEF Next

(* The invariant of a game that changes nothing after an undo in the same  *)
(* turn.                                                                   *)
Quiet == Sound /\ JournalRoom /\ QuietTrail /\ Orderly

LEMMA QuietAlways == ASSUME QuietUndo = TRUE PROVE Spec => []Quiet
<1>1. Init => Quiet
  BY InitSound, InitOrderly DEF Quiet, Init, QuietTrail, JournalRoom
<1>2. Quiet /\ [Next]_vars => Quiet'
  BY NextSound, QuietStep, RoomStep, OrderlyStep DEF Quiet
<1> QED BY <1>1, <1>2, PTL DEF Spec

(* Said of lists: a side that allows one partner has a list of at most one. *)
LEMMA FitKeeps ==
  ASSUME rows \in Fit(cardinality)
  PROVE  CardinalityKept
<1>1. rows \in GoodRows /\ Fitting(cardinality, rows)
  BY DEF Fit
<1>2. ASSUME NEW i \in Tables, NEW e \in Entities, cardinality[i] = "one_to_one"
      PROVE  Len(forward[i][e]) <= 1
  <2> DEFINE s == forward[i][e]
  <2>1. s \in Seq(Entities) /\ IsInjective(s) /\ \A y \in Entities : Related(rows, i, e, y) <=> Contains(s, y)
    BY <1>1, GoodLists DEF rows
  <2>2. ~LeftIsMany(cardinality[i])
    BY <1>2 DEF LeftIsMany
  <2> HIDE DEF s
  <2>3. SUFFICES ASSUME Len(s) > 1 PROVE FALSE
    BY <2>1 DEF s
  <2>4. 1 \in 1..Len(s) /\ 2 \in 1..Len(s) /\ s[1] \in Entities /\ s[2] \in Entities
    BY <2>1, <2>3
  <2>5. Related(rows, i, e, s[1]) /\ Related(rows, i, e, s[2])
    BY <2>1, <2>4 DEF Contains
  <2>6. s[1] = s[2]
    BY <1>1, <2>2, <2>4, <2>5 DEF Fitting
  <2> QED BY <2>1, <2>4, <2>6 DEF IsInjective
<1>3. ASSUME NEW i \in Tables, NEW e \in Entities, cardinality[i] \in {"one_to_one", "one_to_many"}
      PROVE  Len(reverse[i][e]) <= 1
  <2> DEFINE s == reverse[i][e]
  <2>1. s \in Seq(Entities) /\ IsInjective(s) /\ \A x \in Entities : Related(rows, i, x, e) <=> Contains(s, x)
    BY <1>1, GoodLists DEF rows
  <2>2. ~RightIsMany(cardinality[i])
    BY <1>3 DEF RightIsMany
  <2> HIDE DEF s
  <2>3. SUFFICES ASSUME Len(s) > 1 PROVE FALSE
    BY <2>1 DEF s
  <2>4. 1 \in 1..Len(s) /\ 2 \in 1..Len(s) /\ s[1] \in Entities /\ s[2] \in Entities
    BY <2>1, <2>3
  <2>5. Related(rows, i, s[1], e) /\ Related(rows, i, s[2], e)
    BY <2>1, <2>4 DEF Contains
  <2>6. s[1] = s[2]
    BY <1>1, <2>2, <2>4, <2>5 DEF Fitting
  <2> QED BY <2>1, <2>4, <2>6 DEF IsInjective
<1> QED BY <1>2, <1>3 DEF CardinalityKept

(* Of a game that changes nothing after undo in the same turn: a side that *)
(* allows one partner never has two, in any table and at any moment, though*)
(* set takes the old partner out and puts the new one in in separate steps, *)
(* and rows come back by rollback and undo (relations.rs set, revert).     *)
THEOREM CardinalityAlways == ASSUME QuietUndo = TRUE PROVE Spec => []CardinalityKept
<1>1. Quiet => CardinalityKept
  BY FitKeeps DEF Quiet, Orderly
<1> QED BY <1>1, QuietAlways, PTL

(***************************************************************************)
(* Saving.  What is saved of a list are its elements that live, in order.  *)
(***************************************************************************)
LEMMA AmongProperties ==
  ASSUME NEW s \in Seq(Entities), IsInjective(s), NEW S
  PROVE  /\ Among(s, S) \in Seq(Entities) /\ IsInjective(Among(s, S))
         /\ \A e : Contains(Among(s, S), e) <=> Contains(s, e) /\ e \in S
<1> DEFINE N == Len(s)
           Grown(g, i) == IF i = 0 THEN <<>>
                          ELSE IF s[i] \in S THEN Append(g[i - 1], s[i]) ELSE g[i - 1]
           Walks(g, m) == \A i \in 0..m : g[i] = Grown(g, i)
           A == {m \in Nat : m <= N => \E g \in [0..m -> Seq(Entities)] : Walks(g, m)}
<1>1. N \in Nat /\ \A i \in 1..N : s[i] \in Entities
  OBVIOUS
<1> HIDE DEF N
<1>2. 0 \in A
  <2> DEFINE g == [i \in 0..0 |-> <<>>]
  <2>1. g \in [0..0 -> Seq(Entities)]
    BY EmptySeq
  <2>2. Walks(g, 0)
    OBVIOUS
  <2> HIDE DEF g, Walks
  <2> QED BY <2>1, <2>2
<1>3. ASSUME NEW m \in A PROVE m + 1 \in A
  <2>0. SUFFICES ASSUME m + 1 <= N PROVE \E g \in [0..m + 1 -> Seq(Entities)] : Walks(g, m + 1)
    <3> HIDE DEF Walks
    <3> QED OBVIOUS
  <2>2. m \in Nat /\ m <= N /\ m + 1 \in 1..N
    BY <1>1, <2>0
  <2>1. PICK g \in [0..m -> Seq(Entities)] : Walks(g, m)
    <3> HIDE DEF Walks
    <3> QED BY <2>2
  <2> DEFINE last == IF s[m + 1] \in S THEN Append(g[m], s[m + 1]) ELSE g[m]
             h == [i \in 0..m + 1 |-> IF i <= m THEN g[i] ELSE last]
  <2>3. g[m] \in Seq(Entities)
    BY <2>2
  <2>4. last \in Seq(Entities)
    BY <1>1, <2>2, <2>3, AppendProperties
  <2>5. last = IF s[m + 1] \in S THEN Append(g[m], s[m + 1]) ELSE g[m]
    OBVIOUS
  <2> HIDE DEF last
  <2>6. h \in [0..m + 1 -> Seq(Entities)]
    BY <2>2, <2>4
  <2>7. ASSUME NEW i \in 0..m + 1 PROVE h[i] = Grown(h, i)
    <3>1. CASE i <= m
      <4>1. h[i] = g[i] /\ (i # 0 => h[i - 1] = g[i - 1])
        BY <3>1, <2>2
      <4>2. g[i] = Grown(g, i)
        <5> HIDE DEF Grown
        <5> QED BY <3>1, <2>1, <2>2
      <4> HIDE DEF h
      <4> QED BY <4>1, <4>2
    <3>2. CASE i = m + 1
      <4>1. h[i] = last /\ h[i - 1] = g[m] /\ i # 0
        BY <3>2, <2>2
      <4> HIDE DEF h
      <4> QED BY <3>2, <4>1, <2>5
    <3> QED BY <3>1, <3>2, <2>2
  <2>8. Walks(h, m + 1)
    BY <2>7
  <2> HIDE DEF h, Walks
  <2> QED BY <2>6, <2>8
<1>4. A = Nat
  <2>1. A \in SUBSET Nat
    OBVIOUS
  <2> HIDE DEF A
  <2> QED BY <1>2, <1>3, <2>1, SetInduction
<1>5. PICK g \in [0..N -> Seq(Entities)] : Walks(g, N)
  <2>1. N \in A
    BY <1>1, <1>4
  <2> HIDE DEF Walks
  <2> QED BY <1>1, <2>1
<1> DEFINE f == CHOOSE f : f = [n \in 0..N |-> Grown(f, n)]
<1>6. Among(s, S) = f[N]
  BY DEF Among, N
<1>7. g = [n \in 0..N |-> Grown(g, n)]
  <2> HIDE DEF Grown
  <2> QED BY <1>5
<1>8. f = [n \in 0..N |-> Grown(f, n)]
  <2> HIDE DEF Grown
  <2> QED BY <1>7
<1> HIDE DEF f
<1> DEFINE Right(l, m) ==
             /\ l \in Seq(Entities) /\ IsInjective(l)
             /\ \A e : Contains(l, e) <=> e \in S /\ \E i \in 1..m : s[i] = e
           B == {m \in Nat : m \in 0..N => Right(f[m], m)}
<1>9. 0 \in B
  <2>1. 0 \in 0..N
    BY <1>1
  <2>2. f[0] = Grown(f, 0)
    <3> HIDE DEF Grown
    <3> QED BY <1>8, <2>1
  <2>3. f[0] = <<>>
    BY <2>2
  <2>4. Right(<<>>, 0)
    BY EmptySeq DEF IsInjective, Contains
  <2> HIDE DEF Right
  <2> QED BY <2>3, <2>4
<1>10. ASSUME NEW m \in B PROVE m + 1 \in B
  <2>1. SUFFICES ASSUME m + 1 \in 0..N PROVE Right(f[m + 1], m + 1)
    <3> HIDE DEF Right
    <3> QED OBVIOUS
  <2>2. f[m + 1] = Grown(f, m + 1)
    <3> HIDE DEF Grown
    <3> QED BY <1>8, <2>1
  <2>3. m \in Nat /\ m \in 0..N /\ m + 1 \in 1..N /\ s[m + 1] \in Entities
    BY <2>1, <1>1
  <2> DEFINE l == f[m]
             x == s[m + 1]
  <2>4. Right(l, m)
    <3> HIDE DEF Right
    <3> QED BY <2>3
  <2>5. f[m + 1] = IF x \in S THEN Append(l, x) ELSE l
    BY <2>2, <2>3
  <2> HIDE DEF l
  <2>6. \A i \in 1..m + 1 : i \in 1..m \/ i = m + 1
    BY <2>3
  <2>7. \A i \in 1..m : i \in 1..m + 1 /\ i # m + 1 /\ i \in 1..N
    BY <2>3, <1>1
  <2>8. CASE x \in S
    <3>1. ~Contains(l, x)
      <4>1. SUFFICES ASSUME NEW i \in 1..m, s[i] = x PROVE FALSE
        BY <2>4
      <4>2. i \in 1..Len(s) /\ m + 1 \in 1..Len(s)
        BY <2>3, <2>7 DEF N
      <4> QED BY <2>7, <4>1, <4>2 DEF IsInjective
    <3>2. /\ Append(l, x) \in Seq(Entities) /\ IsInjective(Append(l, x))
          /\ \A e : Contains(Append(l, x), e) <=> Contains(l, e) \/ e = x
      <4>1. x \in Entities /\ l \in Seq(Entities) /\ IsInjective(l)
        BY <2>3, <2>4
      <4> HIDE DEF x
      <4> QED BY <3>1, <4>1, AppendProperty
    <3>3. f[m + 1] = Append(l, x)
      BY <2>5, <2>8
    <3>4. ASSUME NEW e
          PROVE  (Contains(l, e) \/ e = x) <=> (e \in S /\ \E i \in 1..m + 1 : s[i] = e)
      BY <2>3, <2>4, <2>6, <2>7, <2>8
    <3> HIDE DEF x
    <3> QED BY <3>2, <3>3, <3>4
  <2>9. CASE x \notin S
    <3>1. ASSUME NEW e
          PROVE  Contains(l, e) <=> (e \in S /\ \E i \in 1..m + 1 : s[i] = e)
      BY <2>3, <2>4, <2>6, <2>7, <2>9
    <3> QED BY <2>4, <2>5, <2>9, <3>1
  <2> QED BY <2>8, <2>9
<1>11. B = Nat
  <2>1. B \in SUBSET Nat
    OBVIOUS
  <2> HIDE DEF B
  <2> QED BY <1>9, <1>10, <2>1, SetInduction
<1>12. Right(f[N], N)
  <2>1. N \in B
    BY <1>1, <1>11
  <2> HIDE DEF Right
  <2> QED BY <1>1, <2>1
<1>13. \A e : Contains(s, e) <=> \E i \in 1..N : s[i] = e
  BY DEF Contains, N
<1> HIDE DEF N
<1> QED BY <1>6, <1>12, <1>13

(* A table is saved as what a restore accepts. *)
LEMMA SavedTable ==
  ASSUME Quiet, NEW i \in Tables, NEW t,
         t = [cardinality |-> cardinality[i],
              forward |-> [e \in live |-> Among(forward[i][e], live)],
              reverse |-> [e \in live |-> Among(reverse[i][e], live)]]
  PROVE  ReadableTable(t)
<1>1. live \subseteq Entities /\ rows \in GoodRows /\ Fitting(cardinality, rows)
  BY DEF Quiet, Sound, ControlOK, Orderly, Fit
<1>2. /\ t.cardinality = cardinality[i]
      /\ DOMAIN t.forward = live
      /\ \A e \in live : t.forward[e] = Among(forward[i][e], live)
      /\ \A e \in live : t.reverse[e] = Among(reverse[i][e], live)
  OBVIOUS
<1>3. ASSUME NEW e \in live
      PROVE  /\ t.forward[e] \in Seq(Entities) /\ IsInjective(t.forward[e])
             /\ \A y \in Entities : Contains(t.forward[e], y) <=> Related(rows, i, e, y) /\ y \in live
  <2> DEFINE s == forward[i][e]
  <2>1. s \in Seq(Entities) /\ IsInjective(s)
        /\ \A y \in Entities : Related(rows, i, e, y) <=> Contains(s, y)
    BY <1>1, GoodLists DEF rows
  <2>2. t.forward[e] = Among(s, live)
    BY <1>2
  <2> HIDE DEF s
  <2>3. /\ Among(s, live) \in Seq(Entities) /\ IsInjective(Among(s, live))
        /\ \A y : Contains(Among(s, live), y) <=> Contains(s, y) /\ y \in live
    BY <2>1, AmongProperties
  <2> QED BY <2>1, <2>2, <2>3
<1>4. ASSUME NEW e \in live
      PROVE  /\ t.reverse[e] \in Seq(Entities) /\ IsInjective(t.reverse[e])
             /\ \A x \in Entities : Contains(t.reverse[e], x) <=> Related(rows, i, x, e) /\ x \in live
  <2> DEFINE s == reverse[i][e]
  <2>1. s \in Seq(Entities) /\ IsInjective(s)
        /\ \A x \in Entities : Related(rows, i, x, e) <=> Contains(s, x)
    BY <1>1, GoodLists DEF rows
  <2>2. t.reverse[e] = Among(s, live)
    BY <1>2
  <2> HIDE DEF s
  <2>3. /\ Among(s, live) \in Seq(Entities) /\ IsInjective(Among(s, live))
        /\ \A x : Contains(Among(s, live), x) <=> Contains(s, x) /\ x \in live
    BY <2>1, AmongProperties
  <2> QED BY <2>1, <2>2, <2>3
<1>5. ASSUME NEW s \in Seq(Entities), s # <<>> PROVE s[1] \in Entities /\ Contains(s, s[1])
  BY <1>5 DEF Contains
<1>6. ASSUME NEW s \in Seq(Entities), IsInjective(s), Len(s) > 1
      PROVE  /\ s[1] \in Entities /\ s[2] \in Entities /\ s[1] # s[2]
             /\ Contains(s, s[1]) /\ Contains(s, s[2])
  BY <1>6 DEF Contains, IsInjective
<1>7. ASSUME NEW e \in live
      PROVE  /\ t.forward[e] # <<>> \/ t.reverse[e] # <<>> => cardinality[i] # NoCard
             /\ Len(t.forward[e]) > 1 => LeftIsMany(cardinality[i])
             /\ Len(t.reverse[e]) > 1 => RightIsMany(cardinality[i])
             /\ IsInjective(t.forward[e]) /\ IsInjective(t.reverse[e])
  <2>1. e \in Entities
    BY <1>1
  <2>2. t.forward[e] # <<>> => cardinality[i] # NoCard
    BY <1>1, <1>3, <1>5, <2>1 DEF Fitting
  <2>3. t.reverse[e] # <<>> => cardinality[i] # NoCard
    BY <1>1, <1>4, <1>5, <2>1 DEF Fitting
  <2>4. Len(t.forward[e]) > 1 => LeftIsMany(cardinality[i])
    BY <1>1, <1>3, <1>6, <2>1 DEF Fitting
  <2>5. Len(t.reverse[e]) > 1 => RightIsMany(cardinality[i])
    BY <1>1, <1>4, <1>6, <2>1 DEF Fitting
  <2> QED BY <1>3, <1>4, <2>2, <2>3, <2>4, <2>5
<1>8. ASSUME NEW x \in live, NEW y \in live
      PROVE  Contains(t.forward[x], y) <=> Contains(t.reverse[y], x)
  BY <1>1, <1>3, <1>4
<1> QED BY <1>2, <1>7, <1>8 DEF ReadableTable

(* So are the tables of the labels. *)
LEMMA SavedLabels ==
  ASSUME Quiet, NEW image, image = write_world, NEW l \in image.labelled
  PROVE  LET base == l[1][1]
             table == l[2]
         IN /\ base \in DOMAIN image.tables /\ table \in DOMAIN image.tables \ {base}
            /\ image.tables[base].cardinality = image.tables[table].cardinality
            /\ \A m \in image.labelled : m[2] = table => m = l
<1>1. /\ count \in 0..MaxTables /\ MaxTables \in Nat /\ Len(Cards) \in Nat /\ Len(Cards) <= count
      /\ Families \subseteq 1..Len(Cards) /\ Declared = 1..Len(Cards)
      /\ DOMAIN labelled = Families \X Labels
  BY Constants DEF Quiet, Sound, ShapeOK, Orderly, LabelsOK, Declared
<1>2. /\ DOMAIN image.tables = 1..count
      /\ \A i \in 1..count : image.tables[i].cardinality = cardinality[i]
      /\ image.labelled = {<<k, labelled[k]>> : k \in {x \in DOMAIN labelled : labelled[x] # 0}}
  BY DEF write_world
<1>3. PICK k \in Families \X Labels : labelled[k] # 0 /\ l = <<k, labelled[k]>>
  BY <1>1, <1>2
<1>4. l[1] = k /\ l[2] = labelled[k] /\ k[1] \in Families
  BY <1>3
<1>5. labelled[k] \in Len(Cards) + 1..count /\ cardinality[labelled[k]] = Cards[k[1]]
      /\ cardinality[k[1]] = Cards[k[1]]
  BY <1>1, <1>3, <1>4 DEF Quiet, Orderly, LabelsOK
<1>6. k[1] \in 1..count /\ labelled[k] \in 1..count /\ labelled[k] # k[1]
  <2> DEFINE base == k[1]
             table == labelled[k]
  <2>1. base \in 1..Len(Cards) /\ table \in Len(Cards) + 1..count
    BY <1>1, <1>4, <1>5
  <2>2. Len(Cards) \in Nat /\ count \in Nat /\ Len(Cards) <= count
    BY <1>1
  <2> HIDE DEF base, table
  <2>3. base \in 1..count /\ table \in 1..count /\ table # base
    BY <2>1, <2>2
  <2> QED BY <2>3 DEF base, table
<1>7. ASSUME NEW m \in image.labelled, m[2] = labelled[k] PROVE m = l
  <2>1. PICK j \in Families \X Labels : labelled[j] # 0 /\ m = <<j, labelled[j]>>
    BY <1>1, <1>2
  <2>2. labelled[j] = labelled[k]
    BY <1>7, <2>1
  <2>3. j = k
    BY <1>3, <2>1, <2>2 DEF Quiet, Orderly, LabelsOK
  <2> QED BY <1>3, <2>1, <2>3
<1> QED BY <1>2, <1>4, <1>5, <1>6, <1>7

LEMMA QuietSaves ==
  ASSUME Quiet
  PROVE  SavesRestore
<1> DEFINE image == write_world
<1>1. \A i \in 1..count : i \in Tables
  BY Constants DEF Quiet, Sound, ShapeOK, Tables
<1>2. /\ DOMAIN image.tables = 1..count
      /\ \A i \in 1..count : image.tables[i] =
           [cardinality |-> cardinality[i],
            forward |-> [e \in live |-> Among(forward[i][e], live)],
            reverse |-> [e \in live |-> Among(reverse[i][e], live)]]
  BY DEF write_world
<1>3. image = write_world
  OBVIOUS
<1> HIDE DEF image
<1>4. \A i \in DOMAIN image.tables : ReadableTable(image.tables[i])
  BY <1>1, <1>2, SavedTable
<1>5. \A l \in image.labelled :
        LET base == l[1][1]
            table == l[2]
        IN /\ base \in DOMAIN image.tables /\ table \in DOMAIN image.tables \ {base}
           /\ image.tables[base].cardinality = image.tables[table].cardinality
           /\ \A m \in image.labelled : m[2] = table => m = l
  BY <1>3, SavedLabels
<1> QED BY <1>3, <1>4, <1>5 DEF SavesRestore, Readable

(* Of a game that changes nothing after undo in the same turn: whatever was *)
(* set, unset, forgotten, rolled back or undone, what write_world saves    *)
(* between operations is accepted by read_world.                           *)
THEOREM SavesReadable == ASSUME QuietUndo = TRUE PROVE Spec => []SavesRestore
BY QuietAlways, QuietSaves, PTL

(***************************************************************************)
(* The store implements RowStore.  Pairs are read through the table each   *)
(* key names, so that a step that makes a table for a label changes no pair.*)
(***************************************************************************)
(* The table of each key, 0 where there is none. *)
named == [k \in Keys |-> IF k[1] \in Families THEN labelled[k] ELSE k[1]]

(* The pairs that rows give through such tables. *)
RowsIn(m, r) ==
  {t \in Keys \X Entities \X Entities : m[t[1]] # 0 /\ Related(r, m[t[1]], t[2], t[3])}

(* The pairs at the start of each kept cycle. *)
StartsIn(m, ps) == [n \in DOMAIN ps |-> RowsIn(m, ps[n][1])]

(* The rows there are, or that a running revert is on its way to. *)
current == IF doing = "revert" THEN path[1] ELSE rows

LEMMA RowsOfIs == \A r : RowsOf(r) = RowsIn(named, r)
<1>1. ASSUME NEW k \in Keys
      PROVE  /\ (k[1] \in Families => labelled[k] # 0) <=> named[k] # 0
             /\ named[k] # 0 => TableOf(k) = named[k]
  <2>1. k[1] \in 1..Len(Cards)
    BY KeyFacts
  <2>2. k[1] # 0
    BY <2>1
  <2> QED BY <2>2 DEF named, TableOf
<1>2. ASSUME NEW r PROVE RowsOf(r) = RowsIn(named, r)
  <2>1. ASSUME NEW t \in Keys \X Entities \X Entities
        PROVE  ((t[1][1] \in Families => labelled[t[1]] # 0) /\ Related(r, TableOf(t[1]), t[2], t[3]))
               <=> (named[t[1]] # 0 /\ Related(r, named[t[1]], t[2], t[3]))
    <3>1. t[1] \in Keys
      OBVIOUS
    <3> QED BY <1>1, <3>1
  <2> QED BY <2>1 DEF RowsOf, RowsIn
<1> QED BY <1>2

(* The abstract state, said with these. *)
LEMMA StoreIs ==
  /\ storeRows = RowsIn(named, current)
  /\ storeSaved = Append(StartsIn(named, paths), RowsIn(named, path[1]))
<1>1. storeRows = RowsIn(named, current)
  BY RowsOfIs DEF storeRows, current
<1>2. \A n \in DOMAIN paths : RowsOf(paths[n][1]) = RowsIn(named, paths[n][1])
  BY RowsOfIs
<1>3. [n \in DOMAIN paths |-> RowsOf(paths[n][1])] = StartsIn(named, paths)
  BY <1>2 DEF StartsIn
<1>4. RowsOf(path[1]) = RowsIn(named, path[1])
  BY RowsOfIs
<1> QED BY <1>1, <1>3, <1>4 DEF storeSaved

(* The same of the next state. *)
LEMMA StoreWillBe ==
  /\ storeRows' = RowsIn(named', current')
  /\ storeSaved' = Append(StartsIn(named', paths'), RowsIn(named', path'[1]))
<1>1. (storeRows = RowsIn(named, current)
       /\ storeSaved = Append(StartsIn(named, paths), RowsIn(named, path[1])))'
  BY StoreIs, PTL
<1> QED BY <1>1

(* A step that keeps the tables, the trail's start and the mode.           *)
LEMMA SameStore ==
  ASSUME storeMode' = storeMode, RowsIn(named', current') = RowsIn(named, current),
         StartsIn(named', paths') = StartsIn(named, paths),
         RowsIn(named', path'[1]) = RowsIn(named, path[1])
  PROVE  UNCHANGED Store!vars
<1>1. storeRows' = storeRows /\ storeSaved' = storeSaved
  BY StoreIs, StoreWillBe
<1> QED BY <1>1 DEF Store!vars

LEMMA SameNames == UNCHANGED shape => named' = named
BY DEF shape, named

(* A call that names a table leaves every pair of every table. *)
LEMMA EnsureKeepsPairs ==
  ASSUME ShapeOK, LabelsOK, NEW k \in Keys, Ensure(k), NEW r \in Fit(cardinality)
  PROVE  RowsIn(named', r) = RowsIn(named, r)
<1>1. /\ TableOf(k) \in Tables
      /\ labelled' = IF k[1] \in Families THEN [labelled EXCEPT ![k] = TableOf(k)] ELSE labelled
  BY EnsureSound DEF Ensure
<1>2. Fitting(cardinality, r)
  BY DEF Fit
<1>3. ASSUME NEW l \in Keys, NEW x \in Entities, NEW y \in Entities
      PROVE  (named'[l] # 0 /\ Related(r, named'[l], x, y)) <=> (named[l] # 0 /\ Related(r, named[l], x, y))
  <2>1. CASE k[1] \in Families /\ l = k /\ labelled[k] = 0
    <3>1. k \in Families \X Labels
      BY <2>1, KeyFacts
    <3>2. TableOf(k) = count + 1 /\ labelled'[k] = TableOf(k)
      BY <1>1, <2>1, <3>1 DEF TableOf, ShapeOK
    <3>3. TableOf(k) > count
      BY <3>2 DEF ShapeOK
    <3>4. cardinality[TableOf(k)] = NoCard
      BY <1>1, <3>3 DEF LabelsOK
    <3>5. ~Related(r, TableOf(k), x, y)
      BY <1>1, <1>2, <3>4 DEF Fitting
    <3>6. named[l] = 0 /\ named'[l] = TableOf(k)
      BY <2>1, <3>2 DEF named
    <3> QED BY <3>5, <3>6
  <2>2. CASE ~(k[1] \in Families /\ l = k /\ labelled[k] = 0)
    <3>1. l[1] \in Families => l \in Families \X Labels
      BY KeyFacts
    <3>2. l[1] \in Families => labelled'[l] = labelled[l]
      <4>1. CASE k[1] \notin Families
        BY <1>1, <4>1
      <4>2. CASE k[1] \in Families /\ l # k
        BY <1>1, <3>1, <4>2 DEF ShapeOK
      <4>3. CASE k[1] \in Families /\ l = k
        BY <1>1, <2>2, <3>1, <4>3 DEF ShapeOK, TableOf
      <4> QED BY <4>1, <4>2, <4>3
    <3>3. named'[l] = named[l]
      BY <3>2 DEF named
    <3> QED BY <3>3
  <2> QED BY <2>1, <2>2
<1>4. \A t \in Keys \X Entities \X Entities : t[1] \in Keys /\ t[2] \in Entities /\ t[3] \in Entities
  OBVIOUS
<1> QED BY <1>3, <1>4 DEF RowsIn

(* What begins each kept cycle and the open one is on a trail. *)
LEMMA StartsFit ==
  ASSUME Quiet
  PROVE  /\ Len(path) \in Nat /\ Len(path) > 0 /\ path[1] \in Fit(cardinality)
         /\ \A n \in DOMAIN paths : paths[n][1] \in Fit(cardinality)
         /\ rows \in Fit(cardinality) /\ DOMAIN paths = 1..Len(paths) /\ Len(paths) \in Nat
<1>1. /\ path \in Seq(Fit(cardinality)) /\ paths \in Seq(Seq(Fit(cardinality)))
      /\ rows \in Fit(cardinality)
  BY DEF Quiet, Orderly
<1>2. Len(path) > 0
  BY DEF Quiet, Sound, TrailOK
<1>3. path[1] \in Fit(cardinality)
  BY <1>1, <1>2
<1>4. ASSUME NEW n \in DOMAIN paths PROVE paths[n][1] \in Fit(cardinality)
  <2>1. n \in 1..Len(paths) /\ paths[n] \in Seq(Fit(cardinality))
    BY <1>1
  <2>2. Len(paths[n]) = Len(history[n]) + 1 /\ Len(history[n]) \in Nat
    BY <2>1 DEF Quiet, Sound, HistoryOK
  <2> QED BY <2>1, <2>2
<1> QED BY <1>1, <1>2, <1>3, <1>4

LEMMA EnsureStutters ==
  ASSUME Quiet, NEW k \in Keys, Ensure(k), doing = "idle", doing' # "revert",
         UNCHANGED <<rows, cycle, path>>
  PROVE  UNCHANGED Store!vars
<1>1. ShapeOK /\ LabelsOK
  BY DEF Quiet, Sound, Orderly
<1>2. \A r \in Fit(cardinality) : RowsIn(named', r) = RowsIn(named, r)
  BY <1>1, EnsureKeepsPairs
<1>3. current = rows /\ current' = rows /\ path' = path /\ paths' = paths /\ storeMode' = storeMode
  BY DEF current, cycle, storeMode
<1>4. /\ path[1] \in Fit(cardinality) /\ rows \in Fit(cardinality)
      /\ \A n \in DOMAIN paths : paths[n][1] \in Fit(cardinality)
  BY StartsFit
<1> HIDE DEF rows
<1>5. StartsIn(named', paths') = StartsIn(named, paths)
  BY <1>2, <1>3, <1>4 DEF StartsIn
<1>6. RowsIn(named', current') = RowsIn(named, current)
  BY <1>2, <1>3, <1>4
<1>7. RowsIn(named', path'[1]) = RowsIn(named, path[1])
  BY <1>2, <1>3, <1>4
<1> QED BY <1>3, <1>5, <1>6, <1>7, SameStore

(* Every pair of every key. *)
Every == Keys \X Entities \X Entities

(* The ends of a list that was appended to. *)
LEMMA AppendEnds ==
  ASSUME NEW S, NEW s \in Seq(S), NEW e \in S
  PROVE  Front(Append(s, e)) = s /\ Last(Append(s, e)) = e /\ Len(Append(s, e)) = Len(s) + 1
<1> DEFINE a == Append(s, e)
<1>1. /\ a \in Seq(S) /\ Len(a) = Len(s) + 1 /\ Last(a) = e
      /\ \A n \in 1..Len(s) : a[n] = s[n]
  BY LastOfAppend
<1> HIDE DEF a
<1>2. Len(s) \in Nat /\ Len(a) > 0
  BY <1>1
<1>3. /\ Front(a) \in Seq(S) /\ Len(Front(a)) = Len(a) - 1
      /\ \A n \in 1..Len(a) - 1 : Front(a)[n] = a[n]
  BY <1>1, <1>2, FrontProperties
<1>4. Len(Front(a)) = Len(s) /\ \A n \in 1..Len(Front(a)) : Front(a)[n] = s[n]
  BY <1>1, <1>2, <1>3
<1>5. Front(a) = s
  BY <1>3, <1>4, SeqEqual
<1> QED BY <1>1, <1>5 DEF a

(* Dropping the oldest and appending commute. *)
LEMMA AppendTail ==
  ASSUME NEW S, NEW s \in Seq(S), NEW e \in S, Len(s) > 0
  PROVE  Tail(Append(s, e)) = Append(Tail(s), e)
<1> DEFINE a == Append(s, e)
           t == Tail(s)
           b == Append(t, e)
<1>1. /\ a \in Seq(S) /\ Len(a) = Len(s) + 1 /\ a[Len(s) + 1] = e
      /\ \A n \in 1..Len(s) : a[n] = s[n]
  BY AppendProperties
<1>2. t \in Seq(S) /\ Len(t) = Len(s) - 1 /\ \A n \in 1..Len(t) : t[n] = s[n + 1]
  <2>1. s # <<>>
    BY EmptySeq
  <2> QED BY <2>1, HeadTailProperties
<1> HIDE DEF t
<1>3. /\ b \in Seq(S) /\ Len(b) = Len(t) + 1 /\ b[Len(t) + 1] = e
      /\ \A n \in 1..Len(t) : b[n] = t[n]
  BY <1>2, AppendProperties
<1> HIDE DEF a, b
<1>4. Tail(a) \in Seq(S) /\ Len(Tail(a)) = Len(a) - 1 /\ \A n \in 1..Len(Tail(a)) : Tail(a)[n] = a[n + 1]
  <2>1. a # <<>>
    BY <1>1, EmptySeq
  <2> QED BY <1>1, <2>1, HeadTailProperties
<1>5. Len(s) \in Nat
  OBVIOUS
<1>6. ASSUME NEW n \in 1..Len(Tail(a)) PROVE Tail(a)[n] = b[n]
  <2>1. n \in 1..Len(s) /\ Tail(a)[n] = a[n + 1]
    BY <1>1, <1>4, <1>5
  <2>2. CASE n = Len(s)
    <3>1. a[n + 1] = e
      BY <1>1, <2>2
    <3>2. b[n] = e
      BY <1>2, <1>3, <1>5, <2>2
    <3> QED BY <2>1, <3>1, <3>2
  <2>3. CASE n # Len(s)
    <3>1. n \in 1..Len(t) /\ n + 1 \in 1..Len(s)
      BY <1>2, <1>5, <2>1, <2>3
    <3>2. b[n] = s[n + 1] /\ a[n + 1] = s[n + 1]
      BY <1>1, <1>2, <1>3, <3>1
    <3> QED BY <2>1, <3>2
  <2> QED BY <2>2, <2>3
<1>7. Len(Tail(a)) = Len(b)
  BY <1>1, <1>2, <1>3, <1>4, <1>5
<1>8. Tail(a) = b
  BY <1>3, <1>4, <1>6, <1>7, SeqEqual
<1> QED BY <1>8 DEF a, b, t

LEMMA PairsType == \A m, r : RowsIn(m, r) \in SUBSET Every
BY DEF RowsIn, Every

(* The starts of a list of cycles that grows, or loses an end. *)
LEMMA StartsType ==
  ASSUME NEW m, NEW T, NEW ps \in Seq(T)
  PROVE  /\ StartsIn(m, ps) \in Seq(SUBSET Every) /\ Len(StartsIn(m, ps)) = Len(ps)
         /\ \A n \in 1..Len(ps) : StartsIn(m, ps)[n] = RowsIn(m, ps[n][1])
<1>1. DOMAIN ps = 1..Len(ps) /\ Len(ps) \in Nat
  OBVIOUS
<1> DEFINE s == StartsIn(m, ps)
<1>2. DOMAIN s = 1..Len(ps) /\ \A n \in 1..Len(ps) : s[n] = RowsIn(m, ps[n][1])
  BY <1>1 DEF StartsIn
<1>3. s = [n \in 1..Len(ps) |-> RowsIn(m, ps[n][1])]
  BY <1>1 DEF StartsIn
<1> HIDE DEF s
<1>4. s \in [1..Len(ps) -> SUBSET Every]
  BY <1>3, PairsType
<1>5. s \in Seq(SUBSET Every)
  BY <1>1, <1>4, SeqDef
<1>6. Len(s) = Len(ps)
  BY <1>1, <1>2, <1>5, LenProperties
<1> QED BY <1>2, <1>5, <1>6 DEF s

LEMMA StartsAppend ==
  ASSUME NEW m, NEW T, NEW ps \in Seq(T), NEW p \in T
  PROVE  StartsIn(m, Append(ps, p)) = Append(StartsIn(m, ps), RowsIn(m, p[1]))
<1> DEFINE qs == Append(ps, p)
           s == StartsIn(m, ps)
           t == StartsIn(m, qs)
           e == RowsIn(m, p[1])
           a == Append(s, e)
<1>1. /\ qs \in Seq(T) /\ Len(qs) = Len(ps) + 1 /\ qs[Len(ps) + 1] = p
      /\ \A n \in 1..Len(ps) : qs[n] = ps[n]
  BY AppendProperties
<1> HIDE DEF qs
<1>2. s \in Seq(SUBSET Every) /\ Len(s) = Len(ps) /\ \A n \in 1..Len(ps) : s[n] = RowsIn(m, ps[n][1])
  BY StartsType
<1>3. t \in Seq(SUBSET Every) /\ Len(t) = Len(qs) /\ \A n \in 1..Len(qs) : t[n] = RowsIn(m, qs[n][1])
  BY <1>1, StartsType
<1>4. e \in SUBSET Every
  BY PairsType
<1> HIDE DEF s, t, e
<1>5. /\ a \in Seq(SUBSET Every) /\ Len(a) = Len(s) + 1 /\ a[Len(s) + 1] = e
      /\ \A n \in 1..Len(s) : a[n] = s[n]
  BY <1>2, <1>4, AppendProperties
<1> HIDE DEF a
<1>6. Len(ps) \in Nat
  OBVIOUS
<1>7. ASSUME NEW n \in 1..Len(t) PROVE t[n] = a[n]
  <2>1. CASE n = Len(ps) + 1
    <3>1. t[n] = e
      BY <1>1, <1>3, <2>1 DEF e
    <3>2. a[n] = e
      BY <1>2, <1>5, <2>1
    <3> QED BY <3>1, <3>2
  <2>2. CASE n # Len(ps) + 1
    <3>1. n \in 1..Len(ps)
      BY <1>1, <1>3, <1>6, <2>2
    <3>2. t[n] = RowsIn(m, ps[n][1])
      BY <1>1, <1>3, <3>1
    <3>3. a[n] = RowsIn(m, ps[n][1])
      BY <1>2, <1>5, <3>1
    <3> QED BY <3>2, <3>3
  <2> QED BY <2>1, <2>2
<1>8. Len(t) = Len(a)
  BY <1>1, <1>2, <1>3, <1>5
<1>9. t = a
  BY <1>3, <1>5, <1>7, <1>8, SeqEqual
<1> QED BY <1>9 DEF a, t, qs, s, e

LEMMA StartsTail ==
  ASSUME NEW m, NEW T, NEW ps \in Seq(T), Len(ps) > 0
  PROVE  StartsIn(m, Tail(ps)) = Tail(StartsIn(m, ps))
<1> DEFINE qs == Tail(ps)
           s == StartsIn(m, ps)
           t == StartsIn(m, qs)
<1>1. qs \in Seq(T) /\ Len(qs) = Len(ps) - 1 /\ \A n \in 1..Len(qs) : qs[n] = ps[n + 1]
  <2>1. ps # <<>>
    BY EmptySeq
  <2> QED BY <2>1, HeadTailProperties
<1> HIDE DEF qs
<1>2. s \in Seq(SUBSET Every) /\ Len(s) = Len(ps) /\ \A n \in 1..Len(ps) : s[n] = RowsIn(m, ps[n][1])
  BY StartsType
<1>3. t \in Seq(SUBSET Every) /\ Len(t) = Len(qs) /\ \A n \in 1..Len(qs) : t[n] = RowsIn(m, qs[n][1])
  BY <1>1, StartsType
<1> HIDE DEF s, t
<1>4. Tail(s) \in Seq(SUBSET Every) /\ Len(Tail(s)) = Len(s) - 1 /\ \A n \in 1..Len(Tail(s)) : Tail(s)[n] = s[n + 1]
  <2>1. s # <<>>
    BY <1>2, EmptySeq
  <2> QED BY <1>2, <2>1, HeadTailProperties
<1>5. Len(ps) \in Nat
  OBVIOUS
<1>6. ASSUME NEW n \in 1..Len(t) PROVE t[n] = Tail(s)[n]
  <2>1. n \in 1..Len(qs) /\ n + 1 \in 1..Len(ps) /\ n \in 1..Len(Tail(s))
    BY <1>1, <1>2, <1>3, <1>4, <1>5
  <2> QED BY <1>1, <1>2, <1>3, <1>4, <2>1
<1>7. Len(t) = Len(Tail(s))
  BY <1>1, <1>2, <1>3, <1>4
<1>8. t = Tail(s)
  BY <1>3, <1>4, <1>6, <1>7, SeqEqual
<1> QED BY <1>8 DEF t, qs, s

LEMMA StartsFront ==
  ASSUME NEW m, NEW T, NEW ps \in Seq(T), Len(ps) > 0
  PROVE  Append(StartsIn(m, Front(ps)), RowsIn(m, Last(ps)[1])) = StartsIn(m, ps)
<1> DEFINE qs == Front(ps)
           p == Last(ps)
<1>1. /\ qs \in Seq(T) /\ Len(qs) = Len(ps) - 1 /\ p \in T /\ p = ps[Len(ps)]
      /\ \A n \in 1..Len(ps) - 1 : qs[n] = ps[n]
  BY FrontProperties
<1> HIDE DEF qs, p
<1>2. StartsIn(m, Append(qs, p)) = Append(StartsIn(m, qs), RowsIn(m, p[1]))
  BY <1>1, StartsAppend
<1>3. Append(qs, p) = ps
  <2> DEFINE a == Append(qs, p)
  <2>1. /\ a \in Seq(T) /\ Len(a) = Len(qs) + 1 /\ a[Len(qs) + 1] = p
        /\ \A n \in 1..Len(qs) : a[n] = qs[n]
    BY <1>1, AppendProperties
  <2> HIDE DEF a
  <2>2. Len(a) = Len(ps) /\ Len(ps) \in Nat
    BY <1>1, <2>1
  <2>3. ASSUME NEW n \in 1..Len(a) PROVE a[n] = ps[n]
    <3>1. CASE n = Len(ps)
      BY <1>1, <2>1, <2>2, <3>1
    <3>2. CASE n # Len(ps)
      <4>1. n \in 1..Len(qs) /\ n \in 1..Len(ps) - 1
        BY <1>1, <2>2, <3>2
      <4> QED BY <1>1, <2>1, <4>1
    <3> QED BY <3>1, <3>2
  <2>4. a = ps
    BY <2>1, <2>2, <2>3, SeqEqual
  <2> QED BY <2>4 DEF a
<1> QED BY <1>2, <1>3 DEF qs, p

(* A table that a key names is named by no other. *)
LEMMA OneKey ==
  ASSUME ShapeOK, LabelsOK, NEW k \in Keys, NEW l \in Keys, named[k] # 0, named[k] = named[l]
  PROVE  k = l
<1>1. /\ k[1] \in 1..Len(Cards) /\ l[1] \in 1..Len(Cards)
      /\ k[1] \in Families => k \in Families \X Labels
      /\ l[1] \in Families => l \in Families \X Labels
      /\ k[1] \notin Families => k = <<k[1], 0>>
      /\ l[1] \notin Families => l = <<l[1], 0>>
  BY KeyFacts
<1>2. named[k] = (IF k[1] \in Families THEN labelled[k] ELSE k[1])
      /\ named[l] = (IF l[1] \in Families THEN labelled[l] ELSE l[1])
  BY DEF named
<1>3. Len(Cards) \in Nat /\ count \in Nat
  BY Constants DEF ShapeOK
<1>4. k[1] \in Families => named[k] \in Len(Cards) + 1..count
  BY <1>1, <1>2 DEF LabelsOK
<1>5. l[1] \in Families => named[l] \in Len(Cards) + 1..count
  BY <1>1, <1>2 DEF LabelsOK
<1>6. CASE k[1] \in Families /\ l[1] \in Families
  BY <1>1, <1>2, <1>6 DEF LabelsOK
<1>7. CASE k[1] \in Families /\ l[1] \notin Families
  <2>1. named[k] \in Len(Cards) + 1..count /\ named[k] = l[1] /\ l[1] \in 1..Len(Cards)
    BY <1>1, <1>2, <1>4, <1>7
  <2> QED BY <1>3, <2>1
<1>8. CASE k[1] \notin Families /\ l[1] \in Families
  BY <1>1, <1>2, <1>3, <1>5, <1>8
<1>9. CASE k[1] \notin Families /\ l[1] \notin Families
  BY <1>1, <1>2, <1>9
<1> QED BY <1>6, <1>7, <1>8, <1>9

LEMMA NamedTables ==
  ASSUME ShapeOK, NEW l \in Keys, named[l] # 0
  PROVE  named[l] \in Tables
<1>1. l[1] \in 1..Len(Cards) /\ (l[1] \in Families => l \in Families \X Labels)
  BY KeyFacts
<1>2. Len(Cards) \in Nat /\ MaxTables \in Nat /\ Len(Cards) <= MaxTables
  BY Constants
<1>3. named[l] = IF l[1] \in Families THEN labelled[l] ELSE l[1]
  BY DEF named
<1> QED BY <1>1, <1>2, <1>3 DEF ShapeOK, Tables

LEMMA NamesIs == \A k \in Keys, i \in Tables : Names(k, i) <=> named[k] = i
<1> SUFFICES ASSUME NEW k \in Keys, NEW i \in Tables PROVE Names(k, i) <=> named[k] = i
  OBVIOUS
<1>1. i # 0 /\ k[1] \in 1..Len(Cards)
  BY KeyFacts DEF Tables
<1> QED BY <1>1 DEF Names, named, TableOf

(* What one row does to the pairs there are. *)
LEMMA InsertPairs ==
  ASSUME ShapeOK, LabelsOK, NEW i \in Tables, \E k \in Keys : named[k] = i,
         NEW x \in Entities, NEW y \in Entities, NEW r, NEW q,
         OneMore(q, r, i, x, y)
  PROVE  \E k \in Keys : named[k] = i /\ RowsIn(named, q) = RowsIn(named, r) \cup {<<k, x, y>>}
<1>1. PICK k \in Keys : named[k] = i
  OBVIOUS
<1>2. \A l \in Keys : named[l] = i => l = k
  <2>1. i # 0
    BY DEF Tables
  <2> QED BY <1>1, <2>1, OneKey
<1>3. \A l \in Keys : named[l] # 0 => named[l] \in Tables
  BY NamedTables
<1>4. i # 0
  BY DEF Tables
<1>5. ASSUME NEW t \in Every
      PROVE  (named[t[1]] # 0 /\ Related(q, named[t[1]], t[2], t[3]))
             <=> (named[t[1]] # 0 /\ Related(r, named[t[1]], t[2], t[3])) \/ t = <<k, x, y>>
  <2>1. t[1] \in Keys /\ t[2] \in Entities /\ t[3] \in Entities /\ t = <<t[1], t[2], t[3]>>
    BY DEF Every
  <2>2. t = <<k, x, y>> <=> t[1] = k /\ t[2] = x /\ t[3] = y
    BY <2>1
  <2>3. named[t[1]] = i <=> t[1] = k
    BY <1>1, <1>2, <2>1
  <2>4. CASE named[t[1]] = 0
    BY <1>4, <2>2, <2>3, <2>4
  <2>5. CASE named[t[1]] # 0
    <3>1. named[t[1]] \in Tables
      BY <1>3, <2>1, <2>5
    <3>2. Related(q, named[t[1]], t[2], t[3]) <=>
            Related(r, named[t[1]], t[2], t[3]) \/ (named[t[1]] = i /\ t[2] = x /\ t[3] = y)
      BY <2>1, <3>1 DEF OneMore
    <3> QED BY <2>2, <2>3, <2>5, <3>2
  <2> QED BY <2>4, <2>5
<1>6. <<k, x, y>> \in Every
  BY DEF Every
<1>7. RowsIn(named, q) = RowsIn(named, r) \cup {<<k, x, y>>}
  BY <1>5, <1>6 DEF RowsIn, Every
<1> QED BY <1>1, <1>7

LEMMA RetractPairs ==
  ASSUME ShapeOK, LabelsOK, NEW i \in Tables,
         NEW x \in Entities, NEW y \in Entities, NEW r, NEW q,
         OneLess(q, r, i, x, y)
  PROVE  \/ RowsIn(named, q) = RowsIn(named, r)
         \/ \E k \in Keys : RowsIn(named, q) = RowsIn(named, r) \ {<<k, x, y>>}
<1>1. \A l \in Keys : named[l] # 0 => named[l] \in Tables
  BY NamedTables
<1>2. i # 0
  BY DEF Tables
<1>3. ASSUME NEW t \in Every
      PROVE  /\ t[1] \in Keys /\ t[2] \in Entities /\ t[3] \in Entities /\ t = <<t[1], t[2], t[3]>>
             /\ named[t[1]] # 0 =>
                  (Related(q, named[t[1]], t[2], t[3]) <=>
                   Related(r, named[t[1]], t[2], t[3]) /\ ~(named[t[1]] = i /\ t[2] = x /\ t[3] = y))
  <2>1. t[1] \in Keys /\ t[2] \in Entities /\ t[3] \in Entities /\ t = <<t[1], t[2], t[3]>>
    BY DEF Every
  <2> QED BY <1>1, <2>1 DEF OneLess
<1>4. CASE \E k \in Keys : named[k] = i
  <2>1. PICK k \in Keys : named[k] = i
    BY <1>4
  <2>2. \A l \in Keys : named[l] = i => l = k
    BY <1>2, <2>1, OneKey
  <2>3. ASSUME NEW t \in Every
        PROVE  (named[t[1]] # 0 /\ Related(q, named[t[1]], t[2], t[3]))
               <=> (named[t[1]] # 0 /\ Related(r, named[t[1]], t[2], t[3])) /\ t # <<k, x, y>>
    <3>1. t = <<k, x, y>> <=> t[1] = k /\ t[2] = x /\ t[3] = y
      BY <1>3
    <3>2. named[t[1]] = i <=> t[1] = k
      BY <1>3, <2>1, <2>2
    <3> QED BY <1>3, <3>1, <3>2
  <2>4. RowsIn(named, q) = RowsIn(named, r) \ {<<k, x, y>>}
    BY <2>3 DEF RowsIn, Every
  <2> QED BY <2>4
<1>5. CASE ~(\E k \in Keys : named[k] = i)
  <2>1. ASSUME NEW t \in Every
        PROVE  (named[t[1]] # 0 /\ Related(q, named[t[1]], t[2], t[3]))
               <=> (named[t[1]] # 0 /\ Related(r, named[t[1]], t[2], t[3]))
    BY <1>3, <1>5
  <2>2. RowsIn(named, q) = RowsIn(named, r)
    BY <2>1 DEF RowsIn, Every
  <2> QED BY <2>2
<1> QED BY <1>4, <1>5

(* A row that is added is the last its operation deals with. *)
LEMMA AddedIsLast ==
  ASSUME Sound, JournalRoom, doing = "edit", work # <<>>, Head(work).added
  PROVE  /\ Len(work) = 1 /\ Head(work) = Last(work)
         /\ \A i, a, b : ~Goes(work, i, a, b)
<1> DEFINE w == Head(work)
<1>1. w = work[1] /\ Len(work) \in Nat /\ Len(work) > 0
  BY TailOfWork
<1>2. \A n \in 1..Len(work) - 1 : ~work[n].added
  BY DEF JournalRoom
<1>3. w.added
  OBVIOUS
<1> HIDE DEF w
<1>4. Len(work) = 1
  BY <1>1, <1>2, <1>3
<1>5. w = Last(work)
  BY <1>1, <1>4 DEF Last
<1>6. \A i, a, b : ~Goes(work, i, a, b)
  BY <1>1, <1>3, <1>4 DEF Goes
<1> QED BY <1>4, <1>5, <1>6 DEF w

(* While rows change, changes are recorded or the game is starting up.     *)
LEMMA EditMode ==
  ASSUME Quiet, doing = "edit"
  PROVE  storeMode \in {"startup", "recording"} /\ current = rows
<1>1. turn # "startup" => journalling
  BY DEF Quiet, QuietTrail
<1>2. turn \in {"startup", "between"} => ~journalling
  BY DEF Quiet, Sound, TrailOK
<1>3. turn \in {"startup", "between", "open", "failed"}
  BY DEF Quiet, Sound, ControlOK
<1> QED BY <1>1, <1>2, <1>3 DEF storeMode, current

(* A row that comes is a Relate, one that goes an Unrelate, and one in a    *)
(* table that no key names is nothing to the abstract store.               *)
LEMMA EditStore ==
  ASSUME Quiet, Edit
  PROVE  [Store!Next]_(Store!vars)
<1> DEFINE w == Head(work)
           i == w.relation
           has == Related(rows, i, w.left, w.right)
<1>1. /\ w \in Delta /\ has \in BOOLEAN /\ doing = "edit" /\ work # <<>>
      /\ UNCHANGED <<shape, cycle>>
      /\ \/ has = w.added /\ work' = Tail(work) /\ UNCHANGED <<rows, journal, path>>
         \/ /\ ~w.added /\ journalling /\ Len(journal) >= JournalLimit /\ has
            /\ work' = <<>> /\ UNCHANGED <<rows, journal, path>>
         \/ /\ w.added /\ ~has /\ work' = Tail(work)
            /\ rows' = Insert(rows, i, w.left, w.right)
            /\ Record(w, rows')
         \/ /\ ~w.added /\ has /\ work' = Tail(work)
            /\ rows' = Retract(rows, i, w.left, w.right)
            /\ Record(Removed(i, w.left, w.right), rows')
  BY EditDoes DEF Quiet
<1>2. i \in Tables /\ w.left \in Entities /\ w.right \in Entities /\ w.added \in BOOLEAN
  BY <1>1 DEF Delta
<1>3. /\ rows \in Fit(cardinality) /\ rows \in GoodRows
      /\ WayClear /\ LabelsOK /\ ShapeOK
  BY DEF Quiet, Sound, Orderly, Fit
<1>4. storeMode \in {"startup", "recording"} /\ current = rows
  BY <1>1, EditMode
<1>5. named' = named /\ storeMode' = storeMode /\ paths' = paths
  BY <1>1, SameNames DEF cycle, storeMode
<1>6. current' = rows'
  <2>1. doing' # "revert"
    BY <1>1 DEF Edit
  <2> QED BY <2>1 DEF current
<1> HIDE DEF i, has, w
<1>7. path'[1] = path[1]
  <2>1. CASE path' = path
    BY <2>1
  <2>2. CASE path' = Append(path, rows')
    <3>1. path \in Seq(GoodRows) /\ Len(path) > 0
      BY <1>1 DEF Quiet, Sound, TrailOK
    <3> HIDE DEF rows
    <3>2. \A r : Append(path, r)[1] = path[1]
      BY <3>1
    <3> QED BY <2>2, <3>2
  <2> QED BY <1>1, <2>1, <2>2 DEF Record
<1>8. /\ storeSaved' = storeSaved
      /\ storeRows = RowsIn(named, rows) /\ storeRows' = RowsIn(named, rows')
  BY <1>4, <1>5, <1>6, <1>7, StoreIs, StoreWillBe
<1>9. CASE UNCHANGED rows
  <2>1. UNCHANGED Store!vars
    BY <1>5, <1>8, <1>9 DEF Store!vars
  <2> QED BY <2>1
<1>10. CASE w.added /\ ~has /\ rows' = Insert(rows, i, w.left, w.right)
  <2>1. w = Last(work) /\ \A a, b : ~Goes(work, i, a, b)
    BY <1>1, <1>10, AddedIsLast DEF Quiet, w
  <2>3. /\ \E k \in Keys : Names(k, i)
        /\ \A z \in Entities : ~RightIsMany(cardinality[i]) /\ Related(rows, i, z, w.right) =>
             Goes(work, i, z, w.right)
        /\ \A z \in Entities : ~LeftIsMany(cardinality[i]) /\ Related(rows, i, w.left, z) =>
             Goes(work, i, w.left, z)
    BY <1>1, <1>3, <1>10, <2>1 DEF WayClear, i
  <2>4. OneMore(rows', rows, i, w.left, w.right)
    <3>1. ~Related(rows, i, w.left, w.right)
      BY <1>10 DEF has
    <3> HIDE DEF rows
    <3> QED BY <1>2, <1>3, <1>10, <3>1, InsertRelates
  <2>5. PICK k \in Keys : /\ named[k] = i
                        /\ RowsIn(named, rows') = RowsIn(named, rows) \cup {<<k, w.left, w.right>>}
    <3> HIDE DEF rows
    <3>1. \E k \in Keys : named[k] = i
      BY <1>2, <2>3, NamesIs
    <3> QED BY <1>2, <1>3, <2>4, <3>1, InsertPairs
  <2>6. cardinality[i] = CardOf(k)
    <3>1. k[1] \in Declared /\ (k[1] \in Families => k \in Families \X Labels) /\ i # 0
      BY <1>2, KeyFacts DEF Tables
    <3> QED BY <1>3, <2>5, <3>1 DEF LabelsOK, named, CardOf
  <2>7. Store!Fits(k, w.left, w.right)
    <3>1. CardOf(k) = "one_to_one" => \A z \in Entities : ~Related(rows, i, w.left, z)
      BY <2>1, <2>3, <2>6 DEF LeftIsMany
    <3>2. CardOf(k) # "many_to_many" => \A z \in Entities : ~Related(rows, i, z, w.right)
      BY <2>1, <2>3, <2>6 DEF RightIsMany
    <3>3. \A a, b \in Entities : <<k, a, b>> \in storeRows => Related(rows, i, a, b)
      BY <1>8, <2>5 DEF RowsIn
    <3> QED BY <1>2, <3>1, <3>2, <3>3 DEF Store!Fits
  <2>8. Store!Relate(k, w.left, w.right)
    BY <1>4, <1>5, <1>8, <2>5, <2>7 DEF Store!Relate
  <2> QED BY <1>2, <2>8 DEF Store!Next
<1>11. CASE ~w.added /\ has /\ rows' = Retract(rows, i, w.left, w.right)
  <2>1. OneLess(rows', rows, i, w.left, w.right)
    <3>1. Related(rows, i, w.left, w.right)
      BY <1>11 DEF has
    <3> HIDE DEF rows
    <3> QED BY <1>2, <1>3, <1>11, <3>1, RetractRelates
  <2>2. \/ RowsIn(named, rows') = RowsIn(named, rows)
        \/ \E k \in Keys : RowsIn(named, rows') = RowsIn(named, rows) \ {<<k, w.left, w.right>>}
    <3> HIDE DEF rows
    <3> QED BY <1>2, <1>3, <2>1, RetractPairs
  <2>3. CASE storeRows' = storeRows
    <3>1. UNCHANGED Store!vars
      BY <1>5, <1>8, <2>3 DEF Store!vars
    <3> QED BY <3>1
  <2>4. CASE \E k \in Keys : storeRows' = storeRows \ {<<k, w.left, w.right>>}
    <3>1. PICK k \in Keys : storeRows' = storeRows \ {<<k, w.left, w.right>>}
      BY <2>4
    <3>2. Store!Unrelate(k, w.left, w.right)
      BY <1>4, <1>5, <1>8, <3>1 DEF Store!Unrelate
    <3> QED BY <1>2, <3>2 DEF Store!Next
  <2> QED BY <1>8, <2>2, <2>3, <2>4
<1> QED BY <1>1, <1>9, <1>10, <1>11

(* The abstract store's ends of a list are the same. *)
LEMMA StoreEnds == \A s : Store!Front(s) = Front(s) /\ Store!Last(s) = Last(s)
BY DEF Store!Front, Front, Store!Last, Last

(* The initial rows, and one step for each operation of the cycle. *)
LEMMA InitStore == Init => Store!Init
<1> SUFFICES ASSUME Init PROVE Store!Init
  OBVIOUS
<1>1. /\ doing = "idle" /\ turn = "startup" /\ path = <<rows>> /\ paths = <<>>
      /\ forward = [i \in Tables |-> [e \in Entities |-> <<>>]]
      /\ labelled = [k \in Families \X Labels |-> 0]
  BY DEF Init
<1>2. RowsIn(named, rows) = {}
  <2>1. ASSUME NEW t \in Every
        PROVE  ~(named[t[1]] # 0 /\ Related(rows, named[t[1]], t[2], t[3]))
    <3>1. t[1] \in Keys /\ t[2] \in Entities /\ t[3] \in Entities
      BY DEF Every
    <3>2. CASE t[1][1] \in Families
      BY <1>1, <3>1, <3>2, KeyFacts DEF named
    <3>3. CASE t[1][1] \notin Families
      <4>1. named[t[1]] \in Tables
        BY <3>1, <3>3, KeyFacts, Constants DEF named, Tables
      <4>2. forward[named[t[1]]][t[2]] = <<>>
        BY <1>1, <3>1, <4>1
      <4> QED BY <4>2 DEF Related, Contains, rows
    <3> QED BY <3>2, <3>3
  <2> QED BY <2>1 DEF RowsIn, Every
<1>3. current = rows /\ path[1] = rows
  BY <1>1 DEF current
<1>4. StartsIn(named, paths) = <<>>
  <2>1. <<>> \in Seq({}) /\ Len(<<>>) = 0
    OBVIOUS
  <2>2. StartsIn(named, <<>>) \in Seq(SUBSET Every) /\ Len(StartsIn(named, <<>>)) = 0
    BY <2>1, StartsType
  <2>3. StartsIn(named, <<>>) = <<>>
    BY <2>2, EmptySeq
  <2> QED BY <1>1, <2>3
<1> HIDE DEF rows
<1>5. storeRows = {} /\ storeSaved = Append(<<>>, {})
  BY <1>2, <1>3, <1>4, StoreIs
<1>6. Append(<<>>, {}) = <<{}>>
  OBVIOUS
<1>7. storeMode = "startup"
  BY <1>1 DEF storeMode
<1> QED BY <1>5, <1>6, <1>7 DEF Store!Init

(* What the store's saved starts are. *)
LEMMA SavedStarts ==
  ASSUME Quiet
  PROVE  /\ StartsIn(named, paths) \in Seq(SUBSET Every)
         /\ Len(StartsIn(named, paths)) = Len(paths) /\ Len(paths) \in Nat
         /\ RowsIn(named, path[1]) \in SUBSET Every
         /\ Front(storeSaved) = StartsIn(named, paths)
         /\ Last(storeSaved) = RowsIn(named, path[1])
         /\ Len(storeSaved) = Len(paths) + 1
<1> DEFINE s == StartsIn(named, paths)
           e == RowsIn(named, path[1])
<1>1. paths \in Seq(Seq(GoodRows))
  BY DEF Quiet, Sound, HistoryOK
<1>2. s \in Seq(SUBSET Every) /\ Len(s) = Len(paths) /\ Len(paths) \in Nat
  BY <1>1, StartsType
<1>3. e \in SUBSET Every
  BY PairsType
<1>4. storeSaved = Append(s, e)
  BY StoreIs
<1> HIDE DEF s, e
<1>5. Front(Append(s, e)) = s /\ Last(Append(s, e)) = e /\ Len(Append(s, e)) = Len(s) + 1
  BY <1>2, <1>3, AppendEnds
<1> QED BY <1>2, <1>3, <1>4, <1>5 DEF s, e

LEMMA BeginStore ==
  ASSUME Quiet, Begin
  PROVE  Store!Begin
<1>1. /\ doing = "idle" /\ doing' = "idle" /\ turn \in {"startup", "between"} /\ turn' = "open"
      /\ journalling' = TRUE /\ path' = <<rows>> /\ UNCHANGED <<shape, rows, paths>>
  BY DEF Begin
<1>2. named' = named
  BY <1>1, SameNames
<1>3. current = rows /\ current' = rows
  BY <1>1 DEF current
<1>4. path'[1] = rows
  BY <1>1
<1> HIDE DEF rows
<1>5. storeMode \in {"startup", "between"} /\ storeMode' = "recording"
  BY <1>1 DEF storeMode
<1>6. storeRows' = storeRows /\ storeRows = RowsIn(named, rows)
  BY <1>2, <1>3, StoreIs, StoreWillBe
<1>7. storeSaved' = Append(Front(storeSaved), storeRows)
  BY <1>1, <1>2, <1>4, <1>6, SavedStarts, StoreWillBe
<1> QED BY <1>5, <1>6, <1>7, StoreEnds DEF Store!Begin

LEMMA FinishStore ==
  ASSUME Quiet, doing = "idle", turn \in {"open", "failed"}, UNCHANGED <<shape, rows, doing>>,
         NEW elsewhere \in BOOLEAN, TakeJournal(elsewhere),
         turn' = "between" \/ (turn' = turn /\ journalling' = TRUE)
  PROVE  Store!Finish
<1> DEFINE s == StartsIn(named, paths)
           e == RowsIn(named, path[1])
<1>1. /\ path' = <<rows>> /\ doing' = "idle" /\ rows' = rows
      /\ \/ /\ paths' = Append(Kept(paths), path)
            /\ journal # <<>> \/ journalling
         \/ journal = <<>> /\ UNCHANGED paths
  BY DEF TakeJournal
<1>2. named' = named
  BY SameNames
<1>3. current = rows /\ current' = rows /\ path'[1] = rows
  BY <1>1 DEF current
<1> HIDE DEF rows
<1>4. storeMode \in {"recording", "undone"} /\ storeMode' \in {"between", "recording"}
      /\ (journalling => storeMode = "recording")
  BY DEF storeMode
<1>5. storeRows' = storeRows /\ storeRows = RowsIn(named, rows)
  BY <1>2, <1>3, StoreIs, StoreWillBe
<1>6. storeSaved = Append(s, e) /\ storeSaved' = Append(StartsIn(named, paths'), storeRows)
  BY <1>2, <1>3, <1>5, StoreIs, StoreWillBe
<1>7. /\ ~journalling => journal = <<>>
      /\ path \in Seq(GoodRows) /\ Len(path) = Len(journal) + 1
      /\ Last(path) = rows
      /\ paths \in Seq(Seq(GoodRows))
  BY DEF Quiet, Sound, TrailOK, HistoryOK, QuietTrail
<1>8. /\ s \in Seq(SUBSET Every) /\ Len(s) = Len(paths) /\ Len(paths) \in Nat
      /\ e \in SUBSET Every /\ Last(storeSaved) = e /\ Len(storeSaved) = Len(paths) + 1
  BY SavedStarts
<1>9. CASE journal = <<>> /\ UNCHANGED paths
  <2>1. Len(path) = 1
    BY <1>7, <1>9
  <2>2. path[1] = rows
    BY <1>7, <2>1 DEF Last
  <2>3. storeRows = Last(storeSaved) /\ storeSaved' = storeSaved
    BY <1>5, <1>6, <1>8, <1>9, <2>2
  <2> QED BY <1>4, <1>5, <2>3, StoreEnds DEF Store!Finish
<1>10. CASE paths' = Append(Kept(paths), path) /\ (journal # <<>> \/ journalling)
  <2>1. storeMode = "recording"
    BY <1>4, <1>7, <1>10
  <2>2. Kept(paths) \in Seq(Seq(GoodRows))
    BY <1>7, KeptProperties
  <2>3. StartsIn(named, paths') = Append(StartsIn(named, Kept(paths)), e)
    BY <1>7, <1>10, <2>2, StartsAppend
  <2>4. Append(StartsIn(named, Kept(paths)), e)
          = IF Len(storeSaved) > UndoDepth THEN Tail(storeSaved) ELSE storeSaved
    <3>1. UndoDepth \in Nat /\ UndoDepth > 0
      BY Constants
    <3>2. CASE Len(paths) >= UndoDepth
      <4>1. Len(paths) > 0 /\ Len(storeSaved) > UndoDepth
        BY <1>8, <3>1, <3>2
      <4>2. StartsIn(named, Tail(paths)) = Tail(s)
        BY <1>7, <4>1, StartsTail
      <4>3. Kept(paths) = Tail(paths)
        BY <3>2 DEF Kept
      <4> HIDE DEF s, e
      <4>4. Tail(Append(s, e)) = Append(Tail(s), e)
        BY <1>8, <4>1, AppendTail
      <4> QED BY <1>6, <4>1, <4>2, <4>3, <4>4
    <3>3. CASE ~(Len(paths) >= UndoDepth)
      <4>1. ~(Len(storeSaved) > UndoDepth)
        BY <1>8, <3>1, <3>3
      <4>2. Kept(paths) = paths
        BY <3>3 DEF Kept
      <4> QED BY <1>6, <4>1, <4>2
    <3> QED BY <3>2, <3>3
  <2>5. storeSaved' = Append(IF Len(storeSaved) > UndoDepth THEN Tail(storeSaved) ELSE storeSaved, storeRows)
    BY <1>6, <2>3, <2>4
  <2> QED BY <1>4, <1>5, <2>1, <2>5, StoreEnds DEF Store!Finish
<1> QED BY <1>1, <1>9, <1>10

(* A failed turn that recorded nothing has nothing to put back. *)
LEMMA RollbackStore ==
  ASSUME Quiet, Rollback
  PROVE  [Store!Next]_(Store!vars)
<1>1. /\ doing = "idle" /\ doing' = "revert" /\ turn = "open" /\ turn' = "failed"
      /\ UNCHANGED <<shape, rows, journalling, paths, path>>
  BY DEF Rollback
<1>2. named' = named
  BY <1>1, SameNames
<1>3. current = rows /\ current' = path[1]
  BY <1>1 DEF current
<1> HIDE DEF rows
<1>4. storeSaved' = storeSaved /\ Last(storeSaved) = RowsIn(named, path[1])
      /\ storeRows' = RowsIn(named, path[1]) /\ storeRows = RowsIn(named, rows)
  BY <1>1, <1>2, <1>3, SavedStarts, StoreIs, StoreWillBe
<1>5. storeMode' = storeMode /\ (journalling => storeMode = "recording")
  BY <1>1 DEF storeMode
<1>6. CASE journalling
  <2>1. Store!Rollback
    BY <1>4, <1>5, <1>6, StoreEnds DEF Store!Rollback
  <2> QED BY <2>1 DEF Store!Next
<1>7. CASE ~journalling
  <2>1. journal = <<>> /\ Len(path) = Len(journal) + 1 /\ Last(path) = rows
    BY <1>1, <1>7 DEF Quiet, Sound, TrailOK, QuietTrail
  <2>2. path[1] = rows
    BY <2>1 DEF Last
  <2>3. UNCHANGED Store!vars
    BY <1>4, <1>5, <2>2 DEF Store!vars
  <2> QED BY <2>3
<1> QED BY <1>6, <1>7 DEF Quiet, Sound, ControlOK

(* The joined trail starts where the cycle that is undone started. *)
LEMMA UndoStore ==
  ASSUME Quiet, Undo
  PROVE  Store!Undo
<1>1. /\ doing = "idle" /\ doing' = "revert" /\ turn \in {"open", "failed"} /\ turn' = turn
      /\ journalling' = FALSE /\ UNCHANGED shape
  BY DEF Undo
<1>2. named' = named /\ current' = path'[1]
  BY <1>1, SameNames DEF current
<1>3. storeMode \in {"recording", "undone"} /\ storeMode' = "undone"
  BY <1>1 DEF storeMode
<1>4. storeRows' = RowsIn(named, path'[1])
      /\ storeSaved' = Append(StartsIn(named, paths'), RowsIn(named, path'[1]))
  BY <1>2, StoreWillBe
<1>5. /\ StartsIn(named, paths) \in Seq(SUBSET Every)
      /\ Len(paths) \in Nat
      /\ Front(storeSaved) = StartsIn(named, paths)
      /\ Last(storeSaved) = RowsIn(named, path[1])
      /\ Len(storeSaved) = Len(paths) + 1
  BY SavedStarts
<1>6. /\ history \in Seq(Seq(Change)) /\ paths \in Seq(Seq(GoodRows)) /\ Len(paths) = Len(history)
      /\ \A n \in 1..Len(history) : Len(paths[n]) = Len(history[n]) + 1
      /\ path \in Seq(GoodRows) /\ Len(path) > 0
  BY <1>1 DEF Quiet, Sound, HistoryOK, TrailOK
<1>7. CASE history = <<>>
  <2>1. UNCHANGED <<path, paths>>
    BY <1>7 DEF Undo
  <2>2. ~(Len(storeSaved) > 1)
    BY <1>5, <1>6, <1>7
  <2>3. storeSaved' = storeSaved
    BY <1>4, <2>1, StoreIs
  <2>4. storeRows' = Last(storeSaved')
    BY <1>4, <1>5, <2>1, <2>3
  <2> QED BY <1>3, <2>2, <2>3, <2>4, StoreEnds DEF Store!Undo
<1>8. CASE history # <<>>
  <2> DEFINE p == Last(paths)
  <2>1. path' = Front(p) \o path /\ paths' = Front(paths)
    BY <1>8 DEF Undo
  <2>2. Len(paths) > 0 /\ Len(paths) = Len(history) /\ Len(history) \in 1..Len(history)
    BY <1>6, <1>8, EmptySeq
  <2>3. p \in Seq(GoodRows) /\ p = paths[Len(paths)]
    BY <1>6, <2>2, FrontProperties
  <2>4. Len(p) > 0
    <3>1. Len(paths[Len(history)]) = Len(history[Len(history)]) + 1 /\ Len(history[Len(history)]) \in Nat
      BY <1>6, <2>2
    <3> QED BY <2>2, <2>3, <3>1
  <2>5. Last(p) = path[1]
    <3>1. Linked(history, paths, path[1])
      BY <1>1 DEF Quiet, QuietTrail
    <3> QED BY <2>2, <2>3, <3>1 DEF Linked
  <2>6. Append(StartsIn(named, Front(paths)), RowsIn(named, p[1])) = StartsIn(named, paths)
    BY <1>6, <2>2, StartsFront
  <2> HIDE DEF p
  <2>7. path'[1] = p[1]
    <3>1. /\ Front(p) \in Seq(GoodRows) /\ Len(Front(p)) = Len(p) - 1
          /\ \A n \in 1..Len(p) - 1 : Front(p)[n] = p[n]
          /\ Last(p) = p[Len(p)]
      BY <2>3, <2>4, FrontProperties
    <3> DEFINE f == Front(p)
    <3> HIDE DEF f
    <3>2. f \in Seq(GoodRows) /\ path' = f \o path
      BY <2>1, <3>1 DEF f
    <3>3. Len(f) \in Nat /\ Len(p) \in Nat /\ Len(f) = Len(p) - 1
      BY <2>3, <3>1, <3>2 DEF f
    <3>4. CASE Len(f) = 0
      <4>1. (f \o path)[1] = path[1]
        BY <1>6, <3>2, <3>4
      <4>2. Len(p) = 1
        BY <3>3, <3>4
      <4>3. path[1] = p[1]
        BY <2>5, <3>1, <4>2
      <4> QED BY <3>2, <4>1, <4>3
    <3>5. CASE Len(f) > 0
      <4>1. (f \o path)[1] = f[1]
        BY <1>6, <3>2, <3>5
      <4>2. 1 \in 1..Len(p) - 1
        BY <2>3, <3>1, <3>5 DEF f
      <4>3. f[1] = p[1]
        BY <3>1, <4>2 DEF f
      <4> QED BY <3>2, <4>1, <4>3
    <3> QED BY <3>3, <3>4, <3>5
  <2>8. storeSaved' = Front(storeSaved) /\ Len(storeSaved) > 1
    BY <1>4, <1>5, <2>1, <2>2, <2>6, <2>7
  <2>9. Last(storeSaved') = RowsIn(named, path'[1])
    <3>1. Front(paths) \in Seq(Seq(GoodRows))
      BY <1>6, <2>2, FrontProperties
    <3>2. StartsIn(named, Front(paths)) \in Seq(SUBSET Every) /\ RowsIn(named, path'[1]) \in SUBSET Every
      BY <3>1, StartsType, PairsType
    <3> DEFINE s == StartsIn(named, Front(paths))
               e == RowsIn(named, path'[1])
    <3>3. storeSaved' = Append(s, e)
      BY <1>4, <2>1
    <3> HIDE DEF s, e
    <3>4. Last(Append(s, e)) = e
      BY <3>2, AppendEnds DEF s, e
    <3> QED BY <3>3, <3>4 DEF e
  <2>10. storeRows' = Last(storeSaved')
    BY <1>4, <2>9
  <2> QED BY <1>3, <2>8, <2>10, StoreEnds DEF Store!Undo
<1> QED BY <1>7, <1>8

(* The rows a revert is on its way to are those that began the cycle. *)
LEMMA RevertStore ==
  ASSUME Quiet, Revert
  PROVE  UNCHANGED Store!vars
<1>1. /\ doing = "revert" /\ doing' = "revert" /\ work # <<>>
      /\ path' = Front(path) /\ UNCHANGED <<shape, cycle>>
  BY DEF Revert
<1>2. named' = named /\ storeMode' = storeMode /\ paths' = paths
  BY <1>1, SameNames DEF cycle, storeMode
<1>3. path \in Seq(GoodRows) /\ Len(path) = Len(work) + 1 /\ Len(work) \in Nat /\ Len(work) > 0
  <2>1. path \in Seq(GoodRows) /\ Len(path) = Len(work) + 1 /\ work \in Seq(Change)
    BY <1>1 DEF Quiet, Sound, TrailOK
  <2> QED BY <1>1, <2>1, EmptySeq
<1>4. path'[1] = path[1]
  <2>1. Len(path) > 0 /\ 1 \in 1..Len(path) - 1
    BY <1>3
  <2>2. \A n \in 1..Len(path) - 1 : Front(path)[n] = path[n]
    BY <1>3, <2>1, FrontProperties
  <2> QED BY <1>1, <2>1, <2>2
<1>5. current = path[1] /\ current' = path'[1]
  BY <1>1 DEF current
<1> QED BY <1>2, <1>4, <1>5, SameStore

LEMMA IdleStore ==
  ASSUME UNCHANGED <<shape, rows, cycle, path>>, current' = current
  PROVE  UNCHANGED Store!vars
<1>1. named' = named /\ storeMode' = storeMode /\ paths' = paths
  BY SameNames DEF cycle, storeMode
<1> QED BY <1>1, SameStore

LEMMA StepStore ==
  ASSUME Quiet, [Next]_vars
  PROVE  [Store!Next]_(Store!vars)
<1>1. ASSUME NEW k \in Keys, NEW p \in Pairs, Set(k, p[1], p[2]) PROVE UNCHANGED Store!vars
  <2>1. Ensure(k) /\ doing = "idle" /\ doing' # "revert" /\ UNCHANGED <<rows, cycle, path>>
    BY <1>1 DEF Set, MayChange
  <2> QED BY <2>1, EnsureStutters
<1>2. ASSUME NEW k \in Keys, NEW p \in Pairs, Unset(k, p[1], p[2]) PROVE UNCHANGED Store!vars
  <2>1. Ensure(k) /\ doing = "idle" /\ doing' # "revert" /\ UNCHANGED <<rows, cycle, path>>
    BY <1>2 DEF Unset, MayChange
  <2> QED BY <2>1, EnsureStutters
<1>3. ASSUME NEW k \in Keys, NEW e \in Walked, Outermost(k, e) PROVE UNCHANGED Store!vars
  <2>1. Ensure(k) /\ doing = "idle" /\ doing' # "revert" /\ UNCHANGED <<rows, cycle, path>>
    BY <1>3 DEF Outermost
  <2> QED BY <2>1, EnsureStutters
<1>4. ASSUME NEW e \in Mortal, Despawn(e) PROVE UNCHANGED Store!vars
  <2>1. UNCHANGED <<shape, rows, cycle, path>> /\ current' = current
    BY <1>4 DEF Despawn, MayChange, current
  <2> QED BY <2>1, IdleStore
<1>5. CASE Edited
  <2>1. UNCHANGED <<shape, rows, cycle, path>> /\ current' = current
    BY <1>5 DEF Edited, current
  <2> QED BY <2>1, IdleStore
<1>6. CASE Reverted
  <2>1. /\ doing = "revert" /\ doing' = "idle" /\ work = <<>> /\ UNCHANGED <<shape, rows, cycle, path>>
    BY <1>6 DEF Reverted
  <2>2. Len(path) = 1 /\ Last(path) = rows
    BY <2>1 DEF Quiet, Sound, TrailOK, QuietTrail
  <2>3. path[1] = rows
    BY <2>2 DEF Last
  <2>4. current' = current
    BY <2>1, <2>3 DEF current
  <2> QED BY <2>1, <2>4, IdleStore
<1>7. CASE UNCHANGED vars
  <2>1. UNCHANGED <<shape, rows, cycle, path>> /\ current' = current
    BY <1>7 DEF vars, current
  <2> QED BY <2>1, IdleStore
<1>8. ASSUME NEW elsewhere \in BOOLEAN, End(elsewhere) PROVE Store!Finish
  <2>1. /\ doing = "idle" /\ turn \in {"open", "failed"} /\ UNCHANGED <<shape, rows, doing>>
        /\ TakeJournal(elsewhere) /\ turn' = "between"
    BY <1>8 DEF End
  <2> QED BY <2>1, FinishStore
<1>9. ASSUME NEW elsewhere \in BOOLEAN, Savepoint(elsewhere) PROVE Store!Finish
  <2>1. /\ doing = "idle" /\ turn \in {"open", "failed"} /\ UNCHANGED <<shape, rows, doing>>
        /\ TakeJournal(elsewhere) /\ turn' = turn /\ journalling' = TRUE
    BY <1>9 DEF Savepoint
  <2> QED BY <2>1, FinishStore
<1>10. CASE Begin
  BY <1>10, BeginStore DEF Store!Next
<1>11. CASE Undo
  BY <1>11, UndoStore DEF Store!Next
<1>12. CASE Revert
  BY <1>12, RevertStore
<1>13. CASE \E elsewhere \in BOOLEAN : End(elsewhere) \/ Savepoint(elsewhere)
  BY <1>8, <1>9, <1>13 DEF Store!Next
<1>14. CASE \E k \in Keys, p \in Pairs : Set(k, p[1], p[2]) \/ Unset(k, p[1], p[2])
  BY <1>1, <1>2, <1>14
<1>15. CASE \E k \in Keys, e \in Walked : Outermost(k, e)
  BY <1>3, <1>15
<1>16. CASE \E e \in Mortal : Despawn(e)
  BY <1>4, <1>16
<1> QED BY <1>5, <1>6, <1>7, <1>10, <1>11, <1>12, <1>13, <1>14, <1>15, <1>16,
           EditStore, RollbackStore DEF Next

(* Of a game that changes nothing after undo in the same turn: the store   *)
(* with its indexes, journals, caches, row-by-row loops and dynamic tables *)
(* behaves as a set of pairs that its cardinality allows, which rollback   *)
(* and undo return to what it was at the start of a cycle.                 *)
THEOREM StoreImplemented == ASSUME QuietUndo = TRUE PROVE Spec => ImplementsRowStore
<1>1. Init => Store!Init
  BY InitStore
<1>2. Quiet /\ [Next]_vars => [Store!Next]_(Store!vars)
  BY StepStore
<1> QED BY <1>1, <1>2, QuietAlways, PTL DEF Spec, ImplementsRowStore, Store!Spec

(***************************************************************************)
(* Walks.  A walk from e along next finds the entities reached from e other*)
(* than e: it is closed under next, and within all that is.                *)
(***************************************************************************)
Members(s) == {b \in Entities : Contains(s, b)}

Shut(next, e, C) == \A a \in C \cup {e} : next[a] \ {e} \subseteq C

Walk(next, e, S) ==
  /\ S \subseteq Entities \ {e}
  /\ Shut(next, e, S)
  /\ \A C \in SUBSET Entities : Shut(next, e, C) => S \subseteq C

(* What one walk finds from x, the opposite walk finds x from. *)
LEMMA WalkBack ==
  ASSUME NEW up \in [Entities -> SUBSET Entities], NEW down \in [Entities -> SUBSET Entities],
         \A a, b \in Entities : b \in up[a] => a \in down[b],
         NEW A \in [Entities -> SUBSET Entities], NEW D \in [Entities -> SUBSET Entities],
         \A e \in Entities : Walk(up, e, A[e]) /\ Walk(down, e, D[e]),
         NEW x \in Entities, NEW y \in A[x]
  PROVE  x \in D[y]
<1> DEFINE C == {c \in Entities \ {x} : x \in D[c]}
<1>1. ASSUME NEW a \in C \cup {x}, NEW q \in up[a], q # x PROVE q \in C
  <2>1. a \in Entities /\ q \in Entities /\ a \in down[q]
    OBVIOUS
  <2>2. Shut(down, q, D[q]) /\ D[q] \subseteq Entities
    BY <2>1 DEF Walk
  <2>3. a # q => a \in D[q]
    BY <2>1, <2>2 DEF Shut
  <2>4. CASE a = x
    BY <2>1, <2>3, <2>4, <1>1
  <2>5. CASE a \in C /\ a # q
    <3> DEFINE E == D[q] \cup {q}
    <3>1. E \in SUBSET Entities
      BY <2>1, <2>2
    <3>2. Shut(down, a, E)
      BY <2>2, <2>3, <2>5 DEF Shut
    <3>3. D[a] \subseteq E
      BY <2>1, <3>1, <3>2 DEF Walk
    <3>4. x \in D[a]
      BY <2>5
    <3> QED BY <2>1, <3>3, <3>4, <1>1
  <2> QED BY <2>4, <2>5
<1>2. Shut(up, x, C)
  BY <1>1 DEF Shut
<1>3. C \in SUBSET Entities
  OBVIOUS
<1>4. A[x] \subseteq C
  <2> HIDE DEF C
  <2> QED BY <1>2, <1>3 DEF Walk
<1> QED BY <1>4

(* A list of entities without repetitions and without e is shorter than    *)
(* there are entities.                                                     *)
LEMMA ShortList ==
  ASSUME NEW s \in Seq(Entities), IsInjective(s), NEW e \in Entities, ~Contains(s, e)
  PROVE  Len(s) < Cardinality(Entities)
<1> DEFINE T == Entities \ {e}
           I == 1..Len(s)
<1>1. /\ IsFiniteSet(T) /\ Cardinality(T) = Cardinality(Entities) - 1
      /\ Cardinality(Entities) \in Nat
  BY Constants, FS_RemoveElement, FS_CardinalityType
<1>2. Len(s) \in Nat
  OBVIOUS
<1>3. IsFiniteSet(I) /\ Cardinality(I) = Len(s)
  BY <1>2, FS_Interval
<1>4. s \in [I -> T]
  BY DEF Contains
<1>5. \A m, n \in I : s[m] = s[n] => m = n
  BY DEF IsInjective
<1> HIDE DEF T, I
<1>6. ~(Cardinality(T) < Cardinality(I))
  BY <1>1, <1>3, <1>4, <1>5, FS_PigeonHole
<1> QED BY <1>1, <1>2, <1>3, <1>6

(* What holds at first and is kept by N steps holds after them. *)
LEMMA StepsKeep ==
  ASSUME NEW N \in Nat, NEW B, 0 \in B, \A n \in Nat : n < N /\ n \in B => n + 1 \in B
  PROVE  \A n \in 0..N : n \in B
<1> DEFINE A == {m \in Nat : m <= N => m \in B}
<1>1. A \in SUBSET Nat /\ 0 \in A
  OBVIOUS
<1>2. ASSUME NEW m \in A PROVE m + 1 \in A
  <2>1. m \in Nat /\ (m + 1 <= N => m < N /\ m <= N)
    OBVIOUS
  <2> QED BY <2>1
<1>3. A = Nat
  <2> HIDE DEF A
  <2> QED BY <1>1, <1>2, SetInduction
<1>4. ASSUME NEW n \in 0..N PROVE n \in B
  BY <1>3
<1> QED BY <1>4

(* A step can be repeated any number of times. *)
Repeats(F, a, N, g) == \A n \in 0..N : g[n] = IF n = 0 THEN a ELSE F[g[n - 1]]

LEMMA Repeated ==
  ASSUME NEW S, NEW a \in S, NEW F \in [S -> S], NEW N \in Nat
  PROVE  \E g \in [0..N -> S] : Repeats(F, a, N, g)
<1> DEFINE Runs(g, m) == \A n \in 0..m : g[n] = IF n = 0 THEN a ELSE F[g[n - 1]]
           B == {m \in Nat : \E g \in [0..m -> S] : Runs(g, m)}
<1>1. 0 \in B
  <2> DEFINE g == [n \in 0..0 |-> a]
  <2>1. g \in [0..0 -> S] /\ Runs(g, 0)
    OBVIOUS
  <2> HIDE DEF g, Runs
  <2> QED BY <2>1
<1>2. ASSUME NEW m \in Nat, m \in B PROVE m + 1 \in B
  <2>1. PICK g \in [0..m -> S] : Runs(g, m)
    <3> HIDE DEF Runs
    <3> QED BY <1>2
  <2> DEFINE h == [n \in 0..m + 1 |-> IF n <= m THEN g[n] ELSE F[g[m]]]
  <2>2. h \in [0..m + 1 -> S]
    OBVIOUS
  <2>3. ASSUME NEW n \in 0..m + 1 PROVE h[n] = IF n = 0 THEN a ELSE F[h[n - 1]]
    <3>1. CASE n <= m
      <4>1. n \in 0..m /\ h[n] = g[n] /\ (n # 0 => h[n - 1] = g[n - 1])
        BY <3>1
      <4> HIDE DEF h
      <4> QED BY <2>1, <4>1
    <3>2. CASE n = m + 1
      <4>1. h[n] = F[g[m]] /\ h[n - 1] = g[m] /\ n # 0
        BY <3>2
      <4> HIDE DEF h
      <4> QED BY <4>1
    <3> QED BY <3>1, <3>2
  <2>4. Runs(h, m + 1)
    <3> HIDE DEF h
    <3> QED BY <2>3
  <2> HIDE DEF h, Runs
  <2> QED BY <2>2, <2>4
<1>3. N \in B
  <2> HIDE DEF B
  <2> QED BY <1>1, <1>2, StepsKeep
<1> QED BY <1>3 DEF Repeats

(* The entities to the left, or to the right, of each. *)
Beside(lists) == [a \in Entities |-> Members(lists[a])]

LEMMA BesideIs ==
  ASSUME NEW lists \in [Entities -> Seq(Entities)]
  PROVE  /\ Beside(lists) \in [Entities -> SUBSET Entities]
         /\ \A a, b \in Entities : b \in Beside(lists)[a] <=> Contains(lists[a], b)
BY DEF Beside, Members

(* A chain to the left of e is what the walk has to find at least, each     *)
(* entity of it the first partner of the one before.                       *)
Chain(lefts, e, l) ==
  /\ l \in Seq(Entities) /\ IsInjective(l) /\ ~Contains(l, e)
  /\ \A k \in 1..Len(l) :
       LET a == IF k = 1 THEN e ELSE l[k - 1] IN lefts[a] # <<>> /\ lefts[a][1] = l[k]
  /\ \A C \in SUBSET Entities : Shut(Beside(lefts), e, C) => Members(l) \subseteq C

LEMMA ChainEnd ==
  ASSUME NEW e \in Entities, NEW l \in Seq(Entities), NEW at, at = IF l = <<>> THEN e ELSE Last(l)
  PROVE  /\ at \in Entities /\ (l = <<>> => at = e)
         /\ l # <<>> => Len(l) \in 1..Len(l) /\ at = l[Len(l)] /\ at \in Members(l)
<1>1. l # <<>> => Len(l) \in 1..Len(l)
  BY EmptySeq
<1>2. l # <<>> => l[Len(l)] \in Entities
  BY <1>1, ElementOfSeq
<1>3. l # <<>> => Contains(l, l[Len(l)])
  BY <1>1 DEF Contains
<1> QED BY <1>1, <1>2, <1>3 DEF Members, Last

LEMMA FurtherChain ==
  ASSUME NEW lefts \in [Entities -> Seq(Entities)], NEW e \in Entities,
         NEW l, Chain(lefts, e, l)
  PROVE  /\ Chain(lefts, e, Further(lefts, e, l))
         /\ Further(lefts, e, l) # l => Len(Further(lefts, e, l)) = Len(l) + 1
<1> DEFINE at == IF l = <<>> THEN e ELSE Last(l)
           next == lefts[at]
           x == next[1]
           m == Append(l, x)
<1>1. /\ l \in Seq(Entities) /\ IsInjective(l) /\ ~Contains(l, e)
      /\ \A k \in 1..Len(l) :
           LET a == IF k = 1 THEN e ELSE l[k - 1] IN lefts[a] # <<>> /\ lefts[a][1] = l[k]
      /\ \A C \in SUBSET Entities : Shut(Beside(lefts), e, C) => Members(l) \subseteq C
  BY DEF Chain
<1>2. /\ at \in Entities /\ (l = <<>> => at = e)
      /\ l # <<>> => Len(l) \in 1..Len(l) /\ at = l[Len(l)] /\ at \in Members(l)
  BY <1>1, ChainEnd
<1>3. Further(lefts, e, l) = IF next = <<>> \/ x = e \/ Contains(l, x) THEN l ELSE m
  BY DEF Further
<1> HIDE DEF at
<1>4. next \in Seq(Entities)
  BY <1>2
<1>5. CASE next = <<>> \/ x = e \/ Contains(l, x)
  BY <1>3, <1>5
<1>6. CASE ~(next = <<>> \/ x = e \/ Contains(l, x))
  <2>1. x \in Entities /\ Contains(next, x)
    BY <1>4, <1>6 DEF Contains
  <2>2. x \in Beside(lefts)[at] /\ x # e /\ ~Contains(l, x) /\ next # <<>>
    BY <1>2, <1>6, <2>1, BesideIs
  <2>3. Further(lefts, e, l) = m
    BY <1>3, <1>6
  <2> HIDE DEF x
  <2>4. /\ m \in Seq(Entities) /\ IsInjective(m)
        /\ \A b : Contains(m, b) <=> Contains(l, b) \/ b = x
    BY <1>1, <2>1, <2>2, AppendProperty
  <2>5. /\ Len(m) = Len(l) + 1 /\ m[Len(l) + 1] = x
        /\ \A k \in 1..Len(l) : m[k] = l[k]
    BY <1>1, <2>1, AppendProperties
  <2>6. Len(l) \in Nat /\ (l = <<>> <=> Len(l) = 0)
    BY <1>1, EmptySeq
  <2> HIDE DEF m
  <2>7. ASSUME NEW k \in 1..Len(m)
        PROVE  LET a == IF k = 1 THEN e ELSE m[k - 1] IN lefts[a] # <<>> /\ lefts[a][1] = m[k]
    <3> DEFINE a == IF k = 1 THEN e ELSE m[k - 1]
    <3>1. CASE k <= Len(l)
      <4>1. k \in 1..Len(l) /\ m[k] = l[k] /\ (k # 1 => k - 1 \in 1..Len(l) /\ m[k - 1] = l[k - 1])
        BY <2>5, <2>6, <3>1
      <4>2. a = IF k = 1 THEN e ELSE l[k - 1]
        BY <4>1
      <4> HIDE DEF a
      <4>3. lefts[a] # <<>> /\ lefts[a][1] = m[k]
        BY <1>1, <4>1, <4>2
      <4> QED BY <4>3 DEF a
    <3>2. CASE k = Len(l) + 1
      <4>1. a = at
        BY <1>2, <2>5, <2>6, <3>2
      <4> HIDE DEF a
      <4>2. lefts[a] # <<>> /\ lefts[a][1] = m[k]
        BY <2>2, <2>5, <3>2, <4>1 DEF x
      <4> QED BY <4>2 DEF a
    <3> QED BY <2>5, <2>6, <3>1, <3>2
  <2>8. ASSUME NEW C \in SUBSET Entities, Shut(Beside(lefts), e, C) PROVE Members(m) \subseteq C
    <3>1. Members(l) \subseteq C
      BY <1>1, <2>8
    <3>2. at \in C \cup {e}
      BY <1>2, <3>1
    <3>3. x \in C
      BY <2>2, <2>8, <3>2 DEF Shut
    <3> QED BY <2>4, <3>1, <3>3 DEF Members
  <2>9. ~Contains(m, e)
    BY <1>1, <2>2, <2>4
  <2> QED BY <2>3, <2>4, <2>5, <2>7, <2>8, <2>9 DEF Chain
<1> QED BY <1>5, <1>6

(* A chain that goes no further, where nothing has two entities to its left,*)
(* is a walk.                                                              *)
LEMMA ChainWalk ==
  ASSUME NEW lefts \in [Entities -> Seq(Entities)], NEW e \in Entities,
         \A a \in Entities : Len(lefts[a]) <= 1,
         NEW l, Chain(lefts, e, l), Further(lefts, e, l) = l
  PROVE  Walk(Beside(lefts), e, Members(l))
<1> DEFINE at == IF l = <<>> THEN e ELSE Last(l)
           next == lefts[at]
<1>1. /\ l \in Seq(Entities) /\ IsInjective(l) /\ ~Contains(l, e)
      /\ \A k \in 1..Len(l) :
           LET a == IF k = 1 THEN e ELSE l[k - 1] IN lefts[a] # <<>> /\ lefts[a][1] = l[k]
      /\ \A C \in SUBSET Entities : Shut(Beside(lefts), e, C) => Members(l) \subseteq C
  BY DEF Chain
<1>2. /\ at \in Entities /\ (l = <<>> => at = e)
      /\ l # <<>> => Len(l) \in 1..Len(l) /\ at = l[Len(l)] /\ at \in Members(l)
  BY <1>1, ChainEnd
<1>3. l = IF next = <<>> \/ next[1] = e \/ Contains(l, next[1]) THEN l ELSE Append(l, next[1])
  BY DEF Further
<1> HIDE DEF at
<1>4. next \in Seq(Entities)
  BY <1>2
<1>5. next = <<>> \/ next[1] = e \/ Contains(l, next[1])
  <2>1. SUFFICES ASSUME next # <<>>, l = Append(l, next[1]) PROVE FALSE
    BY <1>3
  <2>2. next[1] \in Entities
    BY <1>4, <2>1
  <2>3. Len(Append(l, next[1])) = Len(l) + 1 /\ Len(l) \in Nat
    BY <1>1, <2>2, AppendProperties
  <2> QED BY <2>1, <2>3
<1>6. ASSUME NEW a \in Members(l) \cup {e}, NEW q \in Beside(lefts)[a], q # e
      PROVE  q \in Members(l)
  <2>1. a \in Entities
    BY DEF Members
  <2>2. q \in Entities /\ Contains(lefts[a], q)
    BY <2>1, BesideIs
  <2>3. lefts[a] # <<>> /\ q = lefts[a][1]
    <3>1. PICK n \in 1..Len(lefts[a]) : lefts[a][n] = q
      BY <2>2 DEF Contains
    <3>2. Len(lefts[a]) \in Nat /\ Len(lefts[a]) <= 1 /\ lefts[a] \in Seq(Entities)
      BY <2>1
    <3> DEFINE t == lefts[a]
    <3>3. t \in Seq(Entities) /\ Len(t) <= 1 /\ n \in 1..Len(t) /\ t[n] = q
      BY <3>1, <3>2
    <3> HIDE DEF t
    <3>4. n = 1 /\ t # <<>>
      BY <3>3, EmptySeq
    <3> QED BY <3>3, <3>4 DEF t
  <2>4. CASE a = at
    BY <1>5, <1>6, <2>2, <2>3, <2>4 DEF Members
  <2>5. CASE a # at
    <3>1. Len(l) \in Nat /\ (l = <<>> <=> Len(l) = 0)
      BY <1>1, EmptySeq
    <3>2. CASE a = e
      <4>1. l # <<>> /\ 1 \in 1..Len(l)
        BY <1>2, <2>5, <3>1, <3>2
      <4>2. q = l[1]
        BY <1>1, <2>3, <3>2, <4>1
      <4> QED BY <2>2, <4>1, <4>2 DEF Members, Contains
    <3>3. CASE a \in Members(l)
      <4>1. PICK k \in 1..Len(l) : l[k] = a
        BY <3>3 DEF Members, Contains
      <4>2. k + 1 \in 1..Len(l) /\ k + 1 # 1 /\ (k + 1) - 1 = k
        BY <1>2, <2>5, <3>1, <4>1
      <4>3. q = l[k + 1]
        BY <1>1, <2>3, <4>1, <4>2
      <4> QED BY <2>2, <4>2, <4>3 DEF Members, Contains
    <3> QED BY <3>2, <3>3
  <2> QED BY <2>4, <2>5
<1>7. Members(l) \subseteq Entities \ {e}
  BY <1>1 DEF Members
<1> QED BY <1>1, <1>6, <1>7 DEF Walk, Shut

LEMMA AncestorsWalk ==
  ASSUME NEW lefts \in [Entities -> Seq(Entities)], NEW e \in Entities,
         \A a \in Entities : Len(lefts[a]) <= 1
  PROVE  Walk(Beside(lefts), e, Members(Ancestors(lefts, e)))
<1> DEFINE N == Cardinality(Entities)
           Grown(g, n) == IF n = 0 THEN <<>> ELSE Further(lefts, e, g[n - 1])
           f == CHOOSE f : f = [n \in 0..N |-> Grown(f, n)]
           F == [l \in Seq(Entities) |-> Further(lefts, e, l)]
<1>1. N \in Nat
  BY Constants, FS_CardinalityType
<1>2. Ancestors(lefts, e) = f[N]
  BY DEF Ancestors, Further
<1>3. f = [n \in 0..N |-> Grown(f, n)]
  <2>1. F \in [Seq(Entities) -> Seq(Entities)]
    BY FurtherType
  <2>2. PICK g \in [0..N -> Seq(Entities)] :
          \A n \in 0..N : g[n] = IF n = 0 THEN <<>> ELSE F[g[n - 1]]
    <3> DEFINE S == Seq(Entities)
               a == <<>>
    <3>1. a \in S /\ F \in [S -> S] /\ N \in Nat
      BY <1>1, <2>1, EmptySeq
    <3> HIDE DEF N, F, S, a, Grown, f
    <3>2. \E g \in [0..N -> S] : Repeats(F, a, N, g)
      BY <3>1, Repeated
    <3> QED BY <3>2 DEF S, a, Repeats
  <2>3. ASSUME NEW n \in 0..N PROVE g[n] = Grown(g, n)
    <3>1. n # 0 => n - 1 \in 0..N
      BY <1>1
    <3> HIDE DEF N
    <3> QED BY <2>2, <3>1
  <2>4. g = [n \in 0..N |-> Grown(g, n)]
    <3> HIDE DEF N, Grown
    <3> QED BY <2>3
  <2> HIDE DEF N, Grown
  <2> QED BY <2>4
<1> HIDE DEF f
<1> DEFINE Good(n) == /\ Chain(lefts, e, f[n])
                      /\ Len(f[n]) = n \/ Further(lefts, e, f[n]) = f[n]
           B == {n \in Nat : n \in 0..N => Good(n)}
<1>4. 0 \in B
  <2>1. f[0] = <<>>
    BY <1>1, <1>3
  <2>2. Chain(lefts, e, <<>>)
    BY EmptySeq DEF Chain, IsInjective, Contains, Members
  <2> QED BY <2>1, <2>2, EmptySeq
<1>5. ASSUME NEW n \in Nat, n < N, n \in B PROVE n + 1 \in B
  <2>1. n \in 0..N /\ n + 1 \in 0..N /\ n + 1 # 0 /\ (n + 1) - 1 = n
    BY <1>1, <1>5
  <2>2. Good(n)
    <3> HIDE DEF Good
    <3> QED BY <1>5, <2>1
  <2>3. f[n + 1] = Further(lefts, e, f[n])
    <3>1. f[n + 1] = Grown(f, n + 1)
      <4> HIDE DEF N, Grown
      <4> QED BY <1>3, <2>1
    <3> QED BY <2>1, <3>1
  <2>4. /\ Chain(lefts, e, f[n + 1])
        /\ f[n + 1] # f[n] => Len(f[n + 1]) = Len(f[n]) + 1
    BY <2>2, <2>3, FurtherChain
  <2> HIDE DEF N
  <2> QED BY <2>1, <2>2, <2>3, <2>4
<1>6. Good(N)
  <2>1. \A n \in 0..N : n \in B
    <3> HIDE DEF N, B
    <3> QED BY <1>1, <1>4, <1>5, StepsKeep
  <2>2. N \in 0..N
    BY <1>1
  <2> HIDE DEF N, Good
  <2> QED BY <2>1, <2>2
<1>7. Len(f[N]) < N
  BY <1>6, ShortList DEF Chain
<1> QED BY <1>2, <1>6, <1>7, ChainWalk

LEMMA JoinedMembers ==
  ASSUME NEW s \in Seq(Entities), NEW t \in Seq(Entities)
  PROVE  /\ s \o t \in Seq(Entities) /\ Len(s \o t) = Len(s) + Len(t)
         /\ \A b : Contains(s \o t, b) <=> Contains(s, b) \/ Contains(t, b)
<1> DEFINE u == s \o t
<1>1. /\ u \in Seq(Entities) /\ Len(u) = Len(s) + Len(t)
      /\ \A i \in 1..Len(s) + Len(t) : u[i] = IF i <= Len(s) THEN s[i] ELSE t[i - Len(s)]
  BY ConcatProperties
<1>2. Len(s) \in Nat /\ Len(t) \in Nat
  OBVIOUS
<1> HIDE DEF u
<1>3. ASSUME NEW b, Contains(u, b) PROVE Contains(s, b) \/ Contains(t, b)
  <2>1. PICK i \in 1..Len(u) : u[i] = b
    BY <1>3 DEF Contains
  <2>2. CASE i <= Len(s)
    <3>1. i \in 1..Len(s) /\ s[i] = b
      BY <1>1, <1>2, <2>1, <2>2
    <3> QED BY <3>1 DEF Contains
  <2>3. CASE ~(i <= Len(s))
    <3>1. i - Len(s) \in 1..Len(t) /\ t[i - Len(s)] = b
      BY <1>1, <1>2, <2>1, <2>3
    <3> QED BY <3>1 DEF Contains
  <2> QED BY <2>2, <2>3
<1>4. ASSUME NEW b, Contains(s, b) PROVE Contains(u, b)
  <2>1. PICK i \in 1..Len(s) : s[i] = b
    BY <1>4 DEF Contains
  <2>2. i \in 1..Len(u) /\ u[i] = b
    BY <1>1, <1>2, <2>1
  <2> QED BY <2>2 DEF Contains
<1>5. ASSUME NEW b, Contains(t, b) PROVE Contains(u, b)
  <2>1. PICK i \in 1..Len(t) : t[i] = b
    BY <1>5 DEF Contains
  <2> DEFINE j == i + Len(s)
  <2>2. j \in 1..Len(s) + Len(t) /\ ~(j <= Len(s)) /\ j - Len(s) = i
    BY <1>2
  <2> HIDE DEF j
  <2>3. j \in 1..Len(u) /\ u[j] = b
    BY <1>1, <2>1, <2>2
  <2> QED BY <2>3 DEF Contains
<1> QED BY <1>1, <1>3, <1>4, <1>5 DEF u

(* Two lists without repetitions and with nothing in common, joined. *)
LEMMA JoinedDistinct ==
  ASSUME NEW s \in Seq(Entities), NEW t \in Seq(Entities), IsInjective(s), IsInjective(t),
         \A b \in Entities : ~(Contains(s, b) /\ Contains(t, b))
  PROVE  IsInjective(s \o t)
<1> DEFINE u == s \o t
<1>1. /\ u \in Seq(Entities) /\ Len(u) = Len(s) + Len(t)
      /\ \A i \in 1..Len(s) + Len(t) : u[i] = IF i <= Len(s) THEN s[i] ELSE t[i - Len(s)]
  BY ConcatProperties
<1>2. Len(s) \in Nat /\ Len(t) \in Nat
  OBVIOUS
<1> HIDE DEF u
<1>3. ASSUME NEW i \in 1..Len(u)
      PROVE  \/ i \in 1..Len(s) /\ u[i] = s[i] /\ Contains(s, u[i])
             \/ i - Len(s) \in 1..Len(t) /\ u[i] = t[i - Len(s)] /\ Contains(t, u[i])
  BY <1>1, <1>2 DEF Contains
<1>4. \A i \in 1..Len(u) : u[i] \in Entities
  BY <1>1
<1>5. /\ \A m, n \in 1..Len(s) : s[m] = s[n] => m = n
      /\ \A m, n \in 1..Len(t) : t[m] = t[n] => m = n
  BY DEF IsInjective
<1>6. ASSUME NEW i \in 1..Len(u), NEW j \in 1..Len(u), u[i] = u[j] PROVE i = j
  <2>1. CASE i \in 1..Len(s) /\ u[i] = s[i] /\ Contains(s, u[i])
    <3>1. j \in 1..Len(s) /\ u[j] = s[j]
      BY <1>3, <1>4, <1>6, <2>1
    <3> QED BY <1>5, <1>6, <2>1, <3>1
  <2>2. CASE i - Len(s) \in 1..Len(t) /\ u[i] = t[i - Len(s)] /\ Contains(t, u[i])
    <3>1. j - Len(s) \in 1..Len(t) /\ u[j] = t[j - Len(s)]
      BY <1>3, <1>4, <1>6, <2>2
    <3>2. i - Len(s) = j - Len(s)
      BY <1>5, <1>6, <2>2, <3>1
    <3> QED BY <1>2, <3>2
  <2> QED BY <1>3, <2>1, <2>2
<1>7. DOMAIN u = 1..Len(u)
  BY <1>1
<1>8. IsInjective(u)
  BY <1>6, <1>7 DEF IsInjective
<1> QED BY <1>8 DEF u

LEMMA FrontMembers ==
  ASSUME NEW s \in Seq(Entities), s # <<>>
  PROVE  /\ Front(s) \in Seq(Entities) /\ Len(Front(s)) = Len(s) - 1 /\ Len(s) \in Nat \ {0}
         /\ Last(s) \in Entities /\ Contains(s, Last(s))
         /\ \A b : Contains(s, b) <=> Contains(Front(s), b) \/ b = Last(s)
<1>1. Len(s) \in Nat /\ Len(s) # 0
  BY EmptySeq
<1>2. /\ Front(s) \in Seq(Entities) /\ Len(Front(s)) = Len(s) - 1
      /\ \A n \in 1..Len(s) - 1 : Front(s)[n] = s[n]
  BY <1>1, FrontProperties
<1>3. Len(s) \in 1..Len(s) /\ s[Len(s)] \in Entities
  BY <1>1, ElementOfSeq
<1>4. ASSUME NEW b
      PROVE  (\E i \in 1..Len(s) : s[i] = b)
               <=> (\E i \in 1..Len(s) - 1 : Front(s)[i] = b) \/ b = s[Len(s)]
  BY <1>1, <1>2, <1>3
<1> QED BY <1>1, <1>2, <1>3, <1>4 DEF Contains, Last

(* One step of the walk to the right of e. *)
Places == [found : Seq(Entities), pending : Seq(Entities)]

Deeper(rights, e, was) ==
  LET new == Among(rights[Last(was.pending)], Entities \ ({e} \cup ToSet(was.found)))
  IN IF was.pending = <<>> THEN was
     ELSE [found |-> was.found \o new, pending |-> Front(was.pending) \o new]

(* What has been found is some of what the walk has to find, and all that is*)
(* next to what is not pending any more.                                   *)
Spread(rights, e, was) ==
  /\ was \in Places /\ IsInjective(was.found) /\ ~Contains(was.found, e)
  /\ \A b \in Entities : Contains(was.pending, b) => b \in Members(was.found) \cup {e}
  /\ \A a \in Members(was.found) \cup {e} :
       Contains(was.pending, a) \/ Beside(rights)[a] \ {e} \subseteq Members(was.found)
  /\ \A C \in SUBSET Entities : Shut(Beside(rights), e, C) => Members(was.found) \subseteq C

LEMMA DeeperType ==
  ASSUME NEW rights \in [Entities -> Seq(Entities)], \A a \in Entities : IsInjective(rights[a]),
         NEW e \in Entities, NEW was \in Places
  PROVE  Deeper(rights, e, was) \in Places
<1> DEFINE new == Among(rights[Last(was.pending)], Entities \ ({e} \cup ToSet(was.found)))
<1>1. was.found \in Seq(Entities) /\ was.pending \in Seq(Entities)
  BY DEF Places
<1>2. Deeper(rights, e, was) =
        IF was.pending = <<>> THEN was
        ELSE [found |-> was.found \o new, pending |-> Front(was.pending) \o new]
  BY DEF Deeper
<1>3. was.pending # <<>> => new \in Seq(Entities) /\ Front(was.pending) \in Seq(Entities)
  <2>1. ASSUME was.pending # <<>>
        PROVE  Front(was.pending) \in Seq(Entities) /\ Last(was.pending) \in Entities
    BY <1>1, <2>1, FrontMembers
  <2>2. ASSUME was.pending # <<>> PROVE new \in Seq(Entities)
    <3>1. rights[Last(was.pending)] \in Seq(Entities) /\ IsInjective(rights[Last(was.pending)])
      BY <2>1, <2>2
    <3> QED BY <3>1, AmongProperties
  <2> QED BY <2>1, <2>2
<1> HIDE DEF new
<1>4. was.pending # <<>> => was.found \o new \in Seq(Entities) /\ Front(was.pending) \o new \in Seq(Entities)
  BY <1>1, <1>3, JoinedMembers
<1> QED BY <1>2, <1>4 DEF Places

LEMMA DeeperSpread ==
  ASSUME NEW rights \in [Entities -> Seq(Entities)], \A a \in Entities : IsInjective(rights[a]),
         NEW e \in Entities, NEW was, Spread(rights, e, was), was.pending # <<>>
  PROVE  LET now == Deeper(rights, e, was)
         IN  /\ Spread(rights, e, now)
             /\ Len(now.found) + Len(was.pending) = Len(was.found) + Len(now.pending) + 1
<1> DEFINE a == Last(was.pending)
           rest == Front(was.pending)
           found == was.found
           S == Entities \ ({e} \cup ToSet(found))
           new == Among(rights[a], S)
           now == Deeper(rights, e, was)
<1>1. /\ was \in Places /\ IsInjective(found) /\ ~Contains(found, e)
      /\ \A b \in Entities : Contains(was.pending, b) => b \in Members(found) \cup {e}
      /\ \A c \in Members(found) \cup {e} :
           Contains(was.pending, c) \/ Beside(rights)[c] \ {e} \subseteq Members(found)
      /\ \A C \in SUBSET Entities : Shut(Beside(rights), e, C) => Members(found) \subseteq C
  BY DEF Spread
<1>2. found \in Seq(Entities) /\ was.pending \in Seq(Entities)
  BY <1>1 DEF Places
<1>3. /\ rest \in Seq(Entities) /\ Len(rest) = Len(was.pending) - 1
      /\ Len(was.pending) \in Nat \ {0} /\ a \in Entities /\ Contains(was.pending, a)
      /\ \A b : Contains(was.pending, b) <=> Contains(rest, b) \/ b = a
  BY <1>2, FrontMembers
<1>4. now = [found |-> found \o new, pending |-> rest \o new]
  BY DEF Deeper
<1>5. \A b \in Entities : b \in S <=> b # e /\ ~Contains(found, b)
  BY <1>2 DEF ToSet, Contains
<1> HIDE DEF a, rest, S
<1>6. /\ new \in Seq(Entities) /\ IsInjective(new)
      /\ \A b : Contains(new, b) <=> Contains(rights[a], b) /\ b \in S
  <2>1. rights[a] \in Seq(Entities) /\ IsInjective(rights[a])
    BY <1>3
  <2> QED BY <2>1, AmongProperties
<1> HIDE DEF new, found
<1>7. /\ found \o new \in Seq(Entities) /\ Len(found \o new) = Len(found) + Len(new)
      /\ \A b : Contains(found \o new, b) <=> Contains(found, b) \/ Contains(new, b)
  BY <1>2, <1>6, JoinedMembers
<1>8. /\ rest \o new \in Seq(Entities) /\ Len(rest \o new) = Len(rest) + Len(new)
      /\ \A b : Contains(rest \o new, b) <=> Contains(rest, b) \/ Contains(new, b)
  BY <1>3, <1>6, JoinedMembers
<1>9. IsInjective(found \o new)
  <2>1. \A b \in Entities : ~(Contains(found, b) /\ Contains(new, b))
    BY <1>5, <1>6
  <2> QED BY <1>1, <1>2, <1>6, <2>1, JoinedDistinct DEF found
<1>10. now.found = found \o new /\ now.pending = rest \o new /\ now \in Places
  BY <1>4, <1>7, <1>8 DEF Places
<1> HIDE DEF now
<1>11. \A b \in Entities : b \in Beside(rights)[a] <=> Contains(rights[a], b)
  BY <1>3, BesideIs
<1>19. /\ \A b : Contains(now.found, b) <=> Contains(found, b) \/ (Contains(rights[a], b) /\ b \in S)
       /\ \A b : Contains(now.pending, b) <=> Contains(rest, b) \/ (Contains(rights[a], b) /\ b \in S)
  BY <1>6, <1>7, <1>8, <1>10
<1>12. /\ \A b : b \in Members(found) <=> b \in Entities /\ Contains(found, b)
       /\ \A b : b \in Members(now.found)
            <=> b \in Entities /\ (Contains(found, b) \/ (Contains(rights[a], b) /\ b \in S))
  BY <1>19 DEF Members
<1>13. ASSUME NEW b \in Entities, Contains(now.pending, b) PROVE b \in Members(now.found) \cup {e}
  <2>1. Contains(rest, b) \/ (Contains(rights[a], b) /\ b \in S)
    BY <1>13, <1>19
  <2>2. Contains(rest, b) => b \in Members(found) \cup {e}
    BY <1>1, <1>3 DEF found
  <2> QED BY <1>12, <2>1, <2>2
<1>14. ASSUME NEW c \in Members(now.found) \cup {e}, ~Contains(now.pending, c)
       PROVE  Beside(rights)[c] \ {e} \subseteq Members(now.found)
  <2>1. c \in Entities /\ ~Contains(rest, c) /\ ~Contains(new, c)
    BY <1>8, <1>10, <1>12, <1>14
  <2>2. c \in Members(found) \cup {e}
    BY <1>6, <1>12, <1>14, <2>1
  <2>3. Beside(rights)[c] \subseteq Entities
    BY <2>1, BesideIs
  <2>4. CASE c = a
    <3>1. ASSUME NEW b \in Beside(rights)[a], b # e PROVE b \in Members(now.found)
      <4>1. b \in Entities /\ Contains(rights[a], b)
        BY <1>11, <2>3, <2>4, <3>1
      <4>2. b \in S \/ Contains(found, b)
        BY <1>5, <3>1, <4>1
      <4> QED BY <1>12, <4>1, <4>2
    <3> QED BY <2>4, <3>1
  <2>5. CASE c # a
    <3>1. ~Contains(was.pending, c)
      BY <1>3, <2>1, <2>5
    <3>2. Beside(rights)[c] \ {e} \subseteq Members(found)
      BY <1>1, <2>2, <3>1 DEF found
    <3>3. Members(found) \subseteq Members(now.found)
      BY <1>12
    <3> QED BY <3>2, <3>3
  <2> QED BY <2>4, <2>5
<1>15. ASSUME NEW C \in SUBSET Entities, Shut(Beside(rights), e, C)
       PROVE  Members(now.found) \subseteq C
  <2>1. Members(found) \subseteq C
    BY <1>1, <1>15 DEF found
  <2>2. a \in C \cup {e}
    BY <1>1, <1>3, <2>1 DEF found
  <2>3. ASSUME NEW b \in Entities, Contains(rights[a], b), b \in S PROVE b \in C
    <3>1. b # e /\ b \in Beside(rights)[a]
      BY <1>5, <1>11, <2>3
    <3> QED BY <1>15, <2>2, <3>1 DEF Shut
  <2> QED BY <1>12, <2>1, <2>3
<1>16. ~Contains(now.found, e)
  BY <1>1, <1>5, <1>6, <1>7, <1>10 DEF found
<1>17. Spread(rights, e, now)
  BY <1>9, <1>10, <1>13, <1>14, <1>15, <1>16 DEF Spread
<1>18. Len(now.found) + Len(was.pending) = Len(found) + Len(now.pending) + 1
  <2>1. Len(found) \in Nat /\ Len(new) \in Nat
    BY <1>2, <1>6
  <2>2. /\ Len(now.found) = Len(found) + Len(new)
        /\ Len(now.pending) = Len(rest) + Len(new)
    BY <1>7, <1>8, <1>10
  <2>3. Len(rest) = Len(was.pending) - 1 /\ Len(was.pending) \in Nat
    BY <1>3
  <2> DEFINE f == Len(found)
             n == Len(new)
             p == Len(was.pending)
  <2>4. f \in Int /\ n \in Int /\ p \in Int
    BY <2>1, <2>3
  <2>5. Len(now.found) = f + n /\ Len(now.pending) = (p - 1) + n
    BY <2>2, <2>3
  <2> HIDE DEF f, n, p
  <2>6. (f + n) + p = f + ((p - 1) + n) + 1
    BY <2>4
  <2>7. Len(now.found) + p = f + Len(now.pending) + 1
    BY <2>5, <2>6
  <2> QED BY <2>7 DEF f, p
<1> QED BY <1>17, <1>18 DEF found, now

(* The walk to the right has nothing pending in the end: each step takes an*)
(* entity off that was found once, and there are no more than Entities.    *)
LEMMA DescendantsWalk ==
  ASSUME NEW rights \in [Entities -> Seq(Entities)], \A a \in Entities : IsInjective(rights[a]),
         NEW e \in Entities
  PROVE  Walk(Beside(rights), e, Members(Descendants(rights, e)))
<1> DEFINE N == Cardinality(Entities)
           first == [found |-> <<>>, pending |-> <<e>>]
           Grown(g, n) == IF n = 0 THEN first ELSE Deeper(rights, e, g[n - 1])
           f == CHOOSE f : f = [n \in 0..N |-> Grown(f, n)]
           F == [was \in Places |-> Deeper(rights, e, was)]
<1>1. N \in Nat
  BY Constants, FS_CardinalityType
<1>2. Descendants(rights, e) = f[N].found
  BY DEF Descendants, Deeper
<1>3. first \in Places
  BY EmptySeq, OneElement DEF Places
<1>4. f = [n \in 0..N |-> Grown(f, n)]
  <2>1. F \in [Places -> Places]
    BY DeeperType
  <2>2. PICK g \in [0..N -> Places] : Repeats(F, first, N, g)
    <3> HIDE DEF N, F, first, Grown, f
    <3> QED BY <1>1, <1>3, <2>1, Repeated
  <2>3. ASSUME NEW n \in 0..N PROVE g[n] = Grown(g, n)
    <3>1. n # 0 => n - 1 \in 0..N
      BY <1>1
    <3> HIDE DEF N, first
    <3> QED BY <2>2, <3>1 DEF Repeats
  <2>4. g = [n \in 0..N |-> Grown(g, n)]
    <3> HIDE DEF N, Grown
    <3> QED BY <2>3
  <2> HIDE DEF N, Grown
  <2> QED BY <2>4
<1> HIDE DEF f
<1> DEFINE Good(n) == /\ Spread(rights, e, f[n])
                      /\ f[n].pending = <<>> \/ Len(f[n].found) + 1 = n + Len(f[n].pending)
           B == {n \in Nat : n \in 0..N => Good(n)}
<1>5. 0 \in B
  <2>1. f[0] = first
    BY <1>1, <1>4
  <2>2. /\ Len(<<>>) = 0 /\ Len(<<e>>) = 1 /\ <<e>>[1] = e
    OBVIOUS
  <2>3. Spread(rights, e, first)
    <3>1. /\ IsInjective(<<>>) /\ \A b : ~Contains(<<>>, b)
          /\ \A b : Contains(<<e>>, b) <=> b = e
      BY <2>2 DEF IsInjective, Contains
    <3>2. Members(<<>>) = {}
      BY <3>1 DEF Members
    <3>3. first.found = <<>> /\ first.pending = <<e>>
      OBVIOUS
    <3> HIDE DEF first
    <3> QED BY <1>3, <3>1, <3>2, <3>3 DEF Spread
  <2>4. Len(f[0].found) + 1 = 0 + Len(f[0].pending)
    BY <2>1, <2>2
  <2>5. Good(0)
    BY <2>1, <2>3, <2>4
  <2> HIDE DEF Good, N
  <2> QED BY <2>5
<1>6. ASSUME NEW n \in Nat, n < N, n \in B PROVE n + 1 \in B
  <2>1. n \in 0..N /\ n + 1 \in 0..N /\ n + 1 # 0 /\ (n + 1) - 1 = n
    BY <1>1, <1>6
  <2>2. Good(n)
    <3> HIDE DEF Good
    <3> QED BY <1>6, <2>1
  <2>3. f[n + 1] = Deeper(rights, e, f[n])
    <3>1. f[n + 1] = Grown(f, n + 1)
      <4> HIDE DEF N, Grown
      <4> QED BY <1>4, <2>1
    <3> QED BY <2>1, <3>1
  <2>4. CASE f[n].pending = <<>>
    <3>1. f[n + 1] = f[n]
      BY <2>3, <2>4 DEF Deeper
    <3> HIDE DEF N
    <3> QED BY <2>1, <2>2, <2>4, <3>1
  <2>5. CASE f[n].pending # <<>>
    <3>1. /\ Spread(rights, e, f[n + 1])
          /\ Len(f[n + 1].found) + Len(f[n].pending) = Len(f[n].found) + Len(f[n + 1].pending) + 1
      BY <2>2, <2>3, <2>5, DeeperSpread
    <3>2. Len(f[n].found) + 1 = n + Len(f[n].pending)
      BY <2>2, <2>5
    <3>3. /\ Len(f[n].found) \in Int /\ Len(f[n].pending) \in Int
          /\ Len(f[n + 1].found) \in Int /\ Len(f[n + 1].pending) \in Int
      BY <2>2, <3>1, LenProperties DEF Spread, Places
    <3>4. Len(f[n + 1].found) + 1 = (n + 1) + Len(f[n + 1].pending)
      <4> DEFINE a == Len(f[n].found)
                 b == Len(f[n].pending)
                 c == Len(f[n + 1].found)
                 d == Len(f[n + 1].pending)
      <4>1. a \in Int /\ b \in Int /\ c \in Int /\ d \in Int /\ n \in Int
        BY <3>3
      <4>2. c + b = a + d + 1 /\ a + 1 = n + b
        BY <3>1, <3>2
      <4> HIDE DEF a, b, c, d
      <4>3. c + 1 = (n + 1) + d
        BY <4>1, <4>2
      <4> QED BY <4>3 DEF c, d
    <3> HIDE DEF N
    <3> QED BY <2>1, <3>1, <3>4
  <2> QED BY <2>4, <2>5
<1>7. Good(N)
  <2>1. \A n \in 0..N : n \in B
    <3> HIDE DEF N, B
    <3> QED BY <1>1, <1>5, <1>6, StepsKeep
  <2>2. N \in 0..N
    BY <1>1
  <2> HIDE DEF N, Good
  <2> QED BY <2>1, <2>2
<1>8. Spread(rights, e, f[N]) /\ f[N].found \in Seq(Entities) /\ f[N].pending \in Seq(Entities)
  BY <1>7 DEF Spread, Places
<1>9. Len(f[N].found) < N
  BY <1>8, ShortList DEF Spread
<1>10. f[N].pending = <<>>
  <2> DEFINE c == Len(f[N].found)
             d == Len(f[N].pending)
  <2>1. c \in Nat /\ d \in Nat /\ (f[N].pending # <<>> => d # 0) /\ c < N
    BY <1>8, <1>9, EmptySeq
  <2>2. f[N].pending # <<>> => c + 1 = N + d
    BY <1>7
  <2> HIDE DEF c, d, N
  <2> QED BY <1>1, <2>1, <2>2
<1>11. \A b : ~Contains(f[N].pending, b)
  BY <1>10 DEF Contains
<1> HIDE DEF N
<1> QED BY <1>2, <1>8, <1>11 DEF Spread, Walk, Shut, Members

(* Where every entity has at most one to its left, the walks mirror.       *)
LEMMA WalksMirror ==
  ASSUME NEW r \in GoodRows, NEW i \in Tables,
         \A a \in Entities : Len(r[2][i][a]) <= 1,
         NEW x \in Entities, NEW y \in Entities
  PROVE  Contains(Ancestors(r[2][i], x), y) <=> Contains(Descendants(r[1][i], y), x)
<1> DEFINE lefts == r[2][i]
           rights == r[1][i]
           up == Beside(lefts)
           down == Beside(rights)
           A == [a \in Entities |-> Members(Ancestors(lefts, a))]
           D == [a \in Entities |-> Members(Descendants(rights, a))]
<1>1. /\ lefts \in [Entities -> Seq(Entities)] /\ rights \in [Entities -> Seq(Entities)]
      /\ \A a, b \in Entities : Contains(rights[a], b) <=> Contains(lefts[b], a)
      /\ \A a \in Entities : IsInjective(rights[a]) /\ Len(lefts[a]) <= 1
  BY RowsShape DEF GoodRows, MirroredIn
<1> HIDE DEF lefts, rights
<1>2. \A a, b \in Entities : b \in up[a] <=> a \in down[b]
  BY <1>1, BesideIs
<1>3. /\ up \in [Entities -> SUBSET Entities] /\ down \in [Entities -> SUBSET Entities]
      /\ A \in [Entities -> SUBSET Entities] /\ D \in [Entities -> SUBSET Entities]
  <2>1. \A s : Members(s) \subseteq Entities
    BY DEF Members
  <2> QED BY <1>1, <2>1, BesideIs
<1>4. \A e \in Entities : Walk(up, e, A[e]) /\ Walk(down, e, D[e])
  BY <1>1, AncestorsWalk, DescendantsWalk
<1>5. /\ y \in A[x] <=> Contains(Ancestors(lefts, x), y)
      /\ x \in D[y] <=> Contains(Descendants(rights, y), x)
  BY DEF Members
<1> HIDE DEF up, down, A, D
<1>6. y \in A[x] => x \in D[y]
  BY <1>2, <1>3, <1>4, WalkBack
<1>7. x \in D[y] => y \in A[x]
  BY <1>2, <1>3, <1>4, WalkBack
<1> QED BY <1>5, <1>6, <1>7 DEF lefts, rights

(* Of a game that changes nothing after undo in the same turn, and for any *)
(* number of entities: where every entity has one container, the ancestors *)
(* found by following first partners and the descendants found depth first *)
(* are the same relation, circles or not (relations.rs ancestors and       *)
(* descendants, ops 137 and 138).                                          *)
THEOREM WalksMeet == ASSUME QuietUndo = TRUE PROVE Spec => []WalksAgree
<1>1. ASSUME Sound, CardinalityKept PROVE WalksAgree
  <2> SUFFICES ASSUME NEW i \in Tables, cardinality[i] \in {"one_to_one", "one_to_many"},
                      NEW x \in Entities, NEW y \in Entities
               PROVE  Contains(Ancestors(reverse[i], x), y) <=> Contains(Descendants(forward[i], y), x)
    BY DEF WalksAgree
  <2>1. rows \in GoodRows /\ rows[1] = forward /\ rows[2] = reverse
    BY <1>1 DEF Sound, rows
  <2>2. \A a \in Entities : Len(rows[2][i][a]) <= 1
    BY <1>1, <2>1 DEF CardinalityKept
  <2> QED BY <2>1, <2>2, WalksMirror
<1> QED BY <1>1, SoundAlways, CardinalityAlways, PTL
=============================================================================
