--------------------------- MODULE SequenceLemmas ---------------------------
(***************************************************************************)
(* Lemmas about the operators on sequences that the models are built from: *)
(* RemoveAt, with which datagrams leave a queue and rows leave the GUI's   *)
(* table, the first and the last element that passes a test, how many      *)
(* elements of a sequence belong to a set, and what is in a sequence.      *)
(***************************************************************************)
EXTENDS SequencesExt, Integers, SequenceTheorems, FiniteSetTheorems,
        WellFoundedInduction, TLAPS

-----------------------------------------------------------------------------
(* RemoveAt *)

\* RemoveAt leaves only elements that were there.
LEMMA RemoveAtInSeq ==
    ASSUME NEW G, NEW q \in Seq(G), NEW i \in 1..Len(q)
    PROVE  RemoveAt(q, i) \in Seq(G)
<1>1. SubSeq(q, 1, i - 1) \in Seq(G) /\ SubSeq(q, i + 1, Len(q)) \in Seq(G)
  BY SubSeqProperties
<1> QED BY <1>1, ConcatProperties DEF RemoveAt

\* ... and those behind the one that is gone move up.
LEMMA RemoveAtIndices ==
    ASSUME NEW G, NEW q \in Seq(G), NEW i \in 1..Len(q)
    PROVE  LET s == RemoveAt(q, i)
           IN  /\ s \in Seq(G) /\ Len(s) = Len(q) - 1 /\ Len(q) \in Nat
               /\ \A j \in 1..Len(s) : s[j] = q[IF j < i THEN j ELSE j + 1]
<1> DEFINE a == SubSeq(q, 1, i - 1)
           b == SubSeq(q, i + 1, Len(q))
<1>1. Len(q) \in Nat /\ i \in Nat /\ i > 0 /\ i <= Len(q)
  BY LenProperties
<1>2. /\ a \in Seq(G) /\ Len(a) = i - 1
      /\ \A j \in 1..(i - 1) : a[j] = q[j]
  BY <1>1, SubSeqProperties, ElementOfSeq
<1>3. /\ b \in Seq(G) /\ Len(b) = Len(q) - i
      /\ \A j \in 1..(Len(q) - i) : b[j] = q[j + i]
  <2>1. \A j \in (i + 1)..Len(q) : q[j] \in G
    BY <1>1, ElementOfSeq
  <2>2. /\ b \in Seq(G)
        /\ Len(b) = IF i + 1 <= Len(q) THEN Len(q) - (i + 1) + 1 ELSE 0
        /\ \A j \in 1..(Len(q) - (i + 1) + 1) : b[j] = q[(i + 1) + j - 1]
    BY <1>1, <2>1, SubSeqProperties
  <2> HIDE DEF b
  <2>3. Len(q) - (i + 1) + 1 = Len(q) - i /\ Len(b) = Len(q) - i
    BY <1>1, <2>2
  <2>4. ASSUME NEW j \in 1..(Len(q) - i) PROVE b[j] = q[j + i]
    <3>1. j \in 1..(Len(q) - (i + 1) + 1)
      BY <2>3
    <3>2. b[j] = q[(i + 1) + j - 1]
      BY <2>2, <3>1
    <3>3. (i + 1) + j - 1 = j + i
      BY <1>1
    <3> QED BY <3>2, <3>3
  <2> QED BY <2>2, <2>3, <2>4
<1> HIDE DEF a, b
<1>4. /\ a \o b \in Seq(G) /\ Len(a \o b) = Len(a) + Len(b)
      /\ \A j \in 1..(Len(a) + Len(b)) :
             (a \o b)[j] = IF j <= Len(a) THEN a[j] ELSE b[j - Len(a)]
  BY <1>2, <1>3, ConcatProperties
<1>5. \A j \in 1..(Len(q) - 1) : (a \o b)[j] = q[IF j < i THEN j ELSE j + 1]
  <2> TAKE j \in 1..(Len(q) - 1)
  <2> DEFINE k == IF j < i THEN j ELSE j + 1
  <2>1. (a \o b)[j] = IF j <= Len(a) THEN a[j] ELSE b[j - Len(a)]
    BY <1>1, <1>2, <1>3, <1>4
  <2>2. CASE j < i
    <3>1. (a \o b)[j] = q[j] /\ k = j
      BY <1>1, <1>2, <2>1, <2>2
    <3> QED BY <3>1
  <2>3. CASE ~(j < i)
    <3> DEFINE h == j - (i - 1)
    <3>1. h \in 1..(Len(q) - i) /\ h + i = j + 1 /\ k = j + 1
      BY <1>1, <2>3
    <3>2. (a \o b)[j] = b[h]
      BY <1>1, <1>2, <2>1, <2>3
    <3> HIDE DEF h, k
    <3>3. b[h] = q[k]
      BY <1>3, <3>1
    <3> QED BY <3>2, <3>3 DEF k
  <2> QED BY <2>2, <2>3
<1>6. Len(a \o b) = Len(q) - 1
  BY <1>1, <1>2, <1>3, <1>4
<1>7. RemoveAt(q, i) = a \o b
  BY DEF RemoveAt, a, b
<1> QED BY <1>1, <1>4, <1>5, <1>6, <1>7

-----------------------------------------------------------------------------
(* The greatest and the least index that passes a test *)

LEMMA MinIsLeast ==
    ASSUME NEW I \in SUBSET Nat, I # {}
    PROVE  Min(I) \in I /\ \A j \in I : Min(I) <= j
<1>1. PICK x \in I : \A y \in I : ~(<<y, x>> \in OpToRel(<, Nat))
  BY NatLessThanWellFounded, WFMin
<1>2. ASSUME NEW y \in I PROVE x <= y
  <2>1. <<y, x>> \in Nat \X Nat
    OBVIOUS
  <2>2. y < x => <<y, x>> \in OpToRel(<, Nat)
    BY <2>1 DEF OpToRel
  <2>3. ~(y < x)
    BY <1>1, <2>2, Zenon
  <2> QED BY <2>3
<1> QED BY <1>2 DEF Min

LEMMA MaxIsGreatest ==
    ASSUME NEW n \in Nat, NEW I \in SUBSET (1..n), I # {}
    PROVE  Max(I) \in I /\ \A j \in I : j <= Max(I)
<1> DEFINE J == {k \in Nat : k <= n /\ n - k \in I}
<1>1. J \in SUBSET Nat /\ J # {}
  <2>1. PICK i \in I : TRUE
    OBVIOUS
  <2>2. n - i \in J
    <3>1. n - i \in Nat /\ n - i <= n /\ n - (n - i) = i
      BY <2>1
    <3> QED BY <3>1, <2>1
  <2> QED BY <2>2
<1>2. Min(J) \in J /\ \A k \in J : Min(J) <= k
  BY <1>1, MinIsLeast
<1> DEFINE x == n - Min(J)
<1>3. x \in I
  BY <1>2
<1>4. ASSUME NEW j \in I PROVE j <= x
  <2>1. n - j \in J
    <3>1. j \in Nat /\ n - j \in Nat /\ n - j <= n /\ n - (n - j) = j
      OBVIOUS
    <3> QED BY <3>1
  <2>2. Min(J) <= n - j /\ Min(J) \in Nat /\ j \in Nat
    BY <1>2, <2>1
  <2> QED BY <2>2
<1> HIDE DEF x
<1>5. \A j \in I : x >= j
  BY <1>3, <1>4
<1>6. \A y \in I : (\A j \in I : y >= j) => y = x
  BY <1>3, <1>5
<1>7. Max(I) = x
  BY <1>3, <1>5, <1>6 DEF Max
<1> QED BY <1>3, <1>4, <1>7

-----------------------------------------------------------------------------
(* How many elements of a sequence belong to a set *)

Places(s, S) == {i \in 1..Len(s) : s[i] \in S}

LEMMA PlacesFinite ==
    ASSUME NEW T, NEW s \in Seq(T), NEW S
    PROVE  IsFiniteSet(Places(s, S)) /\ Cardinality(Places(s, S)) \in Nat
<1>1. Len(s) \in Nat
  BY LenProperties
<1>2. IsFiniteSet(1..Len(s))
  BY <1>1, FS_Interval
<1>3. IsFiniteSet(Places(s, S))
  BY <1>2, FS_Subset DEF Places
<1> QED BY <1>3, FS_CardinalityType

LEMMA PlacesAppended ==
    ASSUME NEW T, NEW s \in Seq(T), NEW e \in T, NEW S
    PROVE  LET q == Append(s, e)
           IN  /\ e \in S => Cardinality(Places(q, S)) = Cardinality(Places(s, S)) + 1
               /\ e \notin S => Places(q, S) = Places(s, S)
<1> DEFINE q == Append(s, e)
           n == Len(s) + 1
           P == Places(s, S)
<1>1. /\ Len(s) \in Nat /\ Len(q) = n /\ q[n] = e
      /\ \A i \in 1..Len(s) : q[i] = s[i]
  BY AppendProperties, LenProperties
<1>2. IsFiniteSet(P) /\ n \notin P
  <2>1. IsFiniteSet(P)
    BY PlacesFinite
  <2>2. n \notin P
    BY <1>1 DEF Places
  <2> QED BY <2>1, <2>2
<1>3. ASSUME e \in S PROVE Places(q, S) = P \cup {n}
  BY <1>1, <1>3 DEF Places
<1>4. ASSUME e \notin S PROVE Places(q, S) = P
  BY <1>1, <1>4 DEF Places
<1> HIDE DEF q, n, P
<1>5. Cardinality(P \cup {n}) = Cardinality(P) + 1
  BY <1>2, FS_AddElement
<1> QED BY <1>3, <1>4, <1>5 DEF P, q

\* Changing one element.
LEMMA PlacesChanged ==
    ASSUME NEW T, NEW s \in Seq(T), NEW i \in 1..Len(s), NEW S, NEW q,
           Len(q) = Len(s), \A j \in 1..Len(s) : j # i => q[j] = s[j]
    PROVE  /\ (s[i] \in S <=> q[i] \in S) => Places(q, S) = Places(s, S)
           /\ s[i] \in S /\ q[i] \notin S =>
                  Cardinality(Places(q, S)) = Cardinality(Places(s, S)) - 1
<1> DEFINE P == Places(s, S)
<1>1. IsFiniteSet(P)
  BY PlacesFinite
<1>2. ASSUME s[i] \in S <=> q[i] \in S PROVE Places(q, S) = P
  BY <1>2 DEF Places
<1>3. ASSUME s[i] \in S, q[i] \notin S PROVE Places(q, S) = P \ {i} /\ i \in P
  BY <1>3 DEF Places
<1> HIDE DEF P
<1>4. i \in P => Cardinality(P \ {i}) = Cardinality(P) - 1
  BY <1>1, FS_RemoveElement
<1> QED BY <1>2, <1>3, <1>4 DEF P

\* Removing an element that does not belong to the set.
LEMMA PlacesRemoved ==
    ASSUME NEW T, NEW s \in Seq(T), NEW i \in 1..Len(s), NEW S, s[i] \notin S
    PROVE  Cardinality(Places(RemoveAt(s, i), S)) = Cardinality(Places(s, S))
<1> DEFINE q == RemoveAt(s, i)
           A == Places(q, S)
           B == Places(s, S)
           f == [j \in A |-> IF j < i THEN j ELSE j + 1]
<1>1. /\ q \in Seq(T) /\ Len(q) = Len(s) - 1 /\ Len(s) \in Nat
      /\ \A j \in 1..Len(q) : q[j] = s[IF j < i THEN j ELSE j + 1]
  BY RemoveAtIndices
<1> HIDE DEF q
<1>2. i \in Nat /\ 1 <= i /\ i <= Len(s)
  BY <1>1
<1>3. IsFiniteSet(A) /\ IsFiniteSet(B)
  BY <1>1, PlacesFinite
<1>4. ASSUME NEW j \in A PROVE f[j] \in B /\ j \in 1..Len(q)
  <2>1. j \in 1..Len(q) /\ q[j] \in S
    BY DEF Places
  <2> DEFINE k == IF j < i THEN j ELSE j + 1
  <2>2. k \in 1..Len(s)
    BY <1>1, <1>2, <2>1
  <2>3. f[j] = k /\ q[j] = s[k]
    BY <1>1, <2>1
  <2> HIDE DEF k, f
  <2> QED BY <2>1, <2>2, <2>3 DEF Places
<1>5. ASSUME NEW j \in A, NEW k \in A, f[j] = f[k] PROVE j = k
  <2>1. j \in Int /\ k \in Int
    BY <1>4
  <2>2. f[j] = (IF j < i THEN j ELSE j + 1) /\ f[k] = (IF k < i THEN k ELSE k + 1)
    OBVIOUS
  <2>3. f[j] = f[k]
    BY <1>5
  <2> HIDE DEF f
  <2>4. (IF j < i THEN j ELSE j + 1) = (IF k < i THEN k ELSE k + 1)
    BY <2>2, <2>3
  <2> HIDE DEF A
  <2> QED BY <1>2, <2>1, <2>4
<1>6. ASSUME NEW k \in B PROVE \E j \in A : f[j] = k
  <2>1. k \in 1..Len(s) /\ s[k] \in S /\ k # i
    BY DEF Places
  <2> DEFINE j == IF k < i THEN k ELSE k - 1
  <2>2. j \in 1..Len(q) /\ (IF j < i THEN j ELSE j + 1) = k
    BY <1>1, <1>2, <2>1
  <2> HIDE DEF j
  <2>3. q[j] = s[k]
    BY <1>1, <2>2
  <2>4. j \in A
    BY <2>1, <2>2, <2>3 DEF Places
  <2>5. f[j] = k
    BY <2>2, <2>4
  <2> QED BY <2>4, <2>5
<1> HIDE DEF A, B
<1>7. f \in [A -> B]
  BY <1>4
<1> HIDE DEF f
<1>8. f \in Bijection(A, B)
  BY <1>5, <1>6, <1>7 DEF Bijection, Injection, Surjection, IsInjective
<1>9. ExistsBijection(A, B)
  BY <1>8 DEF ExistsBijection
<1>10. Cardinality(B) = Cardinality(A)
  BY <1>3, <1>9, FS_Bijection
<1> QED BY <1>10 DEF A, B, q

-----------------------------------------------------------------------------
(* What is in a sequence, wherever it stands *)

LEMMA MembersAppended ==
    ASSUME NEW G, NEW q \in Seq(G), NEW e \in G
    PROVE  ToSet(Append(q, e)) = ToSet(q) \cup {e}
<1>1. /\ Append(q, e) \in Seq(G) /\ Len(Append(q, e)) = Len(q) + 1 /\ Len(q) \in Nat
      /\ \A i \in 1..Len(q) : Append(q, e)[i] = q[i]
      /\ Append(q, e)[Len(q) + 1] = e
  BY AppendProperties, LenProperties
<1>2. DOMAIN q = 1..Len(q) /\ DOMAIN Append(q, e) = 1..(Len(q) + 1)
  BY <1>1, LenProperties
<1>3. 1..(Len(q) + 1) = (1..Len(q)) \cup {Len(q) + 1}
  BY <1>1
<1> QED BY <1>1, <1>2, <1>3 DEF ToSet

LEMMA MembersBehindHead ==
    ASSUME NEW G, NEW q \in Seq(G), q # <<>>
    PROVE  ToSet(q) = {Head(q)} \cup ToSet(Tail(q))
<1>1. /\ Tail(q) \in Seq(G) /\ Len(Tail(q)) = Len(q) - 1 /\ Len(q) \in Nat /\ Len(q) > 0
      /\ Head(q) = q[1]
      /\ \A i \in 1..(Len(q) - 1) : Tail(q)[i] = q[i + 1]
  BY HeadTailProperties, LenProperties, EmptySeq
<1>2. DOMAIN q = 1..Len(q) /\ DOMAIN Tail(q) = 1..(Len(q) - 1)
  BY <1>1, LenProperties
<1>3. ASSUME NEW m \in ToSet(q) PROVE m \in {Head(q)} \cup ToSet(Tail(q))
  <2>1. PICK i \in 1..Len(q) : m = q[i]
    BY <1>2 DEF ToSet
  <2>2. CASE i = 1
    BY <1>1, <2>1, <2>2
  <2>3. CASE i # 1
    <3>1. i - 1 \in 1..(Len(q) - 1) /\ (i - 1) + 1 = i
      BY <1>1, <2>3
    <3>2. Tail(q)[i - 1] = m
      BY <1>1, <2>1, <3>1
    <3> QED BY <1>2, <3>1, <3>2 DEF ToSet
  <2> QED BY <2>2, <2>3
<1>4. ASSUME NEW m \in ToSet(Tail(q)) PROVE m \in ToSet(q)
  <2>1. PICK i \in 1..(Len(q) - 1) : m = Tail(q)[i]
    BY <1>2 DEF ToSet
  <2>2. i + 1 \in 1..Len(q) /\ m = q[i + 1]
    BY <1>1, <2>1
  <2> QED BY <1>2, <2>2 DEF ToSet
<1>5. Head(q) \in ToSet(q)
  BY <1>1, <1>2 DEF ToSet
<1> QED BY <1>3, <1>4, <1>5

\* Nothing is gone from a sequence but what is taken out of it.
LEMMA MembersRemoved ==
    ASSUME NEW G, NEW q \in Seq(G), NEW i \in 1..Len(q)
    PROVE  ToSet(q) = ToSet(RemoveAt(q, i)) \cup {q[i]}
<1> DEFINE r == RemoveAt(q, i)
<1>1. /\ r \in Seq(G) /\ Len(r) = Len(q) - 1 /\ Len(q) \in Nat
      /\ \A j \in 1..Len(r) : r[j] = q[IF j < i THEN j ELSE j + 1]
  BY RemoveAtIndices
<1> HIDE DEF r
<1>2. DOMAIN q = 1..Len(q) /\ DOMAIN r = 1..Len(r)
  BY <1>1, LenProperties
<1>3. ASSUME NEW m \in ToSet(q) PROVE m \in ToSet(r) \cup {q[i]}
  <2>1. PICK j \in 1..Len(q) : m = q[j]
    BY <1>2 DEF ToSet
  <2>2. CASE j < i
    <3>1. j \in 1..Len(r) /\ r[j] = m
      BY <1>1, <2>1, <2>2
    <3> QED BY <1>2, <3>1 DEF ToSet
  <2>3. CASE j > i
    <3> DEFINE h == j - 1
    <3>1. h \in 1..Len(r) /\ ~(h < i) /\ h + 1 = j
      BY <1>1, <2>3
    <3> HIDE DEF h
    <3>2. r[h] = m
      BY <1>1, <2>1, <3>1
    <3> QED BY <1>2, <3>1, <3>2 DEF ToSet
  <2>4. CASE j = i
    BY <2>1, <2>4
  <2> QED BY <2>2, <2>3, <2>4
<1>4. ASSUME NEW m \in ToSet(r) PROVE m \in ToSet(q)
  <2>1. PICK j \in 1..Len(r) : m = r[j]
    BY <1>2 DEF ToSet
  <2> DEFINE h == IF j < i THEN j ELSE j + 1
  <2>2. h \in 1..Len(q) /\ m = q[h]
    BY <1>1, <2>1
  <2> HIDE DEF h
  <2> QED BY <1>2, <2>2 DEF ToSet
<1>5. q[i] \in ToSet(q)
  BY <1>2 DEF ToSet
<1> QED BY <1>3, <1>4, <1>5 DEF r
=============================================================================
