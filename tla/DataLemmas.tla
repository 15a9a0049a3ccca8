------------------------------ MODULE DataLemmas ------------------------------
(***************************************************************************)
(* Facts about numbers and sequences that the proofs of several components *)
(* rest on.                                                                *)
(***************************************************************************)
EXTENDS Integers, Sequences, FiniteSets, SequencesExt, FiniteSetTheorems, SequenceTheorems,
        WellFoundedInduction, TLAPS

-----------------------------------------------------------------------------
(* Numbers *)

\* Numbers are well-founded because the finite sets 0 .. n are.
LEMMA LeastNumber ==
  ASSUME NEW T \in SUBSET Nat, T # {}
  PROVE  \E x \in T : \A y \in T : x <= y
<1> DEFINE I == {0 .. x : x \in T}
           R == StrictSubsetOrdering(Nat)
<1>1. I \subseteq FiniteSubsetsOf(Nat)
  <2>1. \A x \in Nat : IsFiniteSet(0 .. x)
    BY FS_Interval
  <2>2. \A x \in Nat : 0 .. x \in SUBSET Nat
    OBVIOUS
  <2>3. \A x \in Nat : 0 .. x \in FiniteSubsetsOf(Nat)
    BY <2>1, <2>2 DEF FiniteSubsetsOf
  <2> QED BY <2>3
<1>2. \E i \in I : \A k \in I : <<k, i>> \notin R
  <2>1. I # {}
    OBVIOUS
  <2>2. IsWellFoundedOn(R, FiniteSubsetsOf(Nat))
    BY FS_StrictSubsetOrderingWellFounded
  <2> HIDE DEF I, R
  <2> QED BY <1>1, <2>1, <2>2, WFMin
<1>3. PICK x \in T : \A k \in I : <<k, 0 .. x>> \notin R
  BY <1>2
<1>4. ASSUME NEW y \in T, y < x PROVE FALSE
  <2>1. 0 .. y \in SUBSET Nat /\ 0 .. x \in SUBSET Nat
    OBVIOUS
  <2>2. 0 .. y \subseteq 0 .. x /\ 0 .. y # 0 .. x
    BY <1>4
  <2>3. <<0 .. y, 0 .. x>> \in R
    BY <2>1, <2>2 DEF StrictSubsetOrdering
  <2> QED BY <1>3, <2>3
<1> QED BY <1>4

\* A bounded set of numbers has a greatest member.
LEMMA GreatestNumber ==
  ASSUME NEW n \in Nat, NEW T \in SUBSET (0 .. n), T # {}
  PROVE  \E x \in T : \A y \in T : y <= x
<1> DEFINE U == {k \in 0 .. n : n - k \in T}
<1>1. U \in SUBSET Nat /\ U # {}
  <2>1. PICK x \in T : x \in 0 .. n
    OBVIOUS
  <2>2. n - x \in 0 .. n /\ n - (n - x) = x
    BY <2>1
  <2>3. n - x \in U
    BY <2>2
  <2>4. \A k \in U : k \in Nat
    OBVIOUS
  <2> QED BY <2>3, <2>4
<1>2. PICK k \in U : \A l \in U : k <= l
  BY <1>1, LeastNumber
<1>3. \A y \in T : n - y \in U
  OBVIOUS
<1>4. ASSUME NEW y \in T PROVE y <= n - k
  <2>1. k <= n - y
    BY <1>2, <1>3
  <2> QED BY <2>1
<1> QED BY <1>2, <1>4

\* A bounded set of numbers can be counted off from the least to the greatest.
LEMMA Enumeration ==
  ASSUME NEW N \in Nat, NEW S \in SUBSET (0 .. N)
  PROVE  \E f \in [1 .. Cardinality(S) -> S] :
           \A m, n \in 1 .. Cardinality(S) : m < n => f[m] < f[n]
<1> DEFINE Counted(T) == \E f \in [1 .. Cardinality(T) -> T] :
                           \A m, n \in 1 .. Cardinality(T) : m < n => f[m] < f[n]
           bad == {T \in SUBSET S : ~Counted(T)}
<1>0. S \in SUBSET Nat /\ IsFiniteSet(S)
  <2>1. IsFiniteSet(0 .. N) /\ 0 .. N \in SUBSET Nat
    BY FS_Interval
  <2> QED BY <2>1, FS_Subset
<1>1. SUFFICES ASSUME bad # {} PROVE FALSE
  <2>1. S \in SUBSET S
    OBVIOUS
  <2> QED BY <2>1
<1>2. PICK T \in bad : \A U \in bad : <<U, T>> \notin StrictSubsetOrdering(Nat)
  <2>1. \A U \in bad : U \in SUBSET Nat /\ IsFiniteSet(U)
    BY <1>0, FS_Subset
  <2>2. bad \subseteq FiniteSubsetsOf(Nat)
    BY <2>1 DEF FiniteSubsetsOf
  <2>3. IsWellFoundedOn(StrictSubsetOrdering(Nat), FiniteSubsetsOf(Nat))
    BY FS_StrictSubsetOrderingWellFounded
  <2> HIDE DEF bad
  <2> QED BY <1>1, <2>2, <2>3, WFMin
<1>3. /\ T \in SUBSET S /\ T \in SUBSET Nat /\ ~Counted(T)
      /\ IsFiniteSet(T) /\ Cardinality(T) \in Nat
  <2>1. T \in SUBSET S /\ ~Counted(T)
    OBVIOUS
  <2>2. IsFiniteSet(T)
    BY <1>0, <2>1, FS_Subset
  <2> QED BY <1>0, <2>1, <2>2, FS_CardinalityType
<1>4. T # {}
  <2>1. [m \in 1 .. 0 |-> 0] \in [1 .. 0 -> {}]
    OBVIOUS
  <2>2. Cardinality({}) = 0
    BY FS_EmptySet
  <2>3. Counted({})
    <3>1. \A m, n \in 1 .. 0 : FALSE
      OBVIOUS
    <3> QED BY <2>1, <2>2, <3>1
  <2> QED BY <1>3, <2>3
<1>5. PICK x \in T : \A y \in T : y <= x
  <2>1. T \in SUBSET (0 .. N)
    BY <1>3
  <2> QED BY <1>4, <2>1, GreatestNumber
<1> DEFINE U == T \ {x}
<1>6. IsFiniteSet(U) /\ Cardinality(U) = Cardinality(T) - 1 /\ Cardinality(U) \in Nat
  BY <1>3, FS_RemoveElement, FS_CardinalityType
<1>7. Counted(U)
  <2>1. <<U, T>> \in StrictSubsetOrdering(Nat)
    BY <1>3 DEF StrictSubsetOrdering
  <2>2. U \notin bad
    BY <1>2, <2>1
  <2> QED BY <1>3, <2>2
<1>8. PICK f \in [1 .. Cardinality(U) -> U] :
        \A m, n \in 1 .. Cardinality(U) : m < n => f[m] < f[n]
  BY <1>7
<1> DEFINE g == [m \in 1 .. Cardinality(T) |-> IF m <= Cardinality(U) THEN f[m] ELSE x]
<1>9. g \in [1 .. Cardinality(T) -> T]
  BY <1>6
<1>10. ASSUME NEW m \in 1 .. Cardinality(T), NEW n \in 1 .. Cardinality(T), m < n
       PROVE  g[m] < g[n]
  <2>1. m \in 1 .. Cardinality(U) /\ g[m] = f[m] /\ f[m] \in U
    BY <1>3, <1>6, <1>10, SMTT(20)
  <2>2. CASE n \in 1 .. Cardinality(U)
    <3>1. g[n] = f[n]
      BY <1>6, <2>2
    <3>2. f[m] < f[n]
      BY <1>8, <1>10, <2>1, <2>2
    <3> QED BY <2>1, <3>1, <3>2
  <2>3. CASE n \notin 1 .. Cardinality(U)
    <3>1. g[n] = x
      BY <1>6, <2>3
    <3>2. f[m] <= x /\ f[m] # x /\ f[m] \in Nat /\ x \in Nat
      BY <1>3, <1>5, <2>1
    <3> QED BY <2>1, <3>1, <3>2
  <2> QED BY <2>2, <2>3
<1> QED BY <1>3, <1>9, <1>10

-----------------------------------------------------------------------------
(* Sequences *)

\* The elements of a sequence are of its kind.
LEMMA Elements == ASSUME NEW S, NEW q \in Seq(S) PROVE ToSet(q) \subseteq S
  BY DEF ToSet

\* The elements of a sequence with one more.
LEMMA AppendElements ==
  ASSUME NEW S, NEW q \in Seq(S), NEW r PROVE ToSet(Append(q, r)) = ToSet(q) \cup {r}
<1>1. /\ Len(q) \in Nat /\ DOMAIN q = 1 .. Len(q) /\ DOMAIN Append(q, r) = 1 .. Len(q) + 1
      /\ \A k \in 1 .. Len(q) : Append(q, r)[k] = q[k]
      /\ Append(q, r)[Len(q) + 1] = r
  OBVIOUS
<1>2. \A k \in 1 .. Len(q) + 1 : k \in 1 .. Len(q) \/ k = Len(q) + 1
  BY <1>1
<1> QED BY <1>1, <1>2 DEF ToSet

\* The elements of two sequences in a row.
LEMMA ConcatElements ==
  ASSUME NEW S, NEW q \in Seq(S), NEW z \in Seq(S)
  PROVE  /\ q \o z \in Seq(S) /\ Len(q \o z) = Len(q) + Len(z)
         /\ \A k \in 1 .. Len(q) : (q \o z)[k] = q[k]
         /\ \A k \in 1 .. Len(z) : (q \o z)[Len(q) + k] = z[k]
         /\ ToSet(q \o z) = ToSet(q) \cup ToSet(z)
<1> DEFINE t == q \o z
<1>1. /\ Len(q) \in Nat /\ DOMAIN q = 1 .. Len(q) /\ Len(z) \in Nat /\ DOMAIN z = 1 .. Len(z)
  OBVIOUS
<1>2. /\ t \in Seq(S) /\ Len(t) = Len(q) + Len(z) /\ DOMAIN t = 1 .. Len(q) + Len(z)
      /\ \A k \in 1 .. Len(q) : t[k] = q[k]
      /\ \A k \in 1 .. Len(z) : t[Len(q) + k] = z[k]
  BY <1>1
<1> HIDE DEF t
<1>3. ASSUME NEW k \in 1 .. Len(q) + Len(z) PROVE t[k] \in ToSet(q) \cup ToSet(z)
  <2>1. CASE k \in 1 .. Len(q)
    BY <1>1, <1>2, <2>1 DEF ToSet
  <2>2. CASE k \notin 1 .. Len(q)
    <3>1. k - Len(q) \in 1 .. Len(z) /\ k = Len(q) + (k - Len(q))
      BY <1>1, <2>2
    <3>2. t[k] = z[k - Len(q)]
      BY <1>2, <3>1
    <3> QED BY <1>1, <3>1, <3>2 DEF ToSet
  <2> QED BY <2>1, <2>2
<1>4. ToSet(t) \subseteq ToSet(q) \cup ToSet(z)
  BY <1>2, <1>3 DEF ToSet
<1>5. ToSet(q) \subseteq ToSet(t)
  <2>1. \A k \in 1 .. Len(q) : k \in DOMAIN t
    BY <1>1, <1>2
  <2> QED BY <1>1, <1>2, <2>1 DEF ToSet
<1>6. ToSet(z) \subseteq ToSet(t)
  <2>1. ASSUME NEW k \in 1 .. Len(z) PROVE z[k] \in ToSet(t)
    <3>1. Len(q) + k \in 1 .. Len(q) + Len(z)
      OBVIOUS
    <3>2. t[Len(q) + k] = z[k]
      BY <1>2
    <3>3. t[Len(q) + k] \in ToSet(t)
      BY <1>2, <3>1 DEF ToSet
    <3> QED BY <3>2, <3>3
  <2> QED BY <1>1, <2>1 DEF ToSet
<1> QED BY <1>2, <1>4, <1>5, <1>6 DEF t

-----------------------------------------------------------------------------
(* Sequences, element by element *)

\* An element occurs in a sequence; the numbers of a sequence go up, or are all different.
Occurs(q, e) == \E i \in DOMAIN q : q[i] = e
Increasing(q) == \A i, j \in DOMAIN q : i < j => q[i] < q[j]
Distinct(q) == \A i, j \in DOMAIN q : q[i] = q[j] => i = j

\* Nothing occurs in the empty sequence.
LEMMA OccursEmpty == /\ \A e : ~Occurs(<<>>, e)
                     /\ Increasing(<<>>) /\ Distinct(<<>>) /\ <<>> \in Seq(Nat)
  BY DEF Occurs, Increasing, Distinct

\* What is appended occurs, and a sequence of distinct or increasing numbers stays one
\* when the number is new or greater than all.
LEMMA OccursAppend ==
  ASSUME NEW q \in Seq(Nat), NEW e \in Nat
  PROVE  /\ Append(q, e) \in Seq(Nat) /\ Append(q, e) # <<>>
         /\ \A x : Occurs(Append(q, e), x) <=> Occurs(q, x) \/ x = e
         /\ ~Occurs(q, e) /\ Distinct(q) => Distinct(Append(q, e))
         /\ Increasing(q) /\ (\A x : Occurs(q, x) => x < e) => Increasing(Append(q, e))
<1> DEFINE r == Append(q, e)
<1>0. PICK n \in Nat : n = Len(q)
  OBVIOUS
<1>1. /\ r \in Seq(Nat)
      /\ DOMAIN q = 1 .. n /\ DOMAIN r = 1 .. n + 1
      /\ r[n + 1] = e /\ \A i \in 1 .. n : r[i] = q[i] /\ q[i] \in Nat
  BY <1>0
<1>2. r # <<>>
  OBVIOUS
<1> HIDE DEF r
<1>3. ASSUME NEW x PROVE Occurs(r, x) <=> Occurs(q, x) \/ x = e
  <2>1. Occurs(q, x) => Occurs(r, x)
    BY <1>1 DEF Occurs
  <2>2. x = e => Occurs(r, x)
    BY <1>1 DEF Occurs
  <2>3. Occurs(r, x) => Occurs(q, x) \/ x = e
    BY <1>1 DEF Occurs
  <2> QED BY <2>1, <2>2, <2>3
<1>4. ~Occurs(q, e) /\ Distinct(q) => Distinct(r)
  <2> SUFFICES ASSUME ~Occurs(q, e), Distinct(q),
                      NEW i \in 1 .. n + 1, NEW j \in 1 .. n + 1, r[i] = r[j]
               PROVE  i = j
    BY <1>1 DEF Distinct
  <2>1. \A k \in 1 .. n : r[k] # e
    BY <1>1 DEF Occurs
  <2>2. CASE i = n + 1
    BY <1>1, <2>1, <2>2
  <2>3. CASE j = n + 1
    BY <1>1, <2>1, <2>3
  <2>4. CASE i \in 1 .. n /\ j \in 1 .. n
    BY <1>1, <2>4 DEF Distinct
  <2> QED BY <2>2, <2>3, <2>4
<1>5. Increasing(q) /\ (\A x : Occurs(q, x) => x < e) => Increasing(r)
  <2> SUFFICES ASSUME Increasing(q), \A x : Occurs(q, x) => x < e,
                      NEW i \in 1 .. n + 1, NEW j \in 1 .. n + 1, i < j
               PROVE  r[i] < r[j]
    BY <1>1 DEF Increasing
  <2>0. i \in 1 .. n
    OBVIOUS
  <2>1. i \in DOMAIN q /\ r[i] = q[i] /\ q[i] < e
    BY <1>1, <2>0 DEF Occurs
  <2>2. CASE j = n + 1
    BY <1>1, <2>1, <2>2
  <2>3. CASE j \in 1 .. n
    BY <1>1, <2>1, <2>3 DEF Increasing
  <2> QED BY <2>2, <2>3
<1> QED BY <1>1, <1>2, <1>3, <1>4, <1>5 DEF r

\* Taking the head off.
LEMMA OccursTail ==
  ASSUME NEW q \in Seq(Nat), q # <<>>
  PROVE  /\ Head(q) \in Nat /\ Tail(q) \in Seq(Nat)
         /\ \A x : Occurs(q, x) <=> x = Head(q) \/ Occurs(Tail(q), x)
         /\ Distinct(q) => Distinct(Tail(q)) /\ ~Occurs(Tail(q), Head(q))
         /\ Increasing(q) =>
              Increasing(Tail(q)) /\ \A x : Occurs(Tail(q), x) => Head(q) < x
<1> DEFINE r == Tail(q)
           h == Head(q)
<1>0. PICK n \in Nat : n = Len(q) /\ n > 0
  OBVIOUS
<1>1. /\ h \in Nat /\ r \in Seq(Nat)
      /\ DOMAIN q = 1 .. n /\ DOMAIN r = 1 .. n - 1
      /\ h = q[1] /\ \A i \in 1 .. n - 1 : r[i] = q[i + 1]
      /\ \A i \in 1 .. n : q[i] \in Nat
  BY <1>0
<1> HIDE DEF r, h
<1>2. ASSUME NEW x PROVE Occurs(q, x) <=> x = h \/ Occurs(r, x)
  <2>1. x = h => Occurs(q, x)
    <3>1. 1 \in DOMAIN q
      BY <1>0, <1>1
    <3> QED BY <1>1, <3>1 DEF Occurs
  <2>2. Occurs(r, x) => Occurs(q, x)
    <3> SUFFICES ASSUME NEW i \in DOMAIN r, r[i] = x PROVE Occurs(q, x)
      BY DEF Occurs
    <3>0. i \in 1 .. n - 1
      BY <1>1
    <3>2. i + 1 \in 1 .. n
      BY <1>0, <3>0
    <3>1. i + 1 \in DOMAIN q /\ q[i + 1] = x
      BY <1>1, <3>0, <3>2
    <3> QED BY <3>1 DEF Occurs
  <2>3. ASSUME NEW i \in DOMAIN q, q[i] = x PROVE x = h \/ Occurs(r, x)
    <3>1. CASE i = 1
      BY <1>1, <2>3, <3>1
    <3>2. CASE i # 1
      <4>2. i \in 1 .. n
        BY <1>1
      <4>0. i - 1 \in 1 .. n - 1 /\ (i - 1) + 1 = i
        BY <1>0, <3>2, <4>2
      <4>3. i - 1 \in DOMAIN r /\ r[i - 1] = q[(i - 1) + 1]
        BY <1>1, <4>0
      <4>1. i - 1 \in DOMAIN r /\ r[i - 1] = x
        BY <2>3, <4>0, <4>3
      <4> QED BY <4>1 DEF Occurs
    <3> QED BY <3>1, <3>2
  <2> QED BY <2>1, <2>2, <2>3 DEF Occurs
<1>3. Distinct(q) => Distinct(r) /\ ~Occurs(r, h)
  <2> SUFFICES ASSUME Distinct(q) PROVE Distinct(r) /\ ~Occurs(r, h)
    OBVIOUS
  <2>0. \A i \in 1 .. n - 1 : i + 1 \in 1 .. n /\ 1 \in 1 .. n
    OBVIOUS
  <2>1. \A i \in DOMAIN r : i + 1 \in DOMAIN q /\ r[i] = q[i + 1] /\ 1 \in DOMAIN q
    BY <1>1, <2>0
  <2>2. ~Occurs(r, h)
    <3> SUFFICES ASSUME NEW i \in DOMAIN r, r[i] = h PROVE FALSE
      BY DEF Occurs
    <3>1. i + 1 = 1
      BY <1>1, <2>1 DEF Distinct
    <3> QED BY <1>1, <3>1
  <2>3. Distinct(r)
    <3> SUFFICES ASSUME NEW i \in DOMAIN r, NEW j \in DOMAIN r, r[i] = r[j] PROVE i = j
      BY DEF Distinct
    <3>1. i + 1 = j + 1
      BY <2>1 DEF Distinct
    <3> QED BY <1>1, <3>1
  <2> QED BY <2>2, <2>3
<1>4. Increasing(q) => Increasing(r) /\ \A x : Occurs(r, x) => h < x
  <2> SUFFICES ASSUME Increasing(q) PROVE Increasing(r) /\ \A x : Occurs(r, x) => h < x
    OBVIOUS
  <2>0. \A i \in 1 .. n - 1 : i + 1 \in 1 .. n /\ 1 \in 1 .. n /\ 1 < i + 1 /\ i \in Nat
    OBVIOUS
  <2>1. \A i \in DOMAIN r : /\ i + 1 \in DOMAIN q /\ r[i] = q[i + 1] /\ 1 \in DOMAIN q
                            /\ 1 < i + 1 /\ i \in Nat
    BY <1>1, <2>0
  <2>2. \A x : Occurs(r, x) => h < x
    BY <1>1, <2>1 DEF Occurs, Increasing
  <2>3. Increasing(r)
    <3> SUFFICES ASSUME NEW i \in DOMAIN r, NEW j \in DOMAIN r, i < j PROVE r[i] < r[j]
      BY DEF Increasing
    <3>1. i + 1 < j + 1
      BY <2>1
    <3> QED BY <2>1, <3>1 DEF Increasing
  <2> QED BY <2>2, <2>3
<1> QED BY <1>1, <1>2, <1>3, <1>4 DEF r, h

\* A part of a sequence, element by element.
LEMMA Part ==
  ASSUME NEW S, NEW q \in Seq(S), NEW a \in Int, NEW b \in Int, 1 <= a, a <= b + 1, b <= Len(q)
  PROVE  /\ SubSeq(q, a, b) \in Seq(S) /\ Len(SubSeq(q, a, b)) = b - a + 1
         /\ \A k \in 1 .. b - a + 1 : SubSeq(q, a, b)[k] = q[a + k - 1]
<1>1. \A k \in a .. b : q[k] \in S
  OBVIOUS
<1> QED BY <1>1, SubSeqProperties

\* RemoveAt, element by element.
LEMMA WithoutOne ==
  ASSUME NEW S, NEW q \in Seq(S), NEW i \in 1 .. Len(q)
  PROVE  /\ RemoveAt(q, i) \in Seq(S) /\ Len(RemoveAt(q, i)) = Len(q) - 1
         /\ \A k \in 1 .. Len(q) - 1 : RemoveAt(q, i)[k] = IF k < i THEN q[k] ELSE q[k + 1]
<1>0. PICK n \in Nat : n = Len(q) /\ i \in 1 .. n
  OBVIOUS
<1>1. PICK u : u = SubSeq(q, 1, i - 1)
  OBVIOUS
<1>2. PICK v : v = SubSeq(q, i + 1, n)
  OBVIOUS
<1>3. PICK r : r = RemoveAt(q, i) /\ r = u \o v
  BY <1>0, <1>1, <1>2 DEF RemoveAt
<1>4. /\ u \in Seq(S) /\ Len(u) = (i - 1) - 1 + 1
      /\ \A k \in 1 .. (i - 1) - 1 + 1 : u[k] = q[1 + k - 1]
  <2>1. i - 1 \in Int /\ 1 <= (i - 1) + 1 /\ i - 1 <= Len(q) /\ (i - 1) - 1 + 1 = i - 1
    OBVIOUS
  <2> QED BY <1>1, <2>1, Part
<1>5. /\ v \in Seq(S) /\ Len(v) = n - (i + 1) + 1
      /\ \A k \in 1 .. n - (i + 1) + 1 : v[k] = q[(i + 1) + k - 1]
  <2>1. i + 1 \in Int /\ n \in Int /\ 1 <= i + 1 /\ i + 1 <= n + 1 /\ n <= Len(q)
    BY <1>0
  <2> QED BY <1>2, <2>1, Part
<1>6. Len(u) = i - 1 /\ Len(v) = n - i
  BY <1>4, <1>5
<1>7. /\ r \in Seq(S) /\ Len(r) = n - 1
      /\ \A k \in 1 .. n - 1 : r[k] = IF k <= i - 1 THEN u[k] ELSE v[k - (i - 1)]
  <2>1. u \in Seq(S) /\ v \in Seq(S)
    BY <1>4, <1>5
  <2>2. /\ u \o v \in Seq(S) /\ Len(u \o v) = Len(u) + Len(v)
        /\ \A k \in 1 .. Len(u) + Len(v) : (u \o v)[k] = IF k <= Len(u) THEN u[k] ELSE v[k - Len(u)]
    BY <2>1, ConcatProperties
  <2>3. Len(u) + Len(v) = n - 1
    BY <1>6
  <2> QED BY <1>3, <1>6, <2>2, <2>3
<1>8. ASSUME NEW k \in 1 .. n - 1, k < i PROVE r[k] = q[k]
  <2>1. k <= i - 1 /\ k \in 1 .. (i - 1) - 1 + 1 /\ 1 + k - 1 = k
    BY <1>8
  <2>2. u[k] = q[1 + k - 1]
    BY <1>4, <2>1
  <2>3. r[k] = u[k]
    BY <1>7, <2>1
  <2> QED BY <2>1, <2>2, <2>3
<1>9. ASSUME NEW k \in 1 .. n - 1, ~(k < i) PROVE r[k] = q[k + 1]
  <2> DEFINE m == k - (i - 1)
  <2>1. ~(k <= i - 1) /\ m \in 1 .. n - (i + 1) + 1 /\ (i + 1) + m - 1 = k + 1
    BY <1>9
  <2>2. r[k] = v[m]
    BY <1>7, <2>1
  <2> HIDE DEF m
  <2>3. v[m] = q[(i + 1) + m - 1]
    BY <1>5, <2>1
  <2> QED BY <2>1, <2>2, <2>3
<1> QED BY <1>0, <1>3, <1>7, <1>8, <1>9

\* Removing one of distinct numbers takes out that number and no other.
LEMMA RemoveOne ==
  ASSUME NEW q \in Seq(Nat), Distinct(q), NEW i \in DOMAIN q
  PROVE  /\ RemoveAt(q, i) \in Seq(Nat) /\ Distinct(RemoveAt(q, i))
         /\ \A x : Occurs(RemoveAt(q, i), x) <=> Occurs(q, x) /\ x # q[i]
<1>1. PICK n \in Nat : n = Len(q) /\ i \in 1 .. n /\ DOMAIN q = 1 .. n
  OBVIOUS
<1>2. PICK r \in Seq(Nat) :
        /\ r = RemoveAt(q, i) /\ Len(r) = n - 1
        /\ \A k \in 1 .. n - 1 : r[k] = IF k < i THEN q[k] ELSE q[k + 1]
  <2>1. q \in Seq(Nat) /\ i \in 1 .. Len(q)
    BY <1>1
  <2>2. /\ RemoveAt(q, i) \in Seq(Nat) /\ Len(RemoveAt(q, i)) = Len(q) - 1
        /\ \A k \in 1 .. Len(q) - 1 : RemoveAt(q, i)[k] = IF k < i THEN q[k] ELSE q[k + 1]
    BY <2>1, WithoutOne
  <2> QED BY <1>1, <2>2
<1>3. DOMAIN r = 1 .. n - 1
  BY <1>2
<1>4. \A k \in 1 .. n - 1 : k \in Nat /\ k \in 1 .. n /\ k + 1 \in 1 .. n
  BY <1>1
<1>7. \A k \in DOMAIN r :
        /\ k \in Nat
        /\ k < i => k \in DOMAIN q /\ r[k] = q[k]
        /\ ~(k < i) => k + 1 \in DOMAIN q /\ r[k] = q[k + 1]
  BY <1>1, <1>2, <1>3, <1>4
<1>8. Distinct(r)
  <2> SUFFICES ASSUME NEW k \in DOMAIN r, NEW l \in DOMAIN r, r[k] = r[l] PROVE k = l
    BY DEF Distinct
  <2>1. CASE k < i /\ l < i
    BY <1>7, <2>1 DEF Distinct
  <2>2. CASE ~(k < i) /\ ~(l < i)
    <3>1. k + 1 = l + 1
      BY <1>7, <2>2 DEF Distinct
    <3> QED BY <1>7, <3>1
  <2>3. CASE k < i /\ ~(l < i)
    <3>1. k = l + 1
      BY <1>7, <2>3 DEF Distinct
    <3> QED BY <1>1, <1>7, <2>3, <3>1
  <2>4. CASE ~(k < i) /\ l < i
    <3>1. k + 1 = l
      BY <1>7, <2>4 DEF Distinct
    <3> QED BY <1>1, <1>7, <2>4, <3>1
  <2> QED BY <2>1, <2>2, <2>3, <2>4
<1>9. ASSUME NEW x, Occurs(r, x) PROVE Occurs(q, x) /\ x # q[i]
  <2>1. PICK k \in DOMAIN r : r[k] = x
    BY <1>9 DEF Occurs
  <2>2. PICK m \in DOMAIN q : m # i /\ q[m] = x
    <3>1. CASE k < i
      BY <1>1, <1>7, <2>1, <3>1
    <3>2. CASE ~(k < i)
      <4>1. k + 1 \in DOMAIN q /\ k + 1 # i /\ q[k + 1] = x
        BY <1>1, <1>7, <2>1, <3>2
      <4> QED BY <4>1
    <3> QED BY <3>1, <3>2
  <2> QED BY <2>2 DEF Occurs, Distinct
<1>10. ASSUME NEW x, Occurs(q, x), x # q[i] PROVE Occurs(r, x)
  <2>1. PICK k \in DOMAIN q : q[k] = x
    BY <1>10 DEF Occurs
  <2>2. CASE k < i
    <3>1. k \in DOMAIN r /\ r[k] = x
      BY <1>1, <1>2, <1>3, <2>1, <2>2, SMTT(20)
    <3> QED BY <3>1 DEF Occurs
  <2>3. CASE k > i
    <3>1. k - 1 \in 1 .. n - 1 /\ k - 1 >= i /\ (k - 1) + 1 = k
      BY <1>1, <2>3
    <3>2. k - 1 \in DOMAIN r /\ r[k - 1] = x
      BY <1>2, <1>3, <2>1, <3>1
    <3> QED BY <3>2 DEF Occurs
  <2> QED BY <1>1, <1>10, <2>1, <2>2, <2>3
<1> QED BY <1>2, <1>8, <1>9, <1>10

\* Handing the head of a queue over keeps what was got and what is queued together.
LEMMA Handing ==
  ASSUME NEW got \in Seq(Nat), NEW queue \in Seq(Nat)
  PROVE  /\ got \o queue \in Seq(Nat)
         /\ queue # <<>> => Append(got, Head(queue)) \o Tail(queue) = got \o queue
         /\ \A e \in Nat : got \o Append(queue, e) = Append(got \o queue, e)
<1>1. ASSUME queue # <<>> PROVE Append(got, Head(queue)) \o Tail(queue) = got \o queue
  BY <1>1, SeqEqual, SMTT(20)
<1>2. ASSUME NEW e \in Nat PROVE got \o Append(queue, e) = Append(got \o queue, e)
  BY SeqEqual, SMTT(20)
<1> QED BY <1>1, <1>2, ConcatProperties

\* One element of a sequence replaced.
LEMMA Replaced ==
  ASSUME NEW S, NEW q \in Seq(S), NEW d \in DOMAIN q, NEW g \in S
  PROVE  /\ [q EXCEPT ![d] = g] \in Seq(S)
         /\ DOMAIN [q EXCEPT ![d] = g] = DOMAIN q
         /\ [q EXCEPT ![d] = g][d] = g
         /\ \A e \in DOMAIN q : e # d => [q EXCEPT ![d] = g][e] = q[e]
  OBVIOUS

\* A sequence that grew by one.
LEMMA Added ==
  ASSUME NEW S, NEW q \in Seq(S), NEW g \in S
  PROVE  /\ Append(q, g) \in Seq(S) /\ Len(Append(q, g)) = Len(q) + 1
         /\ Len(q) + 1 \notin DOMAIN q /\ Len(q) + 1 \in Nat \ {0}
         /\ DOMAIN Append(q, g) = DOMAIN q \cup {Len(q) + 1}
         /\ Append(q, g)[Len(q) + 1] = g
         /\ \A e \in DOMAIN q : Append(q, g)[e] = q[e]
  OBVIOUS

\* Head and tail as sets and element by element.
LEMMA TakenOff ==
  ASSUME NEW S, NEW q \in Seq(S), q # <<>>
  PROVE  /\ Head(q) \in S /\ Tail(q) \in Seq(S) /\ ToSet(q) = {Head(q)} \cup ToSet(Tail(q))
         /\ Head(q) = q[1] /\ 1 \in DOMAIN q
         /\ \A i \in DOMAIN Tail(q) : /\ Tail(q)[i] = q[i + 1] /\ i + 1 \in DOMAIN q
                                      /\ i \in Nat /\ 1 < i + 1
<1>1. /\ Len(q) \in Nat \ {0} /\ DOMAIN q = 1 .. Len(q) /\ DOMAIN Tail(q) = 1 .. Len(q) - 1
      /\ Head(q) \in S /\ Tail(q) \in Seq(S) /\ Head(q) = q[1]
      /\ \A i \in 1 .. Len(q) - 1 : Tail(q)[i] = q[i + 1]
  OBVIOUS
<1>2. ASSUME NEW i \in 1 .. Len(q), i # 1 PROVE i - 1 \in DOMAIN Tail(q) /\ Tail(q)[i - 1] = q[i]
  BY <1>1, <1>2
<1>3. \A x \in ToSet(q) : x \in {Head(q)} \cup ToSet(Tail(q))
  <2> SUFFICES ASSUME NEW i \in 1 .. Len(q), q[i] # Head(q) PROVE q[i] \in ToSet(Tail(q))
    BY <1>1 DEF ToSet
  <2>1. i - 1 \in DOMAIN Tail(q) /\ Tail(q)[i - 1] = q[i]
    BY <1>1, <1>2
  <2> QED BY <2>1 DEF ToSet
<1>4. \A x \in ToSet(Tail(q)) : x \in ToSet(q)
  <2> SUFFICES ASSUME NEW i \in DOMAIN Tail(q) PROVE Tail(q)[i] \in ToSet(q)
    BY DEF ToSet
  <2>1. i + 1 \in DOMAIN q /\ Tail(q)[i] = q[i + 1]
    BY <1>1
  <2> QED BY <2>1 DEF ToSet
<1>5. Head(q) \in ToSet(q)
  BY <1>1 DEF ToSet
<1> QED BY <1>1, <1>3, <1>4, <1>5

\* The same of Append.
LEMMA PutOn ==
  ASSUME NEW S, NEW q \in Seq(S), NEW e \in S
  PROVE  /\ Append(q, e) \in Seq(S) /\ ToSet(Append(q, e)) = ToSet(q) \cup {e}
         /\ \A i \in DOMAIN Append(q, e) : \/ i \in DOMAIN q /\ Append(q, e)[i] = q[i] /\ i <= Len(q)
                                           \/ i = Len(q) + 1 /\ Append(q, e)[i] = e
<1> DEFINE r == Append(q, e)
<1>1. /\ r \in Seq(S) /\ Len(q) \in Nat /\ DOMAIN q = 1 .. Len(q) /\ DOMAIN r = 1 .. Len(q) + 1
      /\ r[Len(q) + 1] = e /\ \A i \in 1 .. Len(q) : r[i] = q[i]
  OBVIOUS
<1> HIDE DEF r
<1>2. \A i \in DOMAIN r : (i \in DOMAIN q /\ r[i] = q[i] /\ i <= Len(q)) \/ (i = Len(q) + 1 /\ r[i] = e)
  BY <1>1
<1>3. \A i \in DOMAIN q : i \in DOMAIN r /\ r[i] = q[i]
  BY <1>1
<1>4. Len(q) + 1 \in DOMAIN r
  BY <1>1
<1>5. ToSet(r) = ToSet(q) \cup {e}
  BY <1>1, <1>2, <1>3, <1>4 DEF ToSet
<1> QED BY <1>1, <1>2, <1>5 DEF r

\* r is q with e put at place i.
PutAt(r, q, i, e) ==
  \A k \in DOMAIN r : /\ k \in Nat
                      /\ k < i => k \in DOMAIN q /\ r[k] = q[k]
                      /\ k = i => r[k] = e
                      /\ k > i => k - 1 \in DOMAIN q /\ r[k] = q[k - 1]

\* InsertAt, element by element.
LEMMA PutBetween ==
  ASSUME NEW S, NEW q \in Seq(S), NEW i \in 1 .. Len(q) + 1, NEW e \in S
  PROVE  InsertAt(q, i, e) \in Seq(S) /\ PutAt(InsertAt(q, i, e), q, i, e)
<1>1. PICK n \in Nat : n = Len(q) /\ i \in 1 .. n + 1 /\ DOMAIN q = 1 .. n
  OBVIOUS
<1>2. PICK u : u = SubSeq(q, 1, i - 1)
  OBVIOUS
<1>3. PICK v : v = SubSeq(q, i, n)
  OBVIOUS
<1>4. PICK r : r = InsertAt(q, i, e) /\ r = u \o <<e>> \o v
  BY <1>1, <1>2, <1>3 DEF InsertAt
<1>5. /\ u \in Seq(S) /\ Len(u) = i - 1 /\ \A k \in 1 .. i - 1 : u[k] = q[k]
  <2>1. \A k \in 1 .. i - 1 : q[k] \in S
    BY <1>1
  <2>2. /\ u \in Seq(S) /\ Len(u) = IF 1 <= i - 1 THEN (i - 1) - 1 + 1 ELSE 0
        /\ \A k \in 1 .. (i - 1) - 1 + 1 : u[k] = q[1 + k - 1]
    BY <1>1, <1>2, <2>1, SubSeqProperties
  <2> QED BY <1>1, <2>2
<1>6. /\ v \in Seq(S) /\ Len(v) = n - i + 1 /\ \A k \in 1 .. n - i + 1 : v[k] = q[i + k - 1]
  <2>1. \A k \in i .. n : q[k] \in S
    BY <1>1
  <2>2. /\ v \in Seq(S) /\ Len(v) = IF i <= n THEN n - i + 1 ELSE 0
        /\ \A k \in 1 .. n - i + 1 : v[k] = q[i + k - 1]
    BY <1>1, <1>3, <2>1, SubSeqProperties
  <2> QED BY <1>1, <2>2
<1>7. PICK w \in Seq(S) : w = u \o <<e>> /\ Len(w) = i /\ w[i] = e /\ \A k \in 1 .. i - 1 : w[k] = q[k]
  <2>1. <<e>> \in Seq(S) /\ Len(<<e>>) = 1 /\ <<e>>[1] = e
    OBVIOUS
  <2>2. PICK w : w = u \o <<e>>
    OBVIOUS
  <2>3. /\ w \in Seq(S) /\ Len(w) = (i - 1) + 1
        /\ \A k \in 1 .. (i - 1) + 1 : w[k] = IF k <= i - 1 THEN u[k] ELSE <<e>>[k - (i - 1)]
    BY <1>1, <1>5, <2>1, <2>2, ConcatProperties
  <2>4. i - (i - 1) = 1 /\ i \in 1 .. (i - 1) + 1 /\ ~(i <= i - 1)
    BY <1>1
  <2>5. w[i] = e
    BY <2>1, <2>3, <2>4
  <2>6. \A k \in 1 .. i - 1 : w[k] = q[k]
    BY <1>1, <1>5, <2>3
  <2>7. Len(w) = i
    BY <1>1, <2>3
  <2> QED BY <2>2, <2>3, <2>5, <2>6, <2>7
<1>8. /\ r \in Seq(S) /\ Len(r) = i + (n - i + 1)
      /\ \A k \in 1 .. i + (n - i + 1) : r[k] = IF k <= i THEN w[k] ELSE v[k - i]
  <2>1. r = w \o v /\ w \in Seq(S) /\ v \in Seq(S) /\ Len(w) = i /\ Len(v) = n - i + 1
    BY <1>4, <1>6, <1>7
  <2>2. /\ w \o v \in Seq(S) /\ Len(w \o v) = Len(w) + Len(v)
        /\ \A k \in 1 .. Len(w) + Len(v) : (w \o v)[k] = IF k <= Len(w) THEN w[k] ELSE v[k - Len(w)]
    <3>1. w \in Seq(S) /\ v \in Seq(S)
      BY <2>1
    <3> QED BY <3>1, ConcatProperties
  <2> QED BY <2>1, <2>2
<1>9. DOMAIN r = 1 .. n + 1
  BY <1>1, <1>8
<1>10. ASSUME NEW k \in 1 .. n + 1, k < i PROVE k \in DOMAIN q /\ r[k] = q[k]
  <2>1. k \in 1 .. i - 1 /\ k <= i /\ k \in 1 .. n /\ k \in 1 .. i + (n - i + 1)
    BY <1>1, <1>10
  <2>2. r[k] = w[k]
    BY <1>8, <2>1
  <2> QED BY <1>1, <1>7, <2>1, <2>2
<1>11. ASSUME NEW k \in 1 .. n + 1, k = i PROVE r[k] = e
  <2>1. k <= i /\ k \in 1 .. i + (n - i + 1)
    BY <1>1, <1>11
  <2> QED BY <1>7, <1>8, <1>11, <2>1
<1>12. ASSUME NEW k \in 1 .. n + 1, k > i PROVE k - 1 \in DOMAIN q /\ r[k] = q[k - 1]
  <2>1. k - i \in 1 .. n - i + 1 /\ i + (k - i) - 1 = k - 1 /\ ~(k <= i) /\ k - 1 \in 1 .. n
    BY <1>1, <1>12
  <2>2. r[k] = v[k - i]
    BY <1>8, <2>1
  <2> QED BY <1>1, <1>6, <2>1, <2>2
<1>13. PutAt(r, q, i, e)
  BY <1>1, <1>9, <1>10, <1>11, <1>12 DEF PutAt
<1> QED BY <1>4, <1>8, <1>13

\* What RemoveAt leaves was there.
LEMMA Shorter ==
  ASSUME NEW S, NEW q \in Seq(S), NEW i \in DOMAIN q
  PROVE  /\ RemoveAt(q, i) \in Seq(S)
         /\ \A k \in DOMAIN RemoveAt(q, i) : \E m \in DOMAIN q : RemoveAt(q, i)[k] = q[m]
<1>1. PICK n \in Nat : n = Len(q) /\ i \in 1 .. n /\ DOMAIN q = 1 .. n
  OBVIOUS
<1>2. PICK r \in Seq(S) :
        /\ r = RemoveAt(q, i) /\ Len(r) = n - 1
        /\ \A k \in 1 .. n - 1 : r[k] = IF k < i THEN q[k] ELSE q[k + 1]
  <2>1. q \in Seq(S) /\ i \in 1 .. Len(q)
    BY <1>1
  <2>2. /\ RemoveAt(q, i) \in Seq(S) /\ Len(RemoveAt(q, i)) = Len(q) - 1
        /\ \A k \in 1 .. Len(q) - 1 : RemoveAt(q, i)[k] = IF k < i THEN q[k] ELSE q[k + 1]
    BY <2>1, WithoutOne
  <2> QED BY <1>1, <2>2
<1>3. ASSUME NEW k \in DOMAIN r PROVE \E m \in DOMAIN q : r[k] = q[m]
  <2>1. k \in 1 .. n - 1 /\ k \in DOMAIN q /\ k + 1 \in DOMAIN q
    BY <1>1, <1>2
  <2> QED BY <1>2, <2>1
<1> QED BY <1>2, <1>3
=============================================================================
