------------------------- MODULE MemoryServicesProofs -------------------------
(***************************************************************************)
(* Proofs about the parts that keep what was said and learnt, for every    *)
(* value of the constants: the conversation and its compaction, the record *)
(* of the cached prefix, the watch over the hit rate, the log, the wiki    *)
(* and the skills.  For each its invariants are proved of its own          *)
(* specification, from an inductive one; the last section carries them     *)
(* over to the parts side by side (MemoryServices).                        *)
(***************************************************************************)
EXTENDS MemoryServices, DataLemmas, SequenceTheorems, TLAPS

-----------------------------------------------------------------------------
(* The conversation and its compaction *)

\* A message of the conversation, or a summary.
Messages == [id : Nat, kind : Kinds \cup {"summary"}, size : Sizes]

\* h is a beginning of q.
Begins(h, q) == Len(h) <= Len(q) /\ \A i \in 1 .. Len(h) : h[i] = q[i]

\* A message of the conversation has its own number, a summary has none.
Numbered(q, n) ==
  \A i \in DOMAIN q :
    /\ q[i].id <= n /\ (q[i].id = 0 <=> q[i].kind = "summary")
    /\ \A j \in DOMAIN q : q[i].id = q[j].id => i = j \/ q[i].id = 0

\* The inductive invariant: what is held begins the history, and the numbers tell the
\* messages apart.
ContextInv ==
  /\ said \in Nat /\ history \in Seq(Messages) /\ held \in Seq(Messages)
  /\ Begins(held, history) /\ Numbered(history, said)

\* What From leaves of a sequence.
LEMMA Suffix ==
  ASSUME NEW S, NEW q \in Seq(S), NEW c \in 0 .. Len(q)
  PROVE  /\ From(q, c) \in Seq(S) /\ Len(From(q, c)) = Len(q) - c
         /\ \A k \in 1 .. Len(q) - c : From(q, c)[k] = q[c + k]
<1>1. PICK n \in Nat : n = Len(q) /\ DOMAIN q = 1 .. n
  OBVIOUS
<1>2. PICK r : r = From(q, c) /\ r = SubSeq(q, c + 1, n)
  BY <1>1 DEF From
<1>3. \A k \in c + 1 .. n : q[k] \in S
  BY <1>1
<1>4. /\ r \in Seq(S) /\ Len(r) = IF c + 1 <= n THEN n - (c + 1) + 1 ELSE 0
      /\ \A k \in 1 .. n - (c + 1) + 1 : r[k] = q[(c + 1) + k - 1]
  BY <1>1, <1>2, <1>3, SubSeqProperties
<1>5. Len(r) = n - c
  BY <1>1, <1>4
<1>6. ASSUME NEW k \in 1 .. n - c PROVE r[k] = q[c + k]
  <2>1. k \in 1 .. n - (c + 1) + 1 /\ (c + 1) + k - 1 = c + k
    BY <1>1
  <2> QED BY <1>4, <2>1
<1> QED BY <1>1, <1>2, <1>4, <1>5, <1>6

\* Min of a set of numbers is its least member.
LEMMA Least == ASSUME NEW T \in SUBSET Nat, T # {} PROVE Min(T) \in T /\ \A x \in T : Min(T) <= x
  BY LeastNumber DEF Min

\* Max of a bounded set is its greatest member.
LEMMA Greatest ==
  ASSUME NEW n \in Nat, NEW T \in SUBSET (0 .. n), T # {}
  PROVE  Max(T) \in T /\ \A x \in T : x <= Max(T)
<1>1. PICK m \in T : \A y \in T : y <= m
  BY GreatestNumber
<1>2. \A y \in T : m >= y
  BY <1>1
<1>3. Max(T) \in T /\ \A y \in T : Max(T) >= y
  BY <1>1, <1>2 DEF Max
<1> QED BY <1>3

\* Where the recent turns begin: in front of a message of the user, with more turns
\* behind it than are kept, or at the start.
LEMMA KeepFromIs ==
  ASSUME NEW q \in Seq(Messages)
  PROVE  /\ KeepFrom(q) \in 0 .. Len(q)
         /\ \/ KeepFrom(q) = 0
            \/ \E u \in UserTurns(q) : /\ KeepFrom(q) = u - 1
                                   /\ Cardinality({v \in UserTurns(q) : v >= u}) > KeepRecentTurns
<1> DEFINE W == {u \in UserTurns(q) : Cardinality({v \in UserTurns(q) : v >= u}) > KeepRecentTurns}
           T == {0} \cup {i - 1 : i \in W}
<1>1. Len(q) \in Nat /\ UserTurns(q) \subseteq 1 .. Len(q)
  BY DEF UserTurns
<1>2. W \subseteq 1 .. Len(q) /\ KeepFrom(q) = Max(T)
  BY <1>1 DEF KeepFrom
<1>3. \A u \in W : u \in UserTurns(q) /\ Cardinality({v \in UserTurns(q) : v >= u}) > KeepRecentTurns
  OBVIOUS
<1> HIDE DEF W
<1>4. T \in SUBSET (0 .. Len(q)) /\ T # {}
  BY <1>1, <1>2
<1>5. Max(T) \in T
  BY <1>1, <1>4, Greatest
<1> QED BY <1>2, <1>3, <1>4, <1>5

\* What is folded ends before the recent turns.
LEMMA CutIs ==
  ASSUME NEW q \in Seq(Messages)
  PROVE  Cut(q) \in Nat /\ Cut(q) <= KeepFrom(q)
<1> DEFINE T == {c \in 0 .. KeepFrom(q) : c = KeepFrom(q) \/ Estimate(From(q, c)) < Budget - Target}
<1>1. KeepFrom(q) \in Nat
  BY KeepFromIs
<1>2. T \in SUBSET Nat /\ KeepFrom(q) \in T
  BY <1>1
<1>3. Cut(q) = Min(T)
  BY DEF Cut
<1> HIDE DEF T
<1>4. Min(T) \in T /\ Min(T) <= KeepFrom(q)
  BY <1>2, Least
<1> QED BY <1>2, <1>3, <1>4

\* Truncating drops a beginning, but not the newest message.
LEMMA TruncatedIs ==
  ASSUME NEW q \in Seq(Messages)
  PROVE  \E c \in 0 .. Len(q) : Truncated(q) = From(q, c) /\ (q # <<>> => c < Len(q))
<1> DEFINE last == Max({0, Len(q) - 1})
           T == {c \in 0 .. last : c = last \/ Estimate(From(q, c)) <= Budget}
<1>1. Len(q) \in Nat /\ (q # <<>> => Len(q) > 0) /\ (q = <<>> => Len(q) = 0)
  OBVIOUS
<1>2. last \in 0 .. Len(q) /\ (q # <<>> => last < Len(q))
  <2>1. CASE q = <<>>
    <3>1. PICK T0 : T0 = {0, Len(q) - 1}
      OBVIOUS
    <3>2. \A x \in T0 : 0 >= x
      BY <1>1, <2>1, <3>1
    <3>3. 0 \in T0 /\ Max(T0) \in T0 /\ \A x \in T0 : Max(T0) >= x
      BY <3>1, <3>2 DEF Max
    <3>4. T0 = {0, -1}
      BY <1>1, <2>1, <3>1
    <3>5. Max(T0) = 0
      BY <3>3, <3>4
    <3> QED BY <1>1, <2>1, <3>1, <3>5
  <2>2. CASE q # <<>>
    <3>1. {0, Len(q) - 1} \in SUBSET (0 .. Len(q) - 1) /\ Len(q) - 1 \in Nat
      BY <1>1, <2>2
    <3>2. last \in {0, Len(q) - 1}
      BY <3>1, Greatest
    <3> QED BY <1>1, <2>2, <3>1, <3>2
  <2> QED BY <2>1, <2>2
<1>3. Truncated(q) = From(q, Min(T))
  BY DEF Truncated
<1> HIDE DEF last
<1>4. T \in SUBSET Nat /\ last \in T
  BY <1>1, <1>2
<1>5. Min(T) \in T
  BY <1>4, Least
<1>6. Min(T) \in 0 .. last
  BY <1>5
<1>7. Min(T) \in 0 .. Len(q) /\ (q # <<>> => Min(T) < Len(q))
  BY <1>1, <1>2, <1>6
<1> HIDE DEF T
<1> QED BY <1>3, <1>7

\* The chosen elements of a sequence, in its order and all of them.
LEMMA PickedIs ==
  ASSUME NEW S, NEW q \in Seq(S), NEW I \in SUBSET DOMAIN q, NEW p \in Picked(q, I)
  PROVE  /\ p \in Seq(S)
         /\ \E f \in [1 .. Len(p) -> I] :
              /\ \A k \in 1 .. Len(p) : p[k] = q[f[k]]
              /\ \A k, l \in 1 .. Len(p) : k < l => f[k] < f[l]
              /\ \A i \in I : \E k \in 1 .. Len(p) : f[k] = i
<1>1. IsFiniteSet(DOMAIN q) /\ IsFiniteSet(I) /\ Cardinality(I) \in Nat
  <2>1. DOMAIN q = 1 .. Len(q) /\ Len(q) \in Nat
    OBVIOUS
  <2>2. IsFiniteSet(DOMAIN q)
    BY <2>1, FS_Interval
  <2> QED BY <2>2, FS_Subset, FS_CardinalityType
<1>2. PICK n \in Nat : n = Cardinality(I)
  BY <1>1
<1>3. PICK f \in [1 .. n -> I] : /\ \A k, l \in 1 .. n : k < l => f[k] < f[l]
                                 /\ p = [k \in 1 .. n |-> q[f[k]]]
  BY <1>2 DEF Picked
<1>4. \A k \in 1 .. n : f[k] \in DOMAIN q /\ q[f[k]] \in S /\ f[k] \in Int
  BY <1>3
<1>5. p \in [1 .. n -> S]
  BY <1>3, <1>4
<1>6. p \in Seq(S) /\ Len(p) = n
  BY <1>2, <1>5, SeqDef
<1>7. f \in Injection(1 .. n, I)
  <2>1. ASSUME NEW k \in 1 .. n, NEW l \in 1 .. n, f[k] = f[l] PROVE k = l
    BY <1>3, <1>4, <2>1
  <2> QED BY <1>3, <2>1 DEF Injection, IsInjective
<1>8. Cardinality(1 .. n) = n
  BY <1>2, FS_Interval
<1>9. f \in Surjection(1 .. n, I)
  BY <1>1, <1>2, <1>7, <1>8, FS_Injection
<1>10. \A i \in I : \E k \in 1 .. n : f[k] = i
  BY <1>9 DEF Surjection
<1> QED BY <1>3, <1>6, <1>10

\* What folding leaves: a summary or none, and the tail.
LEMMA CompactedIs ==
  ASSUME NEW q \in Seq(Messages), NEW cut \in 0 .. Len(q), NEW compacted,
         \/ compacted = From(q, cut)
         \/ \E s \in Sizes : compacted = <<[id |-> 0, kind |-> "summary", size |-> s]>> \o From(q, cut)
  PROVE  /\ compacted \in Seq(Messages)
         /\ \E h \in {0, 1} :
              /\ Len(compacted) = h + (Len(q) - cut)
              /\ \A k \in 1 .. Len(q) - cut : compacted[h + k] = q[cut + k]
              /\ h = 1 => compacted[1].id = 0 /\ compacted[1].kind = "summary"
<1>1. PICK n \in Nat : n = Len(q) - cut
  OBVIOUS
<1>2. PICK tail : tail = From(q, cut)
  OBVIOUS
<1>5. tail \in Seq(Messages) /\ Len(tail) = n /\ \A k \in 1 .. n : tail[k] = q[cut + k]
  <2>1. /\ From(q, cut) \in Seq(Messages) /\ Len(From(q, cut)) = Len(q) - cut
        /\ \A k \in 1 .. Len(q) - cut : From(q, cut)[k] = q[cut + k]
    BY Suffix
  <2> QED BY <1>1, <1>2, <2>1
<1>3. CASE compacted = From(q, cut)
  <2>1. compacted = tail
    BY <1>2, <1>3
  <2>2. \A k \in 1 .. n : compacted[0 + k] = q[cut + k]
    BY <1>5, <2>1
  <2>3. compacted \in Seq(Messages) /\ Len(compacted) = 0 + (Len(q) - cut) /\ ~(0 = 1)
    BY <1>1, <1>5, <2>1
  <2> QED BY <1>1, <2>2, <2>3
<1>4. ASSUME NEW s \in Sizes,
             compacted = <<[id |-> 0, kind |-> "summary", size |-> s]>> \o From(q, cut)
      PROVE  /\ compacted \in Seq(Messages) /\ Len(compacted) = 1 + n
             /\ \A k \in 1 .. n : compacted[1 + k] = q[cut + k]
             /\ compacted[1].id = 0 /\ compacted[1].kind = "summary"
  <2>1. PICK m : m = [id |-> 0, kind |-> "summary", size |-> s]
    OBVIOUS
  <2>6. m \in Messages /\ m.id = 0 /\ m.kind = "summary"
    BY <2>1 DEF Messages
  <2>7. PICK u : u = <<m>>
    OBVIOUS
  <2>2. u \in Seq(Messages) /\ Len(u) = 1 /\ u[1] = m
    BY <2>6, <2>7
  <2>3. compacted = u \o tail
    BY <1>2, <1>4, <2>1, <2>7
  <2>4. /\ compacted \in Seq(Messages) /\ Len(compacted) = Len(u) + Len(tail)
        /\ \A k \in 1 .. Len(u) : compacted[k] = u[k]
        /\ \A k \in 1 .. Len(tail) : compacted[Len(u) + k] = tail[k]
    <3>1. /\ u \o tail \in Seq(Messages) /\ Len(u \o tail) = Len(u) + Len(tail)
          /\ \A k \in 1 .. Len(u) : (u \o tail)[k] = u[k]
          /\ \A k \in 1 .. Len(tail) : (u \o tail)[Len(u) + k] = tail[k]
      <4>1. u \in Seq(Messages) /\ tail \in Seq(Messages)
        BY <1>5, <2>2
      <4> QED BY <4>1, ConcatElements
    <3> QED BY <2>3, <3>1
  <2>5. compacted[1] = m
    BY <2>2, <2>4
  <2> QED BY <1>5, <2>2, <2>4, <2>5, <2>6
<1> QED BY <1>1, <1>3, <1>4

\* What a folding makes of a history ends like it, and has all of its key results.
EndsLike(q, cut, r) ==
  /\ Len(q) - cut <= Len(r)
  /\ \A k \in 1 .. Len(q) - cut : r[Len(r) - (Len(q) - cut) + k] = q[cut + k]
  /\ \A i \in DOMAIN q : q[i].kind = "failed" => \E k \in DOMAIN r : r[k] = q[i]

\* A folded history has the messages of the old one with their numbers, ends like it,
\* and has all of its failed results.
LEMMA Folding ==
  ASSUME NEW q \in Seq(Messages), NEW n \in Nat, Numbered(q, n), NEW cut \in 0 .. Len(q),
         NEW compacted,
         \/ compacted = From(q, cut)
         \/ \E s \in Sizes : compacted = <<[id |-> 0, kind |-> "summary", size |-> s]>> \o From(q, cut),
         NEW r \in PreserveKeyResults(q, compacted, cut)
  PROVE  /\ r \in Seq(Messages) /\ Numbered(r, n)
         /\ EndsLike(q, cut, r)
<1> DEFINE I == Missing(q, compacted, cut)
<1>1. PICK t \in Nat : t = Len(q) - cut /\ cut + t = Len(q) /\ DOMAIN q = 1 .. cut + t
  OBVIOUS
<1>2. PICK h \in {0, 1} :
        /\ compacted \in Seq(Messages) /\ Len(compacted) = h + t
        /\ \A k \in 1 .. t : compacted[h + k] = q[cut + k]
        /\ h = 1 => compacted[1].id = 0 /\ compacted[1].kind = "summary"
  BY <1>1, CompactedIs
<1>3. PICK p \in Picked(q, I) : r = p \o compacted
  BY DEF PreserveKeyResults
<1>4. I \in SUBSET DOMAIN q
  BY DEF Missing
<1>5. /\ p \in Seq(Messages)
      /\ \E f \in [1 .. Len(p) -> I] :
           /\ \A k \in 1 .. Len(p) : p[k] = q[f[k]]
           /\ \A k, l \in 1 .. Len(p) : k < l => f[k] < f[l]
           /\ \A i \in I : \E k \in 1 .. Len(p) : f[k] = i
  <2> HIDE DEF I
  <2>1. PICK J \in SUBSET DOMAIN q : J = I /\ p \in Picked(q, J)
    BY <1>3, <1>4
  <2>2. /\ p \in Seq(Messages)
        /\ \E f \in [1 .. Len(p) -> J] :
             /\ \A k \in 1 .. Len(p) : p[k] = q[f[k]]
             /\ \A k, l \in 1 .. Len(p) : k < l => f[k] < f[l]
             /\ \A i \in J : \E k \in 1 .. Len(p) : f[k] = i
    BY <2>1, PickedIs
  <2> QED BY <2>1, <2>2
<1>6. PICK m \in Nat : m = Len(p)
  BY <1>5
<1>7. PICK f \in [1 .. m -> I] :
        /\ \A k \in 1 .. m : p[k] = q[f[k]]
        /\ \A k, l \in 1 .. m : k < l => f[k] < f[l]
        /\ \A i \in I : \E k \in 1 .. m : f[k] = i
  BY <1>5, <1>6
<1>8. /\ r \in Seq(Messages) /\ Len(r) = m + (h + t) /\ DOMAIN r = 1 .. m + (h + t)
      /\ \A k \in 1 .. m : r[k] = p[k]
      /\ \A k \in 1 .. h + t : r[m + k] = compacted[k]
  <2>1. /\ r \in Seq(Messages) /\ Len(r) = Len(p) + Len(compacted)
        /\ \A k \in 1 .. Len(p) : r[k] = p[k]
        /\ \A k \in 1 .. Len(compacted) : r[Len(p) + k] = compacted[k]
    <3>1. p \in Seq(Messages) /\ compacted \in Seq(Messages)
      BY <1>2, <1>5
    <3> QED BY <1>3, <3>1, ConcatElements
  <2>2. DOMAIN r = 1 .. Len(r)
    BY <2>1
  <2> QED BY <1>2, <1>6, <2>1, <2>2
<1>9. \A k \in 1 .. m : f[k] \in 1 .. cut /\ f[k] \in DOMAIN q /\ r[k] = q[f[k]]
  <2>1. \A i \in I : i \in DOMAIN q /\ i <= cut
    BY DEF Missing
  <2> HIDE DEF I
  <2>2. \A i \in I : i \in 1 .. cut /\ i \in DOMAIN q
    BY <1>1, <2>1
  <2> QED BY <1>7, <1>8, <2>2
<1>10. \A k \in 1 .. t : (m + h) + k \in DOMAIN r /\ r[(m + h) + k] = q[cut + k] /\ cut + k \in DOMAIN q
  <2> SUFFICES ASSUME NEW k \in 1 .. t
               PROVE  (m + h) + k \in DOMAIN r /\ r[(m + h) + k] = q[cut + k] /\ cut + k \in DOMAIN q
    OBVIOUS
  <2>1. h \in Nat
    BY <1>2
  <2>2. h + k \in 1 .. h + t /\ m + (h + k) = (m + h) + k /\ (m + h) + k \in 1 .. m + (h + t)
    BY <2>1
  <2>3. r[(m + h) + k] = compacted[h + k]
    BY <1>8, <2>2
  <2>4. compacted[h + k] = q[cut + k] /\ cut + k \in DOMAIN q
    BY <1>1, <1>2
  <2> QED BY <1>8, <2>2, <2>3, <2>4
<1>11. h = 1 => r[m + 1].id = 0 /\ r[m + 1].kind = "summary"
  BY <1>2, <1>8
<1>12. ASSUME NEW k \in DOMAIN r
       PROVE  \/ k \in 1 .. m
              \/ h = 1 /\ k = m + 1
              \/ \E j \in 1 .. t : k = (m + h) + j
  <2>1. k \in 1 .. m + (h + t) /\ h \in {0, 1}
    BY <1>8
  <2>2. k > m + h => k - (m + h) \in 1 .. t /\ k = (m + h) + (k - (m + h))
    BY <2>1
  <2>3. k > m + h => \E j \in 1 .. t : k = (m + h) + j
    BY <2>2
  <2>4. ~(k > m + h) => k \in 1 .. m \/ (h = 1 /\ k = m + 1)
    BY <2>1
  <2> QED BY <2>3, <2>4
<1>13. \A k \in DOMAIN r : \/ r[k].id = 0 /\ r[k].kind = "summary"
                          \/ \E i \in DOMAIN q : r[k] = q[i]
  BY <1>9, <1>10, <1>11, <1>12
<1>14. \A k \in DOMAIN r : r[k].id <= n /\ (r[k].id = 0 <=> r[k].kind = "summary")
  BY <1>13 DEF Numbered
<1>15. ASSUME NEW k \in DOMAIN r, NEW l \in DOMAIN r, r[k].id = r[l].id, r[k].id # 0
       PROVE  k = l
  <2>0. \A i, j \in DOMAIN q : q[i].id = q[j].id /\ q[i].id # 0 => i = j
    BY DEF Numbered
  <2>1. CASE k \in 1 .. m /\ l \in 1 .. m
    <3>1. f[k] = f[l] /\ f[k] \in Int
      BY <1>9, <1>15, <2>0, <2>1
    <3> QED BY <1>7, <2>1, <3>1
  <2>2. ASSUME NEW i \in 1 .. m, NEW j \in 1 .. t, r[i].id = r[(m + h) + j].id, r[i].id # 0
        PROVE  FALSE
    <3>1. f[i] = cut + j
      BY <1>9, <1>10, <2>0, <2>2
    <3>2. f[i] <= cut
      BY <1>9
    <3> QED BY <3>1, <3>2
  <2>3. ASSUME NEW i \in 1 .. t, NEW j \in 1 .. t, r[(m + h) + i].id = r[(m + h) + j].id, r[(m + h) + i].id # 0
        PROVE  i = j
    <3>1. cut + i = cut + j
      BY <1>10, <2>0, <2>3
    <3> QED BY <3>1
  <2> QED BY <1>11, <1>12, <1>15, <2>1, <2>2, <2>3
<1>16. Numbered(r, n)
  BY <1>14, <1>15 DEF Numbered
<1>17. t <= Len(r) /\ \A k \in 1 .. t : r[Len(r) - t + k] = q[cut + k]
  <2>1. t <= Len(r) /\ Len(r) - t = m + h
    BY <1>8
  <2> QED BY <1>10, <2>1
<1>18. ASSUME NEW i \in DOMAIN q, q[i].kind = "failed" PROVE \E k \in DOMAIN r : r[k] = q[i]
  <2>1. CASE i > cut
    <3>1. i - cut \in 1 .. t /\ cut + (i - cut) = i
      BY <1>1, <2>1
    <3> QED BY <1>10, <3>1
  <2>2. CASE i \in I
    <3>1. PICK k \in 1 .. m : f[k] = i
      BY <1>7, <2>2
    <3>2. k \in DOMAIN r /\ r[k] = q[i]
      BY <1>8, <1>9, <3>1
    <3> QED BY <3>2
  <2>3. CASE i <= cut /\ i \notin I
    <3>1. PICK j \in DOMAIN compacted : compacted[j].id = q[i].id
      BY <1>18, <2>3 DEF Missing
    <3>2. q[i].id # 0
      BY <1>18 DEF Numbered
    <3>3. j \in 1 .. h + t /\ ~(h = 1 /\ j = 1)
      BY <1>2, <3>1, <3>2
    <3>4. j - h \in 1 .. t /\ h + (j - h) = j
      BY <3>3
    <3>7. PICK k \in 1 .. t : h + k = j
      BY <3>4
    <3>5. q[cut + k].id = q[i].id /\ cut + k \in DOMAIN q
      BY <1>1, <1>2, <3>1, <3>7
    <3>6. i = cut + k
      BY <3>2, <3>5 DEF Numbered
    <3> QED BY <2>3, <3>7, <3>6
  <2> QED BY <1>1, <2>1, <2>2, <2>3
<1>19. EndsLike(q, cut, r)
  BY <1>1, <1>17, <1>18 DEF EndsLike
<1> QED BY <1>8, <1>16, <1>19

\* Nothing was said at first.
LEMMA ContextInvFirst == ContextInit => ContextInv
<1> SUFFICES ASSUME ContextInit PROVE ContextInv
  OBVIOUS
<1>1. /\ history = <<>> /\ held = <<>> /\ said = 0 /\ <<>> \in Seq(Messages)
      /\ DOMAIN history = {} /\ Len(held) = 0 /\ Len(history) = 0 /\ 1 .. Len(held) = {}
  BY DEF ContextInit
<1> QED BY <1>1 DEF ContextInv, Begins, Numbered

\* A new message gets the next number and goes to the end.
LEMMA AppendKeeps == ContextInv /\ Append1 => ContextInv'
<1> SUFFICES ASSUME ContextInv, Append1 PROVE ContextInv'
  OBVIOUS
<1>1. PICK k \in Kinds, s \in Sizes :
        /\ said' = said + 1 /\ held' = held
        /\ history' = Append(history, [id |-> said + 1, kind |-> k, size |-> s])
  BY DEF Append1
<1>2. PICK m : m = [id |-> said + 1, kind |-> k, size |-> s]
  OBVIOUS
<1>3. said \in Nat /\ history \in Seq(Messages) /\ held \in Seq(Messages)
  BY DEF ContextInv
<1>4. m \in Messages /\ m.id = said + 1 /\ m.id # 0 /\ m.kind # "summary"
  BY <1>2, <1>3 DEF Messages, Kinds
<1>5. PICK n \in Nat : n = Len(history) /\ DOMAIN history = 1 .. n
  BY <1>3
<1>6. /\ history' \in Seq(Messages) /\ Len(history') = n + 1 /\ DOMAIN history' = 1 .. n + 1
      /\ history'[n + 1] = m /\ \A i \in 1 .. n : history'[i] = history[i]
  BY <1>1, <1>2, <1>3, <1>4, <1>5
<1>7. Begins(held', history')
  <2>1. Len(held) \in Nat /\ Len(held) <= n /\ \A i \in 1 .. Len(held) : held[i] = history[i]
    BY <1>3, <1>5 DEF ContextInv, Begins
  <2> QED BY <1>1, <1>6, <2>1 DEF Begins
<1>8. Numbered(history', said')
  <2>1. \A i \in 1 .. n : /\ history[i].id <= said /\ (history[i].id = 0 <=> history[i].kind = "summary")
                          /\ history[i].id \in Nat
                          /\ \A j \in 1 .. n : history[i].id = history[j].id => i = j \/ history[i].id = 0
    <3>0. \A i \in 1 .. n : history[i] \in Messages
      BY <1>3, <1>5
    <3>1. \A i \in 1 .. n : history[i].id \in Nat
      BY <3>0 DEF Messages
    <3> QED BY <1>5, <3>1 DEF ContextInv, Numbered
  <2>2. ASSUME NEW i \in 1 .. n + 1
        PROVE  history'[i].id <= said' /\ (history'[i].id = 0 <=> history'[i].kind = "summary")
    BY <1>1, <1>3, <1>4, <1>6, <2>1
  <2>3. ASSUME NEW i \in 1 .. n + 1, NEW j \in 1 .. n + 1, history'[i].id = history'[j].id
        PROVE  i = j \/ history'[i].id = 0
    <3>1. CASE i \in 1 .. n /\ j \in 1 .. n
      BY <1>6, <2>1, <2>3, <3>1
    <3>2. ASSUME NEW l \in 1 .. n PROVE history'[l].id # said + 1 /\ history'[n + 1].id = said + 1
      BY <1>3, <1>4, <1>6, <2>1
    <3> QED BY <1>3, <2>3, <3>1, <3>2
  <2> QED BY <1>6, <2>2, <2>3 DEF Numbered
<1> QED BY <1>1, <1>3, <1>6, <1>7, <1>8 DEF ContextInv

\* A compaction that changes the history tells those who hold it.
LEMMA Rewrites ==
  ASSUME ContextInv, NothingToFold \/ Fold
  PROVE  held' = <<>> /\ said' = said
<1>1. CASE NothingToFold
  BY <1>1 DEF NothingToFold, FinishReport, Report
<1>2. CASE Fold
  BY <1>2 DEF Fold, FinishReport, Report
<1> QED BY <1>1, <1>2

\* What a compaction that finds nothing to fold leaves.
LEMMA TruncateGives ==
  ASSUME ContextInv, NothingToFold
  PROVE  \E c \in 0 .. Len(history) : /\ history' = From(history, c) /\ Cut(history) = 0
                                      /\ history # <<>> => c < Len(history)
<1>1. history' = Truncated(history) /\ Cut(history) = 0
  BY DEF NothingToFold
<1>2. history \in Seq(Messages)
  BY DEF ContextInv
<1> QED BY <1>1, <1>2, TruncatedIs

\* What a compaction that folds leaves.
LEMMA FoldGives ==
  ASSUME ContextInv, Fold
  PROVE  \E cut \in 0 .. Len(history) : \E compacted :
           /\ cut = Cut(history) /\ cut > 0 /\ cut <= KeepFrom(history)
           /\ \/ compacted = From(history, cut)
              \/ \E s \in Sizes :
                   compacted = <<[id |-> 0, kind |-> "summary", size |-> s]>> \o From(history, cut)
           /\ history' \in PreserveKeyResults(history, compacted, cut)
<1> DEFINE cut == Cut(history)
<1>1. history \in Seq(Messages)
  BY DEF ContextInv
<1>2. cut \in 0 .. Len(history) /\ cut <= KeepFrom(history)
  BY <1>1, CutIs, KeepFromIs
<1>3. cut > 0
  BY DEF Fold
<1>4. \/ \E compacted \in Folds(cut) : history' \in PreserveKeyResults(history, compacted, cut)
      \/ history' \in PreserveKeyResults(history, From(history, cut), cut)
  BY DEF Fold
<1>5. \A compacted \in Folds(cut) :
        \/ compacted = From(history, cut)
        \/ \E s \in Sizes :
             compacted = <<[id |-> 0, kind |-> "summary", size |-> s]>> \o From(history, cut)
  BY DEF Folds
<1> HIDE DEF cut
<1>6. CASE history' \in PreserveKeyResults(history, From(history, cut), cut)
  BY <1>2, <1>3, <1>6 DEF cut
<1>7. CASE \E compacted \in Folds(cut) : history' \in PreserveKeyResults(history, compacted, cut)
  BY <1>2, <1>3, <1>5, <1>7 DEF cut
<1> QED BY <1>4, <1>6, <1>7

\* A compaction keeps the invariant.
LEMMA CompactKeeps == ContextInv /\ (NothingToFold \/ Fold) => ContextInv'
<1> SUFFICES ASSUME ContextInv, NothingToFold \/ Fold PROVE ContextInv'
  OBVIOUS
<1>1. said \in Nat /\ history \in Seq(Messages) /\ Numbered(history, said)
  BY DEF ContextInv
<1>2. held' = <<>> /\ said' = said
  BY Rewrites
<1>3. history' \in Seq(Messages) /\ Numbered(history', said)
  <2>1. CASE NothingToFold
    <3>1. PICK c \in 0 .. Len(history) : history' = From(history, c)
      BY <2>1, TruncateGives
    <3>2. PICK n \in Nat : n = Len(history) /\ DOMAIN history = 1 .. n /\ c \in 0 .. n
      BY <1>1
    <3>3. /\ history' \in Seq(Messages) /\ DOMAIN history' = 1 .. n - c
          /\ \A k \in 1 .. n - c : history'[k] = history[c + k] /\ c + k \in DOMAIN history
      <4>1. /\ From(history, c) \in Seq(Messages) /\ Len(From(history, c)) = Len(history) - c
            /\ \A k \in 1 .. Len(history) - c : From(history, c)[k] = history[c + k]
        BY <1>1, Suffix
      <4>2. /\ history' \in Seq(Messages) /\ Len(history') = n - c
            /\ \A k \in 1 .. n - c : history'[k] = history[c + k]
        BY <3>1, <3>2, <4>1
      <4>3. \A k \in 1 .. n - c : c + k \in 1 .. n
        BY <3>2
      <4> QED BY <3>2, <4>2, <4>3
    <3>4. Numbered(history', said)
      <4>1. \A i \in 1 .. n - c :
              /\ history'[i].id <= said /\ (history'[i].id = 0 <=> history'[i].kind = "summary")
        BY <1>1, <3>3 DEF Numbered
      <4>2. ASSUME NEW i \in 1 .. n - c, NEW j \in 1 .. n - c, history'[i].id = history'[j].id
            PROVE  i = j \/ history'[i].id = 0
        <5>1. c + i = c + j \/ history[c + i].id = 0
          BY <1>1, <3>3, <4>2 DEF Numbered
        <5> QED BY <3>2, <3>3, <5>1
      <4> QED BY <3>3, <4>1, <4>2 DEF Numbered
    <3> QED BY <3>3, <3>4
  <2>2. CASE Fold
    <3>0. PICK cut \in 0 .. Len(history) : \E compacted :
            /\ \/ compacted = From(history, cut)
               \/ \E s \in Sizes :
                    compacted = <<[id |-> 0, kind |-> "summary", size |-> s]>> \o From(history, cut)
            /\ history' \in PreserveKeyResults(history, compacted, cut)
      BY <2>2, FoldGives
    <3>1. PICK compacted :
            /\ \/ compacted = From(history, cut)
               \/ \E s \in Sizes :
                    compacted = <<[id |-> 0, kind |-> "summary", size |-> s]>> \o From(history, cut)
            /\ history' \in PreserveKeyResults(history, compacted, cut)
      BY <3>0
    <3> QED BY <1>1, <3>1, Folding
  <2> QED BY <2>1, <2>2
<1>4. /\ held' \in Seq(Messages) /\ Len(held') = 0 /\ 1 .. Len(held') = {} /\ Len(history') \in Nat
  BY <1>2, <1>3
<1> QED BY <1>1, <1>2, <1>3, <1>4 DEF ContextInv, Begins

\* Every step of the manager keeps the invariant.
LEMMA ContextInvKept == ContextInv /\ [ContextNext]_contextVars => ContextInv'
<1>1. ContextInv /\ UNCHANGED contextVars => ContextInv'
  BY DEF ContextInv, contextVars
<1>2. ContextInv /\ SendHistory => ContextInv'
  <2> SUFFICES ASSUME ContextInv, SendHistory PROVE ContextInv'
    OBVIOUS
  <2>1. held' = history /\ history' = history /\ said' = said /\ Len(history) \in Nat
    BY DEF SendHistory, ContextInv
  <2> QED BY <2>1 DEF ContextInv, Begins
<1>3. ContextInv /\ Within => ContextInv'
  BY DEF ContextInv, Within
<1> QED BY <1>1, <1>2, <1>3, AppendKeeps, CompactKeeps DEF ContextNext, Compact

\* The invariant says what the run checks.
LEMMA ContextInvSays == ContextInv => HeldIsPrefix
<1> SUFFICES ASSUME ContextInv PROVE HeldIsPrefix
  OBVIOUS
<1>1. PICK n \in Nat : /\ n = Len(held) /\ n <= Len(history) /\ DOMAIN held = 1 .. n
                       /\ \A i \in 1 .. n : held[i] = history[i]
  BY DEF ContextInv, Begins
<1>2. held \in Seq(Messages) /\ history \in Seq(Messages) /\ Len(history) \in Nat
  BY DEF ContextInv
<1>3. PICK u : u = SubSeq(held, 1, n)
  OBVIOUS
<1>4. PICK v : v = SubSeq(history, 1, n)
  OBVIOUS
<1>5. /\ u \in Seq(Messages) /\ Len(u) = IF 1 <= n THEN n - 1 + 1 ELSE 0
      /\ \A k \in 1 .. n - 1 + 1 : u[k] = held[1 + k - 1]
  BY <1>1, <1>2, <1>3, SubSeqProperties
<1>6. /\ v \in Seq(Messages) /\ Len(v) = IF 1 <= n THEN n - 1 + 1 ELSE 0
      /\ \A k \in 1 .. n - 1 + 1 : v[k] = history[1 + k - 1]
  <2>1. \A k \in 1 .. n : history[k] \in Messages
    BY <1>1, <1>2
  <2> QED BY <1>1, <1>2, <1>4, <2>1, SubSeqProperties
<1>7. Len(u) = n /\ Len(v) = n /\ \A k \in 1 .. n : 1 + k - 1 = k /\ n - 1 + 1 = n
  BY <1>5, <1>6
<1>8. \A k \in 1 .. n : u[k] = v[k]
  BY <1>1, <1>5, <1>6, <1>7
<1>9. u = v
  BY <1>5, <1>6, <1>7, <1>8, SeqEqual
<1> QED BY <1>1, <1>3, <1>4, <1>9 DEF HeldIsPrefix, IsPrefix

\* What is held of the history is a beginning of what will be sent, also after a
\* compaction rewrote it, whatever the budget and the sizes are (context/manager.go).
THEOREM HeldIsPrefixAlways == ContextSpec => []HeldIsPrefix
<1> QED BY ContextInvFirst, ContextInvKept, ContextInvSays, PTL DEF ContextSpec

\* A sequence that ends another one is a suffix of it.
LEMMA Ends ==
  ASSUME NEW S, NEW q \in Seq(S), NEW r \in Seq(S), Len(q) <= Len(r),
         \A k \in 1 .. Len(q) : r[(Len(r) - Len(q)) + k] = q[k]
  PROVE  IsSuffix(q, r)
<1>1. PICK m \in Nat : m = Len(q) /\ DOMAIN q = 1 .. m
  OBVIOUS
<1>2. PICK n \in Nat : n = Len(r) /\ DOMAIN r = 1 .. n /\ m <= n
  BY <1>1
<1>3. PICK u : u = Reverse(q)
  OBVIOUS
<1>4. PICK v : v = Reverse(r)
  OBVIOUS
<1>5. u = [i \in 1 .. m |-> q[(m - i) + 1]] /\ v = [i \in 1 .. n |-> r[(n - i) + 1]]
  BY <1>1, <1>2, <1>3, <1>4 DEF Reverse
<1>6. /\ \A i \in 1 .. m : (m - i) + 1 \in 1 .. m
      /\ \A i \in 1 .. n : (n - i) + 1 \in 1 .. n
  OBVIOUS
<1>7. /\ u \in Seq(S) /\ Len(u) = m /\ DOMAIN u = 1 .. m
      /\ v \in Seq(S) /\ Len(v) = n /\ DOMAIN v = 1 .. n
  BY <1>1, <1>2, <1>5, <1>6
<1>8. \A i \in 1 .. m : u[i] = v[i]
  <2> SUFFICES ASSUME NEW i \in 1 .. m PROVE u[i] = v[i]
    OBVIOUS
  <2>1. (m - i) + 1 \in 1 .. m /\ (n - m) + ((m - i) + 1) = (n - i) + 1 /\ i \in 1 .. n
    BY <1>2
  <2>2. r[(n - m) + ((m - i) + 1)] = q[(m - i) + 1]
    BY <1>1, <1>2, <2>1
  <2> QED BY <1>5, <2>1, <2>2
<1>9. PICK x : x = SubSeq(u, 1, m)
  OBVIOUS
<1>10. PICK y : y = SubSeq(v, 1, m)
  OBVIOUS
<1>11. /\ x \in Seq(S) /\ Len(x) = IF 1 <= m THEN m - 1 + 1 ELSE 0
       /\ \A k \in 1 .. m - 1 + 1 : x[k] = u[1 + k - 1]
  <2>1. \A k \in 1 .. m : u[k] \in S
    BY <1>7
  <2> QED BY <1>7, <1>9, <2>1, SubSeqProperties
<1>12. /\ y \in Seq(S) /\ Len(y) = IF 1 <= m THEN m - 1 + 1 ELSE 0
       /\ \A k \in 1 .. m - 1 + 1 : y[k] = v[1 + k - 1]
  <2>1. \A k \in 1 .. m : v[k] \in S
    BY <1>2, <1>7
  <2> QED BY <1>2, <1>7, <1>10, <2>1, SubSeqProperties
<1>13. Len(x) = m /\ Len(y) = m /\ \A k \in 1 .. m : x[k] = y[k]
  <2>1. m - 1 + 1 = m /\ \A k \in 1 .. m : 1 + k - 1 = k
    OBVIOUS
  <2> QED BY <1>8, <1>11, <1>12, <2>1
<1>14. x = y
  BY <1>11, <1>12, <1>13, SeqEqual
<1> QED BY <1>2, <1>3, <1>4, <1>7, <1>9, <1>10, <1>14 DEF IsSuffix, IsPrefix

\* The recent turns are a tail of the history that begins behind what is folded.
LEMMA RecentIs ==
  ASSUME NEW q \in Seq(Messages), NEW cut \in 0 .. Len(q), cut <= KeepFrom(q)
  PROVE  \/ RecentTurns(q) = <<>>
         \/ \E c \in cut .. Len(q) : RecentTurns(q) = From(q, c)
<1> DEFINE After(u) == {v \in UserTurns(q) : v >= u}
           late == {i \in UserTurns(q) : Cardinality(After(i)) <= KeepRecentTurns}
<1>1. PICK n \in Nat : n = Len(q) /\ DOMAIN q = 1 .. n
  OBVIOUS
<1>2. UserTurns(q) \subseteq 1 .. n
  BY <1>1 DEF UserTurns
<1>3. RecentTurns(q) = IF late = {} THEN <<>> ELSE From(q, Min(late) - 1)
  BY DEF RecentTurns
<1>4. CASE late = {}
  BY <1>3, <1>4
<1>5. CASE late # {}
  <2>1. late \in SUBSET Nat
    BY <1>2
  <2>2. Min(late) \in late
    BY <1>5, <2>1, Least
  <2>3. PICK m \in late : m = Min(late) /\ m \in 1 .. n
    BY <1>2, <2>2
  <2>4. Cardinality(After(m)) <= KeepRecentTurns /\ m \in 1 .. n
    BY <2>3
  <2>5. cut <= m - 1
    <3>1. CASE KeepFrom(q) = 0
      BY <2>4, <3>1
    <3>2. ASSUME NEW u \in UserTurns(q), KeepFrom(q) = u - 1, Cardinality(After(u)) > KeepRecentTurns
          PROVE  cut <= m - 1
      <4>1. u \in 1 .. n
        BY <1>2
      <4>2. ASSUME m < u PROVE FALSE
        <5>1. After(u) \subseteq After(m) /\ After(m) \subseteq 1 .. n
          BY <1>2, <2>4, <4>1, <4>2
        <5>2. IsFiniteSet(1 .. n)
          BY FS_Interval
        <5>3. IsFiniteSet(After(m)) /\ IsFiniteSet(After(u))
          BY <5>1, <5>2, FS_Subset
        <5>4. /\ Cardinality(After(u)) <= Cardinality(After(m))
              /\ Cardinality(After(u)) \in Nat /\ Cardinality(After(m)) \in Nat
          BY <5>1, <5>3, FS_Subset, FS_CardinalityType
        <5> QED BY <2>4, <3>2, <5>4, ContextParameters
      <4> QED BY <2>4, <3>2, <4>1, <4>2
    <3> QED BY <3>1, <3>2, KeepFromIs
  <2>6. m - 1 \in cut .. Len(q) /\ RecentTurns(q) = From(q, m - 1)
    <3>1. RecentTurns(q) = From(q, m - 1)
      BY <1>3, <1>5, <2>3
    <3> QED BY <1>1, <2>4, <2>5, <3>1
  <2> QED BY <2>6
<1> QED BY <1>4, <1>5

\* A folding keeps the recent turns as they are at the end, and the failed results.
LEMMA FoldKeepsWhatItMust == ASSUME ContextInv, Fold PROVE WhatCompactionKeeps
<1>1. history \in Seq(Messages) /\ Numbered(history, said) /\ said \in Nat
  BY DEF ContextInv
<1>2. PICK cut \in 0 .. Len(history) : \E compacted :
        /\ cut = Cut(history) /\ cut > 0 /\ cut <= KeepFrom(history)
        /\ \/ compacted = From(history, cut)
           \/ \E s \in Sizes :
                compacted = <<[id |-> 0, kind |-> "summary", size |-> s]>> \o From(history, cut)
        /\ history' \in PreserveKeyResults(history, compacted, cut)
  BY FoldGives
<1>3. PICK compacted :
        /\ cut = Cut(history) /\ cut > 0 /\ cut <= KeepFrom(history)
        /\ \/ compacted = From(history, cut)
           \/ \E s \in Sizes :
                compacted = <<[id |-> 0, kind |-> "summary", size |-> s]>> \o From(history, cut)
        /\ history' \in PreserveKeyResults(history, compacted, cut)
  BY <1>2
<1>4. PICK n \in Nat : n = Len(history) /\ DOMAIN history = 1 .. n
  BY <1>1
<1>5. PICK r : r = history'
  OBVIOUS
<1>6. /\ r \in Seq(Messages) /\ n - cut <= Len(r)
      /\ \A k \in 1 .. n - cut : r[Len(r) - (n - cut) + k] = history[cut + k]
      /\ \A i \in DOMAIN history : history[i].kind = "failed" => \E k \in DOMAIN r : r[k] = history[i]
  <2>1. r \in PreserveKeyResults(history, compacted, cut)
    BY <1>3, <1>5
  <2>2. r \in Seq(Messages) /\ EndsLike(history, cut, r)
    BY <1>1, <1>3, <2>1, Folding
  <2> QED BY <1>4, <2>2 DEF EndsLike
<1>7. cut < n
  <2>1. KeepFrom(history) # 0 /\ cut \in Nat
    BY <1>3, <1>4
  <2>2. PICK u \in UserTurns(history) : KeepFrom(history) = u - 1
    BY <1>1, <2>1, KeepFromIs
  <2>3. u \in 1 .. n
    BY <1>4 DEF UserTurns
  <2> QED BY <1>3, <1>4, <2>2, <2>3
<1>8. PICK l \in Nat : l = Len(r) /\ DOMAIN r = 1 .. l
  BY <1>6
<1>9. cut \in 0 .. n /\ n - cut \in 1 .. n /\ n - cut <= l
  BY <1>4, <1>6, <1>7, <1>8
<1>10. r # <<>> /\ Last(r) = Last(history)
  <2>1. l - (n - cut) + (n - cut) = l /\ cut + (n - cut) = n /\ l > 0
    BY <1>9
  <2>2. PICK k \in 1 .. n - cut : k = n - cut
    BY <1>9
  <2>4. r[l - (n - cut) + k] = history[cut + k]
    BY <1>6, <1>8
  <2>3. r[l] = history[n]
    BY <2>1, <2>2, <2>4
  <2> QED BY <1>4, <1>8, <2>1, <2>3 DEF Last
<1>11. IsSuffix(RecentTurns(history), r)
  <2>1. CASE RecentTurns(history) = <<>>
    <3>1. <<>> \in Seq(Messages) /\ Len(<<>>) = 0
      OBVIOUS
    <3>2. Len(<<>>) <= Len(r) /\ \A k \in 1 .. Len(<<>>) : r[(Len(r) - Len(<<>>)) + k] = <<>>[k]
      BY <1>8, <3>1
    <3>3. IsSuffix(<<>>, r)
      BY <1>6, <3>1, <3>2, Ends
    <3> QED BY <2>1, <3>3
  <2>2. ASSUME NEW c \in cut .. Len(history), RecentTurns(history) = From(history, c)
        PROVE  IsSuffix(RecentTurns(history), r)
    <3>1. PICK q : q = From(history, c)
      OBVIOUS
    <3>2. c \in 0 .. n /\ c \in cut .. n
      BY <1>4, <1>9
    <3>3. q \in Seq(Messages) /\ Len(q) = n - c /\ \A k \in 1 .. n - c : q[k] = history[c + k]
      <4>1. /\ From(history, c) \in Seq(Messages) /\ Len(From(history, c)) = Len(history) - c
            /\ \A k \in 1 .. Len(history) - c : From(history, c)[k] = history[c + k]
        BY <1>1, <1>4, <3>2, Suffix
      <4> QED BY <1>4, <3>1, <4>1
    <3>4. Len(q) <= Len(r)
      BY <1>8, <1>9, <3>2, <3>3
    <3>5. ASSUME NEW k \in 1 .. n - c PROVE r[(l - (n - c)) + k] = q[k]
      <4>1. /\ (c - cut) + k \in 1 .. n - cut
            /\ l - (n - cut) + ((c - cut) + k) = (l - (n - c)) + k
            /\ cut + ((c - cut) + k) = c + k
        BY <1>8, <1>9, <3>2
      <4>2. r[l - (n - cut) + ((c - cut) + k)] = history[cut + ((c - cut) + k)]
        BY <1>6, <1>8, <4>1
      <4> QED BY <3>3, <4>1, <4>2
    <3>6. \A k \in 1 .. Len(q) : r[(Len(r) - Len(q)) + k] = q[k]
      BY <1>8, <3>3, <3>5
    <3>7. IsSuffix(q, r)
      BY <1>6, <3>3, <3>4, <3>6, Ends
    <3> QED BY <2>2, <3>1, <3>7
  <2> QED BY <1>1, <1>3, <2>1, <2>2, RecentIs
<1>12. \A i \in DOMAIN history : history[i].kind = "failed" => Contains(r, history[i])
  BY <1>6, <1>8 DEF Contains
<1> QED BY <1>5, <1>10, <1>11, <1>12 DEF WhatCompactionKeeps

\* A truncation keeps a tail, with the newest message.
LEMMA TruncatingKeepsTheLast == ASSUME ContextInv, NothingToFold PROVE WhatCompactionKeeps
<1>1. history \in Seq(Messages)
  BY DEF ContextInv
<1>2. PICK c \in 0 .. Len(history) : /\ history' = From(history, c) /\ Cut(history) = 0
                                     /\ history # <<>> => c < Len(history)
  BY TruncateGives
<1>3. PICK n \in Nat : n = Len(history) /\ DOMAIN history = 1 .. n
  BY <1>1
<1>4. PICK r : r = history'
  OBVIOUS
<1>5. r \in Seq(Messages) /\ Len(r) = n - c /\ \A k \in 1 .. n - c : r[k] = history[c + k]
  <2>1. /\ From(history, c) \in Seq(Messages) /\ Len(From(history, c)) = Len(history) - c
        /\ \A k \in 1 .. Len(history) - c : From(history, c)[k] = history[c + k]
    BY <1>1, Suffix
  <2> QED BY <1>2, <1>3, <1>4, <2>1
<1>6. CASE history = <<>>
  <2>1. n = 0 /\ c = 0
    BY <1>3, <1>6
  <2>2. r = <<>>
    BY <1>5, <2>1
  <2> QED BY <1>4, <1>6, <2>2 DEF WhatCompactionKeeps
<1>7. CASE history # <<>>
  <2>1. c \in 0 .. n /\ c < n /\ n - c \in 1 .. n - c /\ c + (n - c) = n
    BY <1>2, <1>3, <1>7
  <2>2. r # <<>> /\ r[Len(r)] = history[n]
    BY <1>5, <2>1
  <2>3. r # <<>> /\ Last(r) = Last(history)
    BY <1>3, <2>2 DEF Last
  <2> QED BY <1>2, <1>4, <2>3 DEF WhatCompactionKeeps
<1> QED BY <1>6, <1>7

\* Every step keeps what a compaction must.
LEMMA StepKeepsWhatItMust == ContextInv /\ [ContextNext]_contextVars => WhatCompactionKeeps
<1>1. ContextInv /\ Append1 => WhatCompactionKeeps
  <2>1. ContextInv /\ Append1 => said' # said
    BY DEF ContextInv, Append1
  <2> QED BY <2>1 DEF WhatCompactionKeeps
<1>2. SendHistory \/ Within \/ UNCHANGED contextVars => history' = history
  BY DEF SendHistory, Within, contextVars
<1>3. history' = history => WhatCompactionKeeps
  BY DEF WhatCompactionKeeps
<1> QED BY <1>1, <1>2, <1>3, FoldKeepsWhatItMust, TruncatingKeepsTheLast DEF ContextNext, Compact

\* A compaction keeps the newest message, the recent turns at the end and every failed
\* result, for every history, budget and number of recent turns (context/manager.go).
THEOREM WhatCompactionKeepsAlways == ContextSpec => [][WhatCompactionKeeps]_contextVars
<1> QED BY ContextInvFirst, ContextInvKept, StepKeepsWhatItMust, PTL DEF ContextSpec

-----------------------------------------------------------------------------
(* The record of the cached prefix *)

\* Signatures, counts, snapshots, keys, builds and changes of the cached prefix.
Signs == Signatures \cup {0}
Counts == {0} \cup (1 .. MaxCount)
Snapshots == [sequence : Nat, signature : Signs, count : Counts]
Keys == {<<>>} \cup (Signs \X Counts)
Builds == [at : {"idle", "record", "current", "key", "over"}, mine : Snapshots,
           signature : Signs, key : Keys]
ChangeRecords == [kind : {"unchanged", "appended", "edited", "reset"}, from : Signs, to : Signs]

\* The inductive invariant: each recorded change begins where the one before it ended,
\* the last one ended at the snapshot that is there, and what is told as unchanged or
\* appended kept its signature.
CacheInv ==
  /\ snapshot \in Snapshots /\ changes \in Seq(ChangeRecords) /\ sequence \in Nat
  /\ build \in [Builders -> Builds]
  /\ \A i \in DOMAIN changes :
       /\ changes[i].from = IF i = 1 THEN 0 ELSE changes[i - 1].to
       /\ changes[i].kind \in {"unchanged", "appended"} => changes[i].from \in {0, changes[i].to}
  /\ snapshot.signature = IF changes = <<>> THEN 0 ELSE changes[Len(changes)].to

\* A step of one build keeps the others.
LEMMA OneBuild ==
  ASSUME CacheInv, NEW b \in Builders, NEW e \in Builds, build' = [build EXCEPT ![b] = e]
  PROVE  build' \in [Builders -> Builds]
  BY DEF CacheInv

\* The fields of a build.
LEMMA Fields ==
  ASSUME NEW c \in Builds
  PROVE  /\ c.at \in {"idle", "record", "current", "key", "over"} /\ c.mine \in Snapshots
         /\ c.signature \in Signs /\ c.key \in Keys
         /\ c = [at |-> c.at, mine |-> c.mine, signature |-> c.signature, key |-> c.key]
  BY DEF Builds

\* What is told of a change begins with the snapshot that is there.
LEMMA OneMore ==
  ASSUME CacheInv, NEW kind \in {"unchanged", "appended", "edited", "reset"}, NEW to \in Signs,
         Changed(kind, to), kind \in {"unchanged", "appended"} => snapshot.signature \in {0, to}
  PROVE  /\ changes' \in Seq(ChangeRecords) /\ changes' # <<>> /\ changes'[Len(changes')].to = to
         /\ \A i \in DOMAIN changes' :
              /\ changes'[i].from = IF i = 1 THEN 0 ELSE changes'[i - 1].to
              /\ changes'[i].kind \in {"unchanged", "appended"} => changes'[i].from \in {0, changes'[i].to}
<1> DEFINE c == [kind |-> kind, from |-> snapshot.signature, to |-> to]
<1>1. c \in ChangeRecords /\ c.kind = kind /\ c.from = snapshot.signature /\ c.to = to
  BY DEF CacheInv, Snapshots, ChangeRecords
<1>2. changes' = Append(changes, c)
  BY DEF Changed
<1> HIDE DEF c
<1>3. PICK n \in Nat : n = Len(changes) /\ DOMAIN changes = 1 .. n
  BY DEF CacheInv
<1>4. /\ changes' \in Seq(ChangeRecords) /\ Len(changes') = n + 1 /\ DOMAIN changes' = 1 .. n + 1
      /\ changes'[n + 1] = c /\ \A i \in 1 .. n : changes'[i] = changes[i]
  BY <1>1, <1>2, <1>3 DEF CacheInv
<1>5. ASSUME NEW i \in 1 .. n
      PROVE  /\ changes'[i].from = IF i = 1 THEN 0 ELSE changes'[i - 1].to
             /\ changes'[i].kind \in {"unchanged", "appended"} => changes'[i].from \in {0, changes'[i].to}
  BY <1>3, <1>4 DEF CacheInv
<1>6. c.from = IF n + 1 = 1 THEN 0 ELSE changes'[n].to
  <2>1. CASE n = 0
    <3>1. changes = <<>>
      BY <1>3, <2>1 DEF CacheInv
    <3> QED BY <1>1, <2>1, <3>1 DEF CacheInv
  <2>2. CASE n # 0
    <3>1. changes # <<>> /\ n \in 1 .. n
      BY <1>3, <2>2
    <3> QED BY <1>1, <1>3, <1>4, <2>2, <3>1 DEF CacheInv
  <2> QED BY <2>1, <2>2
<1>7. changes' # <<>>
  BY <1>4
<1> QED BY <1>1, <1>4, <1>5, <1>6, <1>7

\* Nothing is built and no change recorded at first.
LEMMA CacheInvFirst == CacheInit => CacheInv
<1> SUFFICES ASSUME CacheInit PROVE CacheInv
  OBVIOUS
<1>1. Nothing \in Snapshots /\ Nothing.signature = 0
  BY DEF Nothing, Snapshots, Signs, Counts
<1>2. changes \in Seq(ChangeRecords) /\ DOMAIN changes = {}
  BY DEF CacheInit
<1>3. \A b \in Builders : [at |-> "idle", mine |-> Nothing, signature |-> 0, key |-> <<>>] \in
        Builds
  BY <1>1 DEF Signs, Keys, Builds
<1> QED BY <1>1, <1>2, <1>3 DEF CacheInit, CacheInv

\* A build takes the next number.
LEMMA NextSequenceKeeps == ASSUME NEW b \in Builders PROVE CacheInv /\ NextSequence(b) => CacheInv'
<1> SUFFICES ASSUME CacheInv, NextSequence(b) PROVE CacheInv'
  OBVIOUS
<1>1. PICK s \in Signatures, n \in 1 .. MaxCount :
        build' = [build EXCEPT ![b].at = "record",
                    ![b].mine = [sequence |-> sequence', signature |-> s, count |-> n]]
  BY DEF NextSequence
<1>2. sequence' = sequence + 1 /\ UNCHANGED <<snapshot, changes>>
  BY DEF NextSequence
<1>3. [sequence |-> sequence', signature |-> s, count |-> n] \in Snapshots
  BY <1>2 DEF CacheInv, Snapshots, Signs, Counts
<1>4. PICK m \in Snapshots : m = [sequence |-> sequence', signature |-> s, count |-> n]
  BY <1>3
<1>5. build' = [build EXCEPT ![b] = [@ EXCEPT !.at = "record", !.mine = m]]
  BY <1>1, <1>4 DEF CacheInv
<1>6. build[b] \in Builds
  BY DEF CacheInv
<1>7. [build[b] EXCEPT !.at = "record", !.mine = m] \in Builds
  BY <1>6, Fields DEF Builds
<1>8. build' \in [Builders -> Builds]
  BY <1>5, <1>7, OneBuild
<1> QED BY <1>2, <1>8 DEF CacheInv

\* A build records how it differs from the snapshot and becomes it, also when it was
\* overtaken.
LEMMA RecordChangeKeeps == ASSUME NEW b \in Builders PROVE CacheInv /\ RecordChange(b) => CacheInv'
<1> SUFFICES ASSUME CacheInv, RecordChange(b) PROVE CacheInv'
  OBVIOUS
<1> DEFINE to == build[b].mine.signature
           kind == Kind(snapshot, build[b].mine)
<1>1. build[b].mine \in Snapshots /\ to \in Signs
  BY Fields DEF CacheInv, Snapshots
<1>2. kind \in {"unchanged", "appended", "edited", "reset"}
  <2>1. kind \in {"unchanged", "appended", "edited"}
    BY Zenon DEF Kind
  <2> QED BY <2>1
<1>3. kind \in {"unchanged", "appended"} => snapshot.signature \in {0, to}
  <2> SUFFICES ASSUME snapshot.signature # 0, snapshot.signature # to PROVE kind = "edited"
    OBVIOUS
  <2> QED BY Zenon DEF Kind
<1>4. Changed(kind, to)
  BY DEF RecordChange
<1> HIDE DEF kind
<1>5. /\ changes' \in Seq(ChangeRecords) /\ changes' # <<>> /\ changes'[Len(changes')].to = to
      /\ \A i \in DOMAIN changes' :
           /\ changes'[i].from = IF i = 1 THEN 0 ELSE changes'[i - 1].to
           /\ changes'[i].kind \in {"unchanged", "appended"} => changes'[i].from \in {0, changes'[i].to}
  BY <1>1, <1>2, <1>3, <1>4, OneMore
<1>6. snapshot' = build[b].mine /\ build' = [build EXCEPT ![b].at = "current"] /\ sequence' = sequence
  BY DEF RecordChange
<1>7. build[b] \in Builds
  BY DEF CacheInv
<1>8. build' = [build EXCEPT ![b] = [@ EXCEPT !.at = "current"]]
  BY <1>6 DEF CacheInv
<1>9. [build[b] EXCEPT !.at = "current"] \in Builds
  BY <1>7, Fields DEF Builds
<1>10. build' \in [Builders -> Builds]
  BY <1>8, <1>9, OneBuild
<1>11. snapshot'.signature = to
  BY <1>6
<1> QED BY <1>1, <1>5, <1>6, <1>10, <1>11 DEF CacheInv

\* A build reads the signature that is there, and then the key.
LEMMA BuildKeeps ==
  ASSUME NEW b \in Builders PROVE CacheInv /\ (BuildSignature(b) \/ BuildKey(b)) => CacheInv'
<1> SUFFICES ASSUME CacheInv, BuildSignature(b) \/ BuildKey(b) PROVE CacheInv'
  OBVIOUS
<1>1. snapshot.signature \in Signs /\ snapshot.count \in Counts
  BY DEF CacheInv, Snapshots
<1>3. build[b] \in Builds
  BY DEF CacheInv
<1>2. build' \in [Builders -> Builds]
  <2>1. CASE BuildSignature(b)
    <3>1. build' = [build EXCEPT ![b] = [@ EXCEPT !.at = "key", !.signature = snapshot.signature]]
      BY <2>1 DEF BuildSignature, CacheInv
    <3>2. [build[b] EXCEPT !.at = "key", !.signature = snapshot.signature] \in Builds
      BY <1>1, <1>3, Fields DEF Builds
    <3> QED BY <3>1, <3>2, OneBuild
  <2>2. CASE BuildKey(b)
    <3>1. PICK k \in Keys : build' = [build EXCEPT ![b].at = "over", ![b].key = k]
      <4> DEFINE k == IF snapshot.signature = 0 THEN <<>> ELSE <<snapshot.signature, snapshot.count>>
      <4>1. k \in Keys
        BY <1>1 DEF Keys
      <4> QED BY <2>2, <4>1 DEF BuildKey
    <3>2. build' = [build EXCEPT ![b] = [@ EXCEPT !.at = "over", !.key = k]]
      BY <3>1 DEF CacheInv
    <3>3. [build[b] EXCEPT !.at = "over", !.key = k] \in Builds
      BY <1>3, Fields DEF Builds
    <3> QED BY <3>2, <3>3, OneBuild
  <2> QED BY <2>1, <2>2
<1> QED BY <1>2 DEF CacheInv, BuildSignature, BuildKey

\* Invalidate and Reset record what they change.
LEMMA ResetKeeps == CacheInv /\ (Invalidate \/ Reset) => CacheInv'
<1> SUFFICES ASSUME CacheInv, Invalidate \/ Reset PROVE CacheInv'
  OBVIOUS
<1>1. PICK kind \in {"edited", "reset"}, to \in Signs :
        Changed(kind, to) /\ snapshot' \in Snapshots /\ snapshot'.signature = to
  <2>1. CASE Invalidate
    <3>1. Changed("edited", 0) /\ snapshot' = [snapshot EXCEPT !.signature = 0]
      BY <2>1 DEF Invalidate
    <3>2. 0 \in Signs /\ snapshot' \in Snapshots /\ snapshot'.signature = 0
      BY <3>1 DEF CacheInv, Snapshots, Signs
    <3> QED BY <3>1, <3>2
  <2>2. CASE Reset
    <3>1. Changed("reset", snapshot.signature) /\ snapshot' = snapshot
      BY <2>2 DEF Reset
    <3>2. snapshot.signature \in Signs /\ snapshot \in Snapshots
      BY DEF CacheInv, Snapshots
    <3> QED BY <3>1, <3>2
  <2> QED BY <2>1, <2>2
<1>2. /\ changes' \in Seq(ChangeRecords) /\ changes' # <<>> /\ changes'[Len(changes')].to = to
      /\ \A i \in DOMAIN changes' :
           /\ changes'[i].from = IF i = 1 THEN 0 ELSE changes'[i - 1].to
           /\ changes'[i].kind \in {"unchanged", "appended"} => changes'[i].from \in {0, changes'[i].to}
  BY <1>1, OneMore
<1>3. UNCHANGED <<sequence, build>>
  BY DEF Invalidate, Reset
<1> QED BY <1>1, <1>2, <1>3 DEF CacheInv

\* Every step of the cache keeps the invariant.
LEMMA CacheInvKept == CacheInv /\ [CacheNext]_cacheVars => CacheInv'
<1>1. CacheInv /\ UNCHANGED cacheVars => CacheInv'
  BY DEF CacheInv, cacheVars
<1> QED BY <1>1, NextSequenceKeeps, RecordChangeKeeps, BuildKeeps, ResetKeeps DEF CacheNext

\* The invariant says what the run checks.
LEMMA CacheInvSays == CacheInv => ChangesChain
  BY DEF CacheInv, ChangesChain, Last

\* The recorded changes of the prefix follow one another, however many builds run at a
\* time and in whichever order they record (cache/cache.go).
THEOREM ChangesChainAlways == CacheSpec => []ChangesChain
<1> QED BY CacheInvFirst, CacheInvKept, CacheInvSays, PTL DEF CacheSpec

-----------------------------------------------------------------------------
(* The watch over the hit rate *)

\* The readings of the hit rate, an observation under way, and what is noted of alarms.
Rates    == {"few", "unmeasured", "low", "healthy"}
Observes == [at : {"idle", "decide", "raise", "recover"}, rate : Rates, recovered : BOOLEAN]
Notes    == [is : {"raised", "recovered"}, by : Observers]

Raised(o) == [is |-> "raised", by |-> o]

\* A caller raised an alarm that nobody took back.
Outstanding(o) ==
  \E i \in DOMAIN alarms :
    alarms[i] = Raised(o) /\ \A k \in DOMAIN alarms : k > i => alarms[k].is # "recovered"

\* The inductive invariant: while an alarm of a caller is outstanding, alarmActive says so,
\* and that caller is not about to raise another.
RateInv ==
  /\ alarms \in Seq(Notes) /\ observe \in [Observers -> Observes]
  /\ \A o \in Observers : Outstanding(o) => alarmActive /\ observe[o].at # "raise"
  /\ AlarmOnce

\* No alarm at first.
LEMMA RateInvFirst == RateInit => RateInv
<1> SUFFICES ASSUME RateInit PROVE RateInv
  OBVIOUS
<1>1. alarms = <<>> /\ alarms \in Seq(Notes) /\ DOMAIN alarms = {}
  BY DEF RateInit
<1>2. [at |-> "idle", rate |-> "few", recovered |-> FALSE] \in Observes
  BY DEF Observes, Rates
<1>3. observe \in [Observers -> Observes]
  BY <1>2 DEF RateInit
<1> QED BY <1>1, <1>3 DEF RateInv, Outstanding, AlarmOnce

\* A caller that moves on without a note of an alarm, and only to "raise" while none is
\* outstanding.
LEMMA RateMoves ==
  ASSUME RateInv, NEW o \in Observers, NEW e \in Observes, observe' = [observe EXCEPT ![o] = e],
         UNCHANGED <<alarms, alarmActive>>, e.at = "raise" => ~alarmActive
  PROVE  RateInv'
<1>1. /\ observe' \in [Observers -> Observes]
      /\ \A p \in Observers : observe'[p] = IF p = o THEN e ELSE observe[p]
  BY DEF RateInv
<1>2. \A p \in Observers : Outstanding(p) => alarmActive /\ observe'[p].at # "raise"
  BY <1>1 DEF RateInv
<1> QED BY <1>1, <1>2 DEF RateInv, Outstanding, AlarmOnce

\* An observation goes into the window, and the rate over it is read.
LEMMA ObserveKeeps == ASSUME NEW o \in Observers PROVE RateInv /\ Observe(o) => RateInv'
<1> SUFFICES ASSUME RateInv, Observe(o) PROVE RateInv'
  OBVIOUS
<1>1. PICK rate \in Rates :
        observe' = [observe EXCEPT ![o] = [at |-> "decide", rate |-> rate,
                                           recovered |-> alarmActive /\ rate = "healthy"]]
  <2>1. Rate(rates') \in Rates
    BY DEF Rate, Rates
  <2> QED BY <2>1 DEF Observe
<1>2. UNCHANGED <<alarmActive, alarms>>
  BY DEF Observe
<1>3. (alarmActive /\ rate = "healthy") \in BOOLEAN
  OBVIOUS
<1>4. PICK e \in Observes : e = [at |-> "decide", rate |-> rate,
                                 recovered |-> alarmActive /\ rate = "healthy"]
  BY <1>3 DEF Observes
<1>5. e.at = "decide" /\ observe' = [observe EXCEPT ![o] = e]
  BY <1>1, <1>4
<1> QED BY <1>2, <1>5, RateMoves

\* A caller decides what follows from the rate.
LEMMA DecideAlarmKeeps == ASSUME NEW o \in Observers PROVE RateInv /\ DecideAlarm(o) => RateInv'
<1> SUFFICES ASSUME RateInv, DecideAlarm(o) PROVE RateInv'
  OBVIOUS
<1>1. PICK a \in {"idle", "raise", "recover"} :
        /\ observe' = [observe EXCEPT ![o] = [@ EXCEPT !.at = a]]
        /\ a = "raise" => ~alarmActive
  BY DEF DecideAlarm
<1>2. UNCHANGED <<alarmActive, alarms>>
  BY DEF DecideAlarm
<1>3. PICK e \in Observes : e = [observe[o] EXCEPT !.at = a] /\ e.at = a
  <2>1. PICK f \in Observes : f = observe[o]
    BY DEF RateInv
  <2>2. PICK e : e = [f EXCEPT !.at = a]
    OBVIOUS
  <2>3. e \in Observes /\ e.at = a
    BY <2>2 DEF Observes
  <2> QED BY <2>1, <2>2, <2>3
<1>4. observe' = [observe EXCEPT ![o] = e]
  BY <1>1, <1>3 DEF RateInv
<1> QED BY <1>1, <1>2, <1>3, <1>4, RateMoves

\* Where the list of notes grows by one.
LEMMA NoteAppended ==
  ASSUME RateInv, NEW a \in Notes, alarms' = Append(alarms, a)
  PROVE  \E n \in Nat :
           /\ DOMAIN alarms = 1 .. n /\ DOMAIN alarms' = 1 .. n + 1 /\ alarms'[n + 1] = a
           /\ \A i \in 1 .. n : alarms'[i] = alarms[i]
           /\ \A i \in 1 .. n + 1 : i \in 1 .. n \/ i = n + 1
           /\ alarms' \in Seq(Notes)
<1>1. PICK n \in Nat : n = Len(alarms) /\ DOMAIN alarms = 1 .. n
  BY DEF RateInv
<1>2. alarms' \in Seq(Notes) /\ Len(alarms') = n + 1 /\ DOMAIN alarms' = 1 .. n + 1
  BY <1>1 DEF RateInv
<1>3. alarms'[n + 1] = a /\ \A i \in 1 .. n : alarms'[i] = alarms[i]
  BY <1>1 DEF RateInv
<1>4. \A i \in 1 .. n + 1 : i \in 1 .. n \/ i = n + 1
  OBVIOUS
<1> QED BY <1>1, <1>2, <1>3, <1>4

\* An alarm is raised by a caller that has none outstanding.
LEMMA RaiseAlarmKeeps == ASSUME NEW o \in Observers PROVE RateInv /\ RaiseAlarm(o) => RateInv'
<1> SUFFICES ASSUME RateInv, RaiseAlarm(o) PROVE RateInv'
  OBVIOUS
<1>1. /\ observe[o].at = "raise" /\ alarms' = Append(alarms, Raised(o)) /\ alarmActive' = TRUE
      /\ observe' = [observe EXCEPT ![o] = [@ EXCEPT !.at = "idle"]]
  BY DEF RaiseAlarm, Raised
<1>2. Raised(o) \in Notes /\ Raised(o).is = "raised"
  BY DEF Raised, Notes
<1>3. PICK n \in Nat :
        /\ DOMAIN alarms = 1 .. n /\ DOMAIN alarms' = 1 .. n + 1 /\ alarms'[n + 1] = Raised(o)
        /\ \A i \in 1 .. n : alarms'[i] = alarms[i]
        /\ \A i \in 1 .. n + 1 : i \in 1 .. n \/ i = n + 1
        /\ alarms' \in Seq(Notes)
  BY <1>1, <1>2, NoteAppended
<1>4. ~Outstanding(o)
  BY <1>1 DEF RateInv
<1>5. /\ observe' \in [Observers -> Observes] /\ observe'[o].at = "idle"
      /\ \A p \in Observers \ {o} : observe'[p] = observe[p]
  BY <1>1 DEF RateInv, Observes
<1>6. ASSUME NEW p \in Observers, p # o, Outstanding(p)' PROVE Outstanding(p)
  <2>1. PICK i \in 1 .. n + 1 : /\ alarms'[i] = Raised(p)
                                /\ \A k \in 1 .. n + 1 : k > i => alarms'[k].is # "recovered"
    BY <1>3, <1>6 DEF Outstanding
  <2>2. i \in 1 .. n
    <3>1. Raised(p) # Raised(o)
      BY <1>6 DEF Raised
    <3> QED BY <1>3, <2>1, <3>1
  <2>3. \A k \in 1 .. n : k > i => alarms[k].is # "recovered"
    BY <1>3, <2>1
  <2> QED BY <1>3, <2>1, <2>2, <2>3 DEF Outstanding
<1>7. \A p \in Observers : Outstanding(p)' => observe'[p].at # "raise"
  BY <1>5, <1>6 DEF RateInv
<1>8. AlarmOnce'
  <2> SUFFICES ASSUME NEW i \in DOMAIN alarms', NEW j \in DOMAIN alarms', i < j,
                      alarms'[i] = alarms'[j], alarms'[i].is = "raised"
               PROVE  \E k \in i .. j : alarms'[k].is = "recovered"
    BY DEF AlarmOnce
  <2>1. i \in 1 .. n /\ i \in Nat /\ j \in Nat
    BY <1>3
  <2>2. CASE j \in 1 .. n
    <3>1. PICK k \in i .. j : alarms[k].is = "recovered"
      BY <1>3, <2>1, <2>2 DEF RateInv, AlarmOnce
    <3>2. k \in 1 .. n
      BY <2>1, <2>2, <3>1
    <3> QED BY <1>3, <3>1, <3>2
  <2>3. CASE j = n + 1
    <3>1. alarms[i] = Raised(o)
      BY <1>3, <2>1, <2>3
    <3>2. PICK k \in 1 .. n : k > i /\ alarms[k].is = "recovered"
      BY <1>3, <1>4, <2>1, <3>1 DEF Outstanding
    <3>3. k \in i .. j
      BY <2>1, <2>3, <3>2
    <3> QED BY <1>3, <3>2, <3>3
  <2> QED BY <1>3, <2>2, <2>3
<1> QED BY <1>1, <1>3, <1>5, <1>7, <1>8 DEF RateInv

\* Once an alarm is taken back none is outstanding.
LEMMA ArmAlarmKeeps == ASSUME NEW o \in Observers PROVE RateInv /\ ArmAlarm(o) => RateInv'
<1> SUFFICES ASSUME RateInv, ArmAlarm(o) PROVE RateInv'
  OBVIOUS
<1>1. PICK a \in Notes : a.is = "recovered" /\ alarms' = Append(alarms, a)
  BY DEF ArmAlarm, Notes
<1>2. observe' = [observe EXCEPT ![o] = [@ EXCEPT !.at = "idle"]]
  BY DEF ArmAlarm
<1>3. observe' \in [Observers -> Observes]
  BY <1>2 DEF RateInv, Observes
<1>4. PICK n \in Nat :
        /\ DOMAIN alarms = 1 .. n /\ DOMAIN alarms' = 1 .. n + 1 /\ alarms'[n + 1] = a
        /\ \A i \in 1 .. n : alarms'[i] = alarms[i]
        /\ \A i \in 1 .. n + 1 : i \in 1 .. n \/ i = n + 1
        /\ alarms' \in Seq(Notes)
  BY <1>1, NoteAppended
<1>5. ASSUME NEW p \in Observers, Outstanding(p)' PROVE FALSE
  <2>1. PICK i \in 1 .. n + 1 : /\ alarms'[i] = Raised(p)
                                /\ \A k \in 1 .. n + 1 : k > i => alarms'[k].is # "recovered"
    BY <1>4, <1>5 DEF Outstanding
  <2>2. n + 1 \in 1 .. n + 1 /\ ~(n + 1 > i)
    BY <1>1, <1>4, <2>1
  <2>3. i = n + 1
    BY <2>1, <2>2
  <2> QED BY <1>1, <1>4, <2>1, <2>3 DEF Raised
<1>6. AlarmOnce'
  <2> SUFFICES ASSUME NEW i \in DOMAIN alarms', NEW j \in DOMAIN alarms', i < j,
                      alarms'[i] = alarms'[j], alarms'[i].is = "raised"
               PROVE  \E k \in i .. j : alarms'[k].is = "recovered"
    BY DEF AlarmOnce
  <2>1. j \in 1 .. n /\ i \in 1 .. n
    <3>1. j # n + 1
      BY <1>1, <1>4
    <3> QED BY <1>4, <3>1
  <2>2. PICK k \in i .. j : alarms[k].is = "recovered"
    BY <1>4, <2>1 DEF RateInv, AlarmOnce
  <2>3. k \in 1 .. n
    BY <2>1, <2>2
  <2> QED BY <1>4, <2>2, <2>3
<1> QED BY <1>3, <1>4, <1>5, <1>6 DEF RateInv

\* Every step keeps the invariant.
LEMMA RateInvKept == RateInv /\ [RateNext]_rateVars => RateInv'
<1>1. RateInv /\ UNCHANGED rateVars => RateInv'
  BY DEF RateInv, Outstanding, AlarmOnce, rateVars
<1> QED BY <1>1, ObserveKeeps, DecideAlarmKeeps, RaiseAlarmKeeps, ArmAlarmKeeps DEF RateNext

\* A caller reports a collapse of the hit rate once, and again only after a recovery was
\* found, for every window, every run of rates and any number of callers, although the
\* alarm is looked at outside of the lock (cache/cache.go).
THEOREM AlarmOnceAlways == RateSpec => []AlarmOnce
<1>1. RateInv => AlarmOnce
  BY DEF RateInv
<1> QED BY <1>1, RateInvFirst, RateInvKept, PTL DEF RateSpec

-----------------------------------------------------------------------------
(* The log *)

\* Where a log call may be, and the record it carries.
LogPlaces == {"idle", "note", "check", "send"}
Calls     == [at : LogPlaces, record : Nat]

\* The day of a record's file is that of its field ts, or a later one.
Dated(r) == day[r] \in 1 .. Days /\ stamp[r] \in 1 .. day[r]

\* The shape of the state.
LogShape ==
  /\ records \in Seq(Nat) /\ files \in [1 .. Days -> Seq(Nat)] /\ today \in 1 .. Days
  /\ logged \in 0 .. MaxLogged /\ day \in [1 .. MaxLogged -> Nat]
  /\ stamp \in [1 .. MaxLogged -> Nat] /\ \A r \in 1 .. logged : stamp[r] \in 1 .. today
  /\ logger \in [Loggers -> Calls]
  /\ done \in Nat /\ due \subseteq 1 .. logged

\* The record of a call that noted it is dated.
CallsDated ==
  \A l \in Loggers : logger[l].at \in {"check", "send"} =>
    \E r \in Nat : r = logger[l].record /\ Dated(r)

\* A record is with its caller, in the queue or in the file of its day, and once.
OnePlace ==
  /\ Distinct(records)
  /\ \A r \in Nat : Occurs(records, r) =>
       r \in 1 .. logged /\ Dated(r) /\ \A d \in 1 .. Days : ~Occurs(files[d], r)
  /\ \A d \in 1 .. Days :
       /\ Distinct(files[d])
       /\ \A r \in Nat : Occurs(files[d], r) => r \in 1 .. logged /\ Dated(r) /\ day[r] = d
  /\ CallsDated
  /\ \A l \in Loggers : logger[l].at # "idle" =>
       /\ logger[l].record \in 1 .. logged \ due
       /\ ~Occurs(records, logger[l].record)
       /\ \A d \in 1 .. Days : ~Occurs(files[d], logger[l].record)
       /\ \A k \in Loggers :
            logger[k].at # "idle" /\ logger[k].record = logger[l].record => k = l

\* Nothing ends before an end was asked for.
Ending ==
  /\ run \in {"drain", "end", "over"} => stop \/ cancelled
  /\ close \in {"look", "wait", "drain", "file", "over"} => stop
  /\ close \in {"idle", "stop"} => ~stop
  /\ done > 0 => run = "over" \/ close \in {"file", "over"}

\* The log has ended, by its goroutine or by Close.
Ended == run \in {"end", "over"} \/ close \in {"file", "over"}

\* What was to be drained at the end was.
Drained == Ended => \A r \in due : ~Occurs(records, r)

\* The inductive invariant of the log.
LogInv == LogShape /\ OnePlace /\ Ending /\ Drained

\* Nothing is logged at first.
LEMMA LogInvFirst == LogInit => LogInv
<1> SUFFICES ASSUME LogInit PROVE LogInv
  OBVIOUS
<1>1. LogShape
  BY LogParameters DEF LogInit, LogShape, Calls, LogPlaces
<1>2. OnePlace
  BY OccursEmpty DEF LogInit, OnePlace, CallsDated
<1>3. Ending /\ Drained
  BY OccursEmpty DEF LogInit, Ending, Ended, Drained
<1> QED BY <1>1, <1>2, <1>3 DEF LogInv

\* The head of the queue goes to the file of its day, or nowhere.
LEMMA WriteKeeps ==
  ASSUME LogShape, OnePlace, records # <<>>, WriteRecord(Head(records)),
         records' = Tail(records), UNCHANGED <<today, logCalls, due, done>>
  PROVE  LogShape' /\ OnePlace' /\ \A r : Occurs(records', r) => Occurs(records, r)
<1> DEFINE h == Head(records)
<1>1. /\ h \in Nat /\ records' \in Seq(Nat)
      /\ \A x : Occurs(records, x) <=> x = h \/ Occurs(records', x)
      /\ Distinct(records') /\ ~Occurs(records', h)
  <2>1. records \in Seq(Nat) /\ Distinct(records)
    BY DEF LogShape, OnePlace
  <2> QED BY <2>1, OccursTail
<1>2. h \in 1 .. logged /\ Dated(h) /\ day[h] \in 1 .. Days /\ \A d \in 1 .. Days : ~Occurs(files[d], h)
  BY <1>1 DEF LogShape, OnePlace, Dated
<1>3. \/ files' = files
      \/ files' = [files EXCEPT ![day[h]] = Append(files[day[h]], h)]
  BY DEF WriteRecord
<1> HIDE DEF h
<1>4. /\ files' \in [1 .. Days -> Seq(Nat)]
      /\ \A d \in 1 .. Days :
           /\ Distinct(files'[d])
           /\ \A x : Occurs(files'[d], x) => Occurs(files[d], x) \/ (x = h /\ d = day[h])
  <2>1. CASE files' = files
    BY <2>1 DEF LogShape, OnePlace
  <2>2. CASE files' = [files EXCEPT ![day[h]] = Append(files[day[h]], h)]
    <3>1. files[day[h]] \in Seq(Nat) /\ Distinct(files[day[h]]) /\ ~Occurs(files[day[h]], h)
      BY <1>2 DEF LogShape, OnePlace
    <3>2. PICK q \in Seq(Nat) :
            /\ q = Append(files[day[h]], h) /\ Distinct(q)
            /\ \A x : Occurs(q, x) <=> Occurs(files[day[h]], x) \/ x = h
      <4>1. PICK f \in Seq(Nat) : f = files[day[h]]
        BY <3>1
      <4>2. /\ Append(f, h) \in Seq(Nat) /\ Distinct(Append(f, h))
            /\ \A x : Occurs(Append(f, h), x) <=> Occurs(f, x) \/ x = h
        BY <1>1, <3>1, <4>1, OccursAppend
      <4> QED BY <4>1, <4>2
    <3>3. /\ files' \in [1 .. Days -> Seq(Nat)] /\ files'[day[h]] = q
          /\ \A d \in 1 .. Days : d # day[h] => files'[d] = files[d]
      BY <1>2, <2>2, <3>2 DEF LogShape
    <3>4. ASSUME NEW d \in 1 .. Days
          PROVE  /\ Distinct(files'[d])
                 /\ \A x : Occurs(files'[d], x) => Occurs(files[d], x) \/ (x = h /\ d = day[h])
      <4>1. CASE d = day[h]
        BY <3>2, <3>3, <4>1
      <4>2. CASE d # day[h]
        BY <3>3, <4>2 DEF OnePlace
      <4> QED BY <4>1, <4>2
    <3> QED BY <3>3, <3>4
  <2> QED BY <1>3, <2>1, <2>2
<1>5. UNCHANGED <<today, logged, stamp, day, logger, due, done>> /\ \A r : Dated(r)' <=> Dated(r)
  BY DEF logCalls, Dated
<1>6. LogShape'
  BY <1>1, <1>4, <1>5 DEF LogShape
<1>7. OnePlace'
  <2>1. ASSUME NEW r \in Nat, Occurs(records', r)
        PROVE  r \in 1 .. logged' /\ Dated(r)' /\ \A d \in 1 .. Days : ~Occurs(files'[d], r)
    BY <1>1, <1>4, <1>5, <2>1 DEF OnePlace
  <2>2. ASSUME NEW d \in 1 .. Days, NEW r \in Nat, Occurs(files'[d], r)
        PROVE  r \in 1 .. logged' /\ Dated(r)' /\ day'[r] = d
    BY <1>2, <1>4, <1>5, <2>2 DEF OnePlace
  <2>3. ASSUME NEW l \in Loggers, logger'[l].at # "idle"
        PROVE  /\ logger'[l].record \in 1 .. logged' \ due'
               /\ ~Occurs(records', logger'[l].record)
               /\ \A d \in 1 .. Days : ~Occurs(files'[d], logger'[l].record)
               /\ \A k \in Loggers :
                    logger'[k].at # "idle" /\ logger'[k].record = logger'[l].record => k = l
    BY <1>1, <1>4, <1>5, <2>3 DEF OnePlace
  <2>4. CallsDated'
    BY <1>5 DEF OnePlace, CallsDated
  <2> QED BY <1>1, <1>4, <2>1, <2>2, <2>3, <2>4 DEF OnePlace
<1> QED BY <1>1, <1>6, <1>7

\* A caller has a record to log.
LEMMA HandleKeeps == ASSUME LogInv, NEW l \in Loggers, Handle(l) PROVE LogInv'
<1> DEFINE n == logged + 1
<1>1. /\ logged \in Nat /\ n \in 1 .. MaxLogged /\ logged' = n /\ n > logged
      /\ stamp' = [stamp EXCEPT ![n] = today] /\ day' = day
      /\ logger' = [logger EXCEPT ![l] = [at |-> "note", record |-> n]]
      /\ UNCHANGED <<records, dropped, shutdown, logDisk>> /\ logger[l].at = "idle"
  BY LogParameters DEF Handle, logQueue, LogInv, LogShape
<1>2. UNCHANGED <<records, files, today, due, done, run, close, stop, cancelled>>
  BY <1>1 DEF shutdown, logDisk
<1> HIDE DEF n
<1>3. /\ stamp' \in [1 .. MaxLogged -> Nat] /\ stamp'[n] = today
      /\ \A r \in 1 .. logged : stamp'[r] = stamp[r]
  BY <1>1 DEF LogInv, LogShape
<1>4. /\ logger' \in [Loggers -> Calls]
      /\ logger'[l].record = n /\ logger'[l].at = "note"
      /\ \A k \in Loggers : k # l => logger'[k] = logger[k]
  <2>1. PICK g \in Calls :
          g = [at |-> "note", record |-> n] /\ g.record = n /\ g.at = "note"
    <3>1. n \in Nat
      BY <1>1
    <3>2. PICK g : g = [at |-> "note", record |-> n]
      OBVIOUS
    <3>3. g \in Calls /\ g.record = n /\ g.at = "note"
      BY <3>1, <3>2 DEF Calls, LogPlaces
    <3> QED BY <3>2, <3>3
  <2> QED BY <1>1, <2>1 DEF LogInv, LogShape
<1>5. \A x \in Nat : /\ Occurs(records, x) => x \in 1 .. logged
                     /\ \A d \in 1 .. Days : Occurs(files[d], x) => x \in 1 .. logged
  BY DEF LogInv, OnePlace
<1>6. LogShape'
  <2>1. today \in 1 .. Days /\ \A r \in 1 .. n : r \in 1 .. logged \/ r = n
    BY <1>1 DEF LogInv, LogShape, n
  <2>2. \A r \in 1 .. n : stamp'[r] \in 1 .. today
    BY <1>3, <2>1 DEF LogInv, LogShape
  <2> QED BY <1>1, <1>2, <1>3, <1>4, <2>2 DEF LogInv, LogShape
<1>7. OnePlace'
  <2>1. ASSUME NEW k \in Loggers, logger'[k].at # "idle"
        PROVE  /\ logger'[k].record \in 1 .. n \ due
               /\ ~Occurs(records, logger'[k].record)
               /\ \A d \in 1 .. Days : ~Occurs(files[d], logger'[k].record)
               /\ \A j \in Loggers :
                    logger'[j].at # "idle" /\ logger'[j].record = logger'[k].record => j = k
    <3>1. n \notin 1 .. logged /\ n \in 1 .. n /\ 1 .. logged \subseteq 1 .. n
      BY <1>1
    <3>2. \A j \in Loggers : j # l /\ logger'[j].at # "idle" =>
            logger'[j].record \in 1 .. logged \ due
      BY <1>4 DEF LogInv, OnePlace
    <3>3. CASE k = l
      <4>1. due \subseteq 1 .. logged /\ n \in Nat
        BY <1>1 DEF LogInv, LogShape
      <4> QED BY <1>4, <1>5, <3>1, <3>2, <3>3, <4>1
    <3>4. CASE k # l
      BY <1>4, <2>1, <3>1, <3>2, <3>4 DEF LogInv, OnePlace
    <3> QED BY <3>3, <3>4
  <2>2. \A r \in 1 .. logged : Dated(r)' <=> Dated(r)
    BY <1>1, <1>3 DEF Dated
  <2>3. ASSUME NEW d \in 1 .. Days, NEW r \in Nat, Occurs(files[d], r)
        PROVE  r \in 1 .. n /\ Dated(r)' /\ day'[r] = d
    BY <1>1, <1>5, <2>2, <2>3 DEF LogInv, OnePlace
  <2>4. ASSUME NEW r \in Nat, Occurs(records, r) PROVE r \in 1 .. n /\ Dated(r)'
    BY <1>1, <1>5, <2>2, <2>4 DEF LogInv, OnePlace
  <2>5. CallsDated'
    <3>1. ASSUME NEW k \in Loggers, logger'[k].at \in {"check", "send"}
          PROVE  \E r \in Nat : r = logger'[k].record /\ Dated(r)'
      <4>1. k # l /\ logger'[k] = logger[k] /\ logger[k].record \in 1 .. logged
        BY <1>4, <3>1 DEF LogInv, OnePlace
      <4>2. PICK r \in Nat : r = logger[k].record /\ Dated(r)
        BY <3>1, <4>1 DEF LogInv, OnePlace, CallsDated
      <4> QED BY <2>2, <4>1, <4>2
    <3> QED BY <3>1 DEF CallsDated
  <2> QED BY <1>1, <1>2, <2>1, <2>3, <2>4, <2>5 DEF LogInv, OnePlace
<1> QED BY <1>2, <1>6, <1>7 DEF LogInv, Ending, Ended, Drained

\* A caller that goes on, or gives up.
LEMMA MovesOn ==
  ASSUME LogShape, NEW l \in Loggers, logger[l].at # "idle",
         NEW at \in LogPlaces, logger' = [logger EXCEPT ![l].at = at]
  PROVE  /\ logger' \in [Loggers -> Calls]
         /\ \A k \in Loggers : /\ logger'[k].record = logger[k].record
                               /\ logger'[k].at # "idle" => logger[k].at # "idle"
                               /\ k # l => logger'[k] = logger[k]
         /\ logger'[l].at = at
<1>1. PICK g \in Calls :
        g = [logger[l] EXCEPT !.at = at] /\ g.record = logger[l].record /\ g.at = at
  <2>1. logger[l] \in Calls
    BY DEF LogShape
  <2>2. PICK g : g = [logger[l] EXCEPT !.at = at]
    OBVIOUS
  <2>3. /\ g = [at |-> at, record |-> logger[l].record] /\ logger[l].record \in Nat
        /\ at \in LogPlaces
    BY <2>1, <2>2 DEF Calls, LogPlaces
  <2>4. g \in Calls /\ g.record = logger[l].record /\ g.at = at
    BY <2>3 DEF Calls
  <2> QED BY <2>2, <2>4
<1> QED BY <1>1 DEF LogShape

\* A caller notes the record under the day it is.
LEMMA NoteKeeps == ASSUME LogInv, NEW l \in Loggers, NoteRecord(l) PROVE LogInv'
<1>0. PICK r : r = logger[l].record
  OBVIOUS
<1>1. /\ UNCHANGED <<records, files, today, due, done, run, close, stop, cancelled, logged, stamp>>
      /\ logger[l].at = "note" /\ logger' = [logger EXCEPT ![l].at = "check"]
      /\ day' = [day EXCEPT ![r] = today]
  BY <1>0 DEF NoteRecord, shutdown, logDisk, logQueue
<1>2. /\ r \in 1 .. logged /\ r \in Nat /\ ~Occurs(records, r)
      /\ \A d \in 1 .. Days : ~Occurs(files[d], r)
      /\ \A k \in Loggers : logger[k].at # "idle" /\ logger[k].record = r => k = l
  BY <1>0, <1>1 DEF LogInv, LogShape, OnePlace
<1>3. /\ logger' \in [Loggers -> Calls] /\ logger'[l].at = "check"
      /\ \A k \in Loggers : /\ logger'[k].record = logger[k].record
                            /\ logger'[k].at # "idle" => logger[k].at # "idle"
                            /\ k # l => logger'[k] = logger[k]
  <2>1. "check" \in LogPlaces /\ logger[l].at # "idle"
    BY <1>1 DEF LogPlaces
  <2> QED BY <1>1, <2>1, MovesOn DEF LogInv
<1>4. r \in 1 .. MaxLogged /\ today \in 1 .. Days /\ today \in Nat /\ stamp[r] \in 1 .. today
  BY <1>2, LogParameters DEF LogInv, LogShape
<1>5. /\ day' \in [1 .. MaxLogged -> Nat] /\ day'[r] = today
      /\ \A q \in 1 .. MaxLogged : q # r => day'[q] = day[q]
  BY <1>1, <1>4 DEF LogInv, LogShape
<1>6. Dated(r)' /\ \A q \in 1 .. logged : q # r /\ Dated(q) => Dated(q)'
  <2>1. 1 .. logged \subseteq 1 .. MaxLogged
    BY LogParameters DEF LogInv, LogShape
  <2>2. stamp' = stamp
    BY <1>1
  <2>3. Dated(r)'
    BY <1>4, <1>5, <2>2 DEF Dated
  <2>4. ASSUME NEW q \in 1 .. logged, q # r, Dated(q) PROVE Dated(q)'
    <3>1. day'[q] = day[q]
      BY <1>5, <2>1, <2>4
    <3> QED BY <2>2, <2>4, <3>1 DEF Dated
  <2> QED BY <2>3, <2>4
<1>9. \A q \in 1 .. logged : q # r => day'[q] = day[q]
  <2>1. 1 .. logged \subseteq 1 .. MaxLogged
    BY LogParameters DEF LogInv, LogShape
  <2> QED BY <1>5, <2>1
<1>7. LogShape'
  BY <1>1, <1>3, <1>5 DEF LogInv, LogShape
<1>8. OnePlace'
  <2>1. CallsDated'
    <3>1. ASSUME NEW k \in Loggers, logger'[k].at \in {"check", "send"}, k # l
          PROVE  \E q \in Nat : q = logger'[k].record /\ Dated(q)'
      <4>1. logger'[k] = logger[k]
        BY <1>3, <3>1
      <4>2. PICK q \in Nat : q = logger[k].record /\ Dated(q)
        BY <3>1, <4>1 DEF LogInv, OnePlace, CallsDated
      <4>3. q # r
        BY <1>2, <3>1, <4>1, <4>2
      <4>4. q \in 1 .. logged
        BY <1>3, <3>1, <4>1, <4>2 DEF LogInv, OnePlace
      <4>5. Dated(q)'
        BY <1>6, <4>2, <4>3, <4>4
      <4> QED BY <4>1, <4>2, <4>5
    <3>2. logger'[l].record = r
      BY <1>0, <1>3
    <3>3. Dated(r)'
      BY <1>6
    <3>4. \A k \in Loggers : logger'[k].at \in {"check", "send"} =>
            \E q \in Nat : q = logger'[k].record /\ Dated(q)'
      <4>1. TAKE k \in Loggers
      <4>2. CASE k = l
        BY <1>2, <3>2, <3>3, <4>2
      <4>3. CASE k # l
        BY <3>1, <4>3
      <4> QED BY <4>2, <4>3
    <3> QED BY <3>4 DEF CallsDated
  <2>2. \A q \in Nat : Occurs(records, q) => q # r
    BY <1>2
  <2>3. \A d \in 1 .. Days : \A q \in Nat : Occurs(files[d], q) => q # r
    BY <1>2
  <2>4. \A q \in Nat : Occurs(records, q) =>
          q \in 1 .. logged /\ Dated(q)' /\ \A d \in 1 .. Days : ~Occurs(files[d], q)
    BY <1>6, <2>2 DEF LogInv, OnePlace
  <2>5. \A d \in 1 .. Days : \A q \in Nat : Occurs(files[d], q) =>
          q \in 1 .. logged /\ Dated(q)' /\ day'[q] = d
    BY <1>6, <1>9, <2>3 DEF LogInv, OnePlace
  <2>6. \A k \in Loggers : logger'[k].at # "idle" =>
          /\ logger'[k].record \in 1 .. logged \ due
          /\ ~Occurs(records, logger'[k].record)
          /\ \A d \in 1 .. Days : ~Occurs(files[d], logger'[k].record)
          /\ \A m \in Loggers :
               logger'[m].at # "idle" /\ logger'[m].record = logger'[k].record => m = k
    BY <1>3 DEF LogInv, OnePlace
  <2>7. Distinct(records) /\ \A d \in 1 .. Days : Distinct(files[d])
    BY DEF LogInv, OnePlace
  <2> QED BY <1>1, <2>1, <2>4, <2>5, <2>6, <2>7 DEF OnePlace
<1> QED BY <1>1, <1>7, <1>8 DEF LogInv, Ending, Ended, Drained

\* A caller looks whether the log was stopped.
LEMMA CheckKeeps == ASSUME LogInv, NEW l \in Loggers, Check(l) PROVE LogInv'
<1>1. /\ UNCHANGED <<records, files, today, due, done, run, close, stop, cancelled, logged, stamp, day>>
      /\ \A r : Dated(r)' <=> Dated(r)
  BY DEF Check, shutdown, logDisk, logQueue, Dated
<1>2. PICK at \in LogPlaces : /\ logger' = [logger EXCEPT ![l].at = at]
                              /\ at \in {"idle", "send"} /\ logger[l].at = "check"
  BY DEF Check, LogPlaces
<1>4. /\ logger' \in [Loggers -> Calls]
      /\ \A k \in Loggers : /\ logger'[k].record = logger[k].record
                            /\ logger'[k].at # "idle" => logger[k].at # "idle"
                            /\ k # l => logger'[k] = logger[k]
  BY <1>2, MovesOn DEF LogInv
<1>5. LogShape'
  BY <1>1, <1>4 DEF LogInv, LogShape
<1>6. OnePlace'
  <2>1. CallsDated'
    BY <1>1, <1>2, <1>4 DEF LogInv, OnePlace, CallsDated
  <2> QED BY <1>1, <1>4, <2>1 DEF LogInv, OnePlace
<1> QED BY <1>1, <1>5, <1>6 DEF LogInv, Ending, Ended, Drained

\* A record goes into the queue, or is dropped.
LEMMA EnqueueKeeps == ASSUME LogInv, NEW l \in Loggers, Enqueue(l) PROVE LogInv'
<1> DEFINE r == logger[l].record
<1>1. /\ UNCHANGED <<files, today, due, done, run, close, stop, cancelled, logged, stamp, day>>
      /\ logger' = [logger EXCEPT ![l].at = "idle"] /\ logger[l].at = "send"
      /\ records' = records \/ records' = Append(records, r)
      /\ \A q : Dated(q)' <=> Dated(q)
  BY DEF Enqueue, shutdown, logDisk, Dated
<1>2. /\ r \in Nat /\ r \in 1 .. logged \ due /\ Dated(r) /\ ~Occurs(records, r)
      /\ \A d \in 1 .. Days : ~Occurs(files[d], r)
      /\ \A k \in Loggers : logger[k].at # "idle" /\ logger[k].record = r => k = l
  BY <1>1 DEF LogInv, LogShape, OnePlace, CallsDated
<1>3. /\ logger' \in [Loggers -> Calls]
      /\ \A k \in Loggers : /\ logger'[k].record = logger[k].record
                            /\ logger'[k].at # "idle" => logger[k].at # "idle" /\ k # l
                            /\ k # l => logger'[k] = logger[k]
  <2>1. "idle" \in LogPlaces /\ logger[l].at # "idle"
    BY <1>1 DEF LogPlaces
  <2> QED BY <1>1, <2>1, MovesOn DEF LogInv
<1> HIDE DEF r
<1>4. /\ records' \in Seq(Nat) /\ Distinct(records')
      /\ \A x : Occurs(records', x) => Occurs(records, x) \/ x = r
  <2>1. records \in Seq(Nat) /\ Distinct(records)
    BY DEF LogInv, LogShape, OnePlace
  <2>2. /\ Append(records, r) \in Seq(Nat) /\ Distinct(Append(records, r))
        /\ \A x : Occurs(Append(records, r), x) <=> Occurs(records, x) \/ x = r
    BY <1>2, <2>1, OccursAppend
  <2> QED BY <1>1, <2>1, <2>2
<1>5. LogShape'
  BY <1>1, <1>3, <1>4 DEF LogInv, LogShape
<1>6. OnePlace'
  <2>1. ASSUME NEW k \in Loggers, logger'[k].at # "idle"
        PROVE  /\ logger'[k].record \in 1 .. logged \ due
               /\ ~Occurs(records', logger'[k].record)
               /\ \A d \in 1 .. Days : ~Occurs(files[d], logger'[k].record)
               /\ \A j \in Loggers :
                    logger'[j].at # "idle" /\ logger'[j].record = logger'[k].record => j = k
    BY <1>2, <1>3, <1>4, <2>1 DEF LogInv, OnePlace
  <2>2. ASSUME NEW x \in Nat, Occurs(records', x)
        PROVE  x \in 1 .. logged /\ Dated(x)' /\ \A d \in 1 .. Days : ~Occurs(files[d], x)
    BY <1>1, <1>2, <1>4, <2>2 DEF LogInv, OnePlace
  <2>3. CallsDated'
    BY <1>1, <1>3 DEF LogInv, OnePlace, CallsDated
  <2>4. \A d \in 1 .. Days : \A x \in Nat : Occurs(files[d], x) =>
          x \in 1 .. logged /\ Dated(x)' /\ day[x] = d
    BY <1>1 DEF LogInv, OnePlace
  <2> QED BY <1>1, <1>4, <2>1, <2>2, <2>3, <2>4 DEF LogInv, OnePlace
<1>7. Drained'
  BY <1>1, <1>2, <1>4 DEF LogInv, Drained, Ended
<1> QED BY <1>1, <1>5, <1>6, <1>7 DEF LogInv, Ending

\* Run, its drain or that of Close writes the oldest record, or finds none.
LEMMA RunKeeps == LogInv /\ (Run \/ Drain \/ CloseDrain) => LogInv'
<1> SUFFICES ASSUME LogInv, Run \/ Drain \/ CloseDrain PROVE LogInv'
  OBVIOUS
<1>1. UNCHANGED <<today, logCalls, due, stop, cancelled>>
  BY DEF Run, Drain, CloseDrain, shutdown
<1>2. CASE records # <<>>
  <2>1. /\ WriteRecord(Head(records)) /\ records' = Tail(records)
        /\ UNCHANGED <<done, run, close>>
    BY <1>2 DEF Run, Drain, CloseDrain, shutdown
  <2>2. LogShape' /\ OnePlace' /\ \A r : Occurs(records', r) => Occurs(records, r)
    BY <1>1, <1>2, <2>1, WriteKeeps DEF LogInv
  <2> QED BY <1>1, <2>1, <2>2 DEF LogInv, Ending, Drained, Ended
<1>3. CASE records = <<>>
  <2>1. /\ UNCHANGED <<files, records>>
        /\ \/ run = "drain" /\ run' = "end" /\ UNCHANGED <<close, done>>
           \/ close = "drain" /\ close' = "file" /\ done' = done + 1 /\ UNCHANGED run
    BY <1>3 DEF Run, Drain, CloseDrain
  <2>2. LogShape'
    BY <1>1, <2>1 DEF LogInv, LogShape, logCalls
  <2>3. OnePlace'
    BY <1>1, <2>1 DEF LogInv, OnePlace, logCalls, Dated, CallsDated
  <2>4. Ending'
    BY <1>1, <2>1 DEF LogInv, LogShape, Ending
  <2>5. Drained'
    BY <1>3, <2>1, OccursEmpty DEF Drained
  <2> QED BY <2>2, <2>3, <2>4, <2>5 DEF LogInv
<1> QED BY <1>2, <1>3

\* An end is asked for: what is in the queue is due.
LEMMA DueKeeps ==
  ASSUME LogInv, CancelRun \/ CloseStop PROVE LogInv'
<1>1. /\ UNCHANGED <<records, files, today, logged, stamp, day, logger, done, run>>
      /\ due' = due \/ due' = ToSet(records)
  BY DEF CancelRun, CloseStop, logQueue, logDisk, logCalls
<1>2. \A x : x \in ToSet(records) <=> Occurs(records, x)
  BY DEF ToSet, Occurs
<1>3. due' \subseteq 1 .. logged
  <2>1. \A x : Occurs(records, x) => x \in Nat
    BY DEF LogInv, LogShape, Occurs
  <2>2. \A x : Occurs(records, x) => x \in 1 .. logged
    BY <2>1 DEF LogInv, OnePlace
  <2> QED BY <1>1, <1>2, <2>2 DEF LogInv, LogShape
<1>4. LogShape'
  BY <1>1, <1>3 DEF LogInv, LogShape
<1>5. OnePlace'
  BY <1>1, <1>2 DEF LogInv, OnePlace, Dated, CallsDated
<1>6. Ending'
  BY <1>1 DEF LogInv, Ending, CancelRun, CloseStop
<1>7. Drained'
  BY <1>1 DEF LogInv, Ending, Drained, Ended, CancelRun, CloseStop
<1> QED BY <1>4, <1>5, <1>6, <1>7 DEF LogInv

\* The other steps of an end, and the day.
LEMMA EndKeeps ==
  ASSUME LogInv,
         Midnight \/ Start \/ RunEnds \/ RunOver \/ CloseBegin \/ CloseLook \/ CloseWait \/ CloseFile
  PROVE  LogInv'
<1>1. UNCHANGED <<records, files, logged, stamp, day, logger, due>>
  BY DEF Midnight, Start, RunEnds, RunOver, CloseBegin, CloseLook, CloseWait, CloseFile,
         logQueue, logDisk, logCalls, shutdown
<1>2. today' \in 1 .. Days /\ done' \in Nat /\ today' >= today
  BY LogParameters DEF LogInv, LogShape, Midnight, Start, RunEnds, RunOver, CloseBegin, CloseLook, CloseWait,
         CloseFile, logDisk, shutdown
<1>3. LogShape' /\ OnePlace'
  <2>1. \A r \in 1 .. logged : stamp[r] \in 1 .. today'
    BY <1>2, LogParameters DEF LogInv, LogShape
  <2>2. LogShape'
    BY <1>1, <1>2, <2>1 DEF LogInv, LogShape
  <2> QED BY <1>1, <2>2 DEF LogInv, OnePlace, Dated, CallsDated
<1>4. Ending'
  BY DEF LogInv, LogShape, Ending, Midnight, Start, RunEnds, RunOver, CloseBegin, CloseLook,
         CloseWait, CloseFile, shutdown
<1>5. Drained'
  <2>1. Ended' => Ended
    BY DEF LogInv, Ending, Ended, Midnight, Start, RunEnds, RunOver, CloseBegin, CloseLook,
           CloseWait, CloseFile, shutdown
  <2> QED BY <1>1, <2>1 DEF LogInv, Drained
<1> QED BY <1>3, <1>4, <1>5 DEF LogInv

\* Every step of the log keeps the invariant.
LEMMA LogInvKept == LogInv /\ [LogNext]_logVars => LogInv'
<1>1. LogInv /\ UNCHANGED logVars => LogInv'
  BY DEF LogInv, LogShape, OnePlace, Dated, CallsDated, Ending, Ended, Drained, logVars
<1> QED BY <1>1, HandleKeeps, NoteKeeps, CheckKeeps, EnqueueKeeps, RunKeeps, DueKeeps, EndKeeps DEF LogNext

\* The invariant says what the run checks.
LEMMA LogInvSays == LogInv => OnceInItsFile /\ EndDrains
<1> SUFFICES ASSUME LogInv PROVE OnceInItsFile /\ EndDrains
  OBVIOUS
<1>1. OnceInItsFile
  <2> SUFFICES ASSUME NEW d \in 1 .. Days, NEW i \in DOMAIN files[d], NEW j \in DOMAIN files[d]
               PROVE  /\ day[files[d][i]] = d /\ stamp[files[d][i]] \in 1 .. d
                      /\ i # j => files[d][i] # files[d][j]
    BY DEF OnceInItsFile
  <2>1. files[d] \in Seq(Nat)
    BY DEF LogInv, LogShape
  <2>2. files[d][i] \in Nat /\ Occurs(files[d], files[d][i])
    BY <2>1 DEF Occurs
  <2> QED BY <2>1, <2>2 DEF LogInv, OnePlace, Dated, CallsDated, Distinct
<1>2. EndDrains
  <2>1. \A x \in ToSet(records) : Occurs(records, x)
    BY DEF ToSet, Occurs
  <2> QED BY <2>1 DEF LogInv, EndDrains, Drained, Ended
<1> QED BY <1>1, <1>2

\* A record that is in the log is there once and in the file of the day it was noted, with
\* a field ts of that day or of one before, and an orderly
\* end has drained the records before it, for any number of callers, days and places in
\* the queue (logging/collector.go).
THEOREM OnceInItsFileAlways == LogSpec => [](OnceInItsFile /\ EndDrains)
  BY LogInvFirst, LogInvKept, LogInvSays, PTL DEF LogSpec

-----------------------------------------------------------------------------
(* The wiki *)

\* Where an operation of the wiki may be, and what it carries.
Places == {"idle", "write", "rename", "index", "unindex", "clear", "list"}
Writers ==
  [at : Places, op : {"none", "put", "delete", "rebuild"}, id : Articles \cup {0}, text : Nat,
   left : SUBSET Articles, listed : [Articles -> Nat] \cup {<<>>}, touched : SUBSET Articles]

\* The shape of the state.
WikiShape ==
  /\ page \in [Articles -> Nat] /\ rows \in [Articles -> Nat]
  /\ partial \in [Articles -> Int] /\ heldTexts \in [Articles -> SUBSET Nat]
  /\ writer \in Writers /\ versions \in Nat
  /\ drifted \subseteq Articles /\ listing \subseteq Articles

\* What each step of an operation may rely on.
Steps ==
  /\ writer.at = "idle" <=> writer.op = "none"
  /\ writer.op \in {"put", "delete"} => writer.id \in Articles
  /\ writer.at \in {"write", "rename"} => writer.op = "put"
  /\ writer.at = "index" => writer.op \in {"put", "rebuild"}
  /\ writer.at = "unindex" => writer.op = "delete"
  /\ writer.at = "clear" => writer.op = "rebuild"
  /\ writer.op = "rebuild" => writer.listed \in [Articles -> Nat]
  /\ writer.touched \subseteq drifted

\* Every text that is in the index, or on its way there, was an article's.
TextsHeld ==
  /\ \A i \in Articles : /\ page[i] # 0 => page[i] \in heldTexts[i]
                         /\ rows[i] # 0 => rows[i] \in heldTexts[i]
  /\ writer.at = "rename" => partial[writer.id] = writer.text
  /\ writer.at = "index" /\ writer.op = "put" => writer.text \in heldTexts[writer.id]
  /\ writer.at \in {"clear", "index"} /\ writer.op = "rebuild" =>
       \A i \in writer.left : writer.listed[i] \in heldTexts[i]

\* What nobody touched since is as the operation found or left it.
Untouched ==
  /\ writer.at = "index" /\ writer.op = "put" /\ writer.id \notin writer.touched =>
       page[writer.id] = writer.text
  /\ writer.at = "unindex" /\ writer.id \notin writer.touched => page[writer.id] = 0
  /\ writer.at \in {"clear", "index"} /\ writer.op = "rebuild" =>
       \A i \in Articles \ writer.touched : page[i] = writer.listed[i]
  /\ writer.at = "clear" => \A i \in Articles \ writer.left : writer.listed[i] = 0
  /\ writer.at = "index" /\ writer.op = "rebuild" =>
       \A i \in Articles \ (writer.left \cup writer.touched) : rows[i] = writer.listed[i]

\* The index and the listing follow the files, but for what drifted and what the
\* operation in progress is about; before the listing is written the index has caught up.
Followed ==
  /\ \A i \in Articles \ (drifted \cup About) : rows[i] = page[i] /\ (i \in listing <=> page[i] # 0)
  /\ writer.at = "list" => \A i \in Articles \ drifted : rows[i] = page[i]

\* The inductive invariant of the wiki.
WikiInv == WikiShape /\ Steps /\ TextsHeld /\ Untouched /\ Followed

\* No operation is under way.
LEMMA IdleIs ==
  /\ IdleWriter \in Writers /\ IdleWriter.at = "idle" /\ IdleWriter.op = "none"
  /\ IdleWriter.touched = {}
  BY DEF IdleWriter, Writers, Places

\* About, by the operation.
LEMMA AboutIs ==
  ASSUME writer \in Writers
  PROVE  /\ writer.op = "none" => About = {}
         /\ writer.op = "rebuild" => About = Articles
         /\ writer.op \in {"put", "delete"} => About = {writer.id}
  BY DEF About, Writers

\* No article at first.
LEMMA WikiInvFirst == WikiInit => WikiInv
<1> SUFFICES ASSUME WikiInit PROVE WikiInv
  OBVIOUS
<1>1. WikiShape /\ Steps
  BY IdleIs DEF WikiInit, WikiShape, Steps
<1>2. TextsHeld /\ Untouched
  BY IdleIs DEF WikiInit, TextsHeld, Untouched
<1>3. Followed
  BY IdleIs DEF WikiInit, Followed
<1> QED BY <1>1, <1>2, <1>3 DEF WikiInv

\* An operation that ends, with what it is about left to have drifted or in step.
LEMMA EndsIdle ==
  ASSUME WikiShape', writer' = IdleWriter,
         \A i \in Articles : /\ page'[i] # 0 => page'[i] \in heldTexts'[i]
                             /\ rows'[i] # 0 => rows'[i] \in heldTexts'[i],
         \A i \in Articles \ drifted' : rows'[i] = page'[i] /\ (i \in listing' <=> page'[i] # 0)
  PROVE  WikiInv'
<1>1. About' = {}
  BY IdleIs DEF About
<1>2. Steps'
  BY IdleIs DEF Steps
<1>3. TextsHeld' /\ Untouched'
  BY IdleIs DEF TextsHeld, Untouched
<1>4. Followed'
  BY <1>1, IdleIs DEF Followed
<1> QED BY <1>2, <1>3, <1>4 DEF WikiInv

\* Whoever opens the index reads its version, or records it.
LEMMA OpenKeeps ==
  ASSUME WikiInv, NEW p \in Callers, ReadVersion(p) \/ RecordVersion(p) PROVE WikiInv'
<1>1. UNCHANGED <<page, partial, rows, listing, writer, versions, heldTexts, drifted>>
  BY DEF ReadVersion, RecordVersion, wikiDisk
<1> QED BY <1>1 DEF WikiInv, WikiShape, Steps, TextsHeld, Untouched, Followed, About

\* What only reads.
LEMMA SearchKeeps == WikiInv /\ (Search \/ List \/ Query \/ CloseIndex) => WikiInv'
<1> SUFFICES ASSUME WikiInv, Search \/ List \/ Query \/ CloseIndex PROVE WikiInv'
  OBVIOUS
<1>1. UNCHANGED <<page, partial, rows, listing, writer, versions, heldTexts, drifted>>
  BY DEF Search, List, Query, CloseIndex, wikiDisk
<1> QED BY <1>1 DEF WikiInv, WikiShape, Steps, TextsHeld, Untouched, Followed, About

\* Whoever finds an index of another version drops it.
LEMMA DropKeeps == ASSUME WikiInv, NEW p \in Callers, DropStale(p) PROVE WikiInv'
<1>1. PICK gone \in SUBSET Articles, more \in SUBSET Articles :
        /\ gone = {i \in Articles : rows[i] # 0}
        /\ more \subseteq gone /\ (writer.op = "rebuild" /\ writer.at = "index" => more = gone)
        /\ rows' = [i \in Articles |-> 0] /\ drifted' = drifted \cup gone
        /\ writer' = [writer EXCEPT !.touched = writer.touched \cup more]
        /\ UNCHANGED <<page, partial, listing, versions, heldTexts>>
  <2>1. PICK gone : gone = {i \in Articles : rows[i] # 0}
    OBVIOUS
  <2>2. PICK more : more = IF writer.op = "rebuild" /\ writer.at = "index" THEN gone ELSE {}
    OBVIOUS
  <2>3. gone \in SUBSET Articles /\ more \in SUBSET Articles /\ more \subseteq gone
    BY <2>1, <2>2
  <2>4. /\ rows' = [i \in Articles |-> 0] /\ drifted' = drifted \cup gone
        /\ writer' = [writer EXCEPT !.touched = IF writer.op = "rebuild" /\ writer.at = "index"
                                                THEN writer.touched \cup gone ELSE writer.touched]
        /\ UNCHANGED <<page, partial, listing, versions, heldTexts>>
    BY <2>1 DEF DropStale
  <2>5. writer' = [writer EXCEPT !.touched = writer.touched \cup more]
    BY <2>2, <2>4
  <2> QED BY <2>1, <2>2, <2>3, <2>4, <2>5
<1>2. /\ writer' \in Writers /\ writer'.touched = writer.touched \cup more
      /\ \A f \in {"at", "op", "id", "text", "left", "listed"} : writer'[f] = writer[f]
  <2>1. writer \in Writers
    BY DEF WikiInv, WikiShape
  <2> QED BY <1>1, <2>1 DEF Writers
<1>3. /\ writer'.at = writer.at /\ writer'.op = writer.op /\ writer'.id = writer.id
      /\ writer'.text = writer.text /\ writer'.left = writer.left
      /\ writer'.listed = writer.listed /\ About' = About
  BY <1>2 DEF About
<1>4. WikiShape' /\ Steps'
  BY <1>1, <1>2, <1>3 DEF WikiInv, WikiShape, Steps
<1>5. TextsHeld'
  BY <1>1, <1>3 DEF WikiInv, TextsHeld
<1>6. \A i \in Articles : rows'[i] = 0 /\ (i \notin gone => rows[i] = 0)
  BY <1>1
<1>7. Untouched'
  <2>1. ASSUME writer.at = "index", writer.op = "rebuild",
               NEW i \in Articles \ (writer.left \cup writer'.touched)
        PROVE  rows'[i] = writer.listed[i]
    BY <1>1, <1>2, <1>6, <2>1 DEF WikiInv, Untouched
  <2> QED BY <1>1, <1>2, <1>3, <2>1 DEF WikiInv, Untouched
<1>8. Followed'
  BY <1>1, <1>3, <1>6 DEF WikiInv, Followed
<1> QED BY <1>4, <1>5, <1>7, <1>8 DEF WikiInv

\* A Put begins.
LEMMA PutKeeps == ASSUME WikiInv, NEW a \in Articles, Put(a) PROVE WikiInv'
<1>1. /\ writer.at = "idle" /\ versions' = versions + 1 /\ versions \in Nat
      /\ writer' = [IdleWriter EXCEPT !.at = "write", !.op = "put", !.id = a, !.text = versions']
      /\ partial' = [partial EXCEPT ![a] = Half]
      /\ UNCHANGED <<page, rows, listing, heldTexts, drifted>>
  BY DEF Put, WikiInv, WikiShape
<1>2. /\ writer' \in Writers /\ writer'.at = "write" /\ writer'.op = "put" /\ writer'.id = a
      /\ writer'.touched = {}
  <2>1. PICK v \in Nat : v = versions'
    BY <1>1
  <2>2. writer' = [IdleWriter EXCEPT !.at = "write", !.op = "put", !.id = a, !.text = v]
    BY <1>1, <2>1
  <2> QED BY <2>1, <2>2 DEF IdleWriter, Writers, Places
<1>3. writer.op = "none" /\ About = {} /\ About' = {a}
  BY <1>1, <1>2, AboutIs DEF WikiInv, WikiShape, Steps, About
<1>4. WikiShape' /\ Steps'
  BY <1>1, <1>2 DEF WikiInv, WikiShape, Steps, Half
<1>5. TextsHeld' /\ Untouched'
  BY <1>1, <1>2 DEF WikiInv, TextsHeld, Untouched
<1>6. Followed'
  BY <1>1, <1>2, <1>3 DEF WikiInv, Followed
<1> QED BY <1>4, <1>5, <1>6 DEF WikiInv

\* Steps of the writer that change its place.
LEMMA Placed ==
  ASSUME writer \in Writers, NEW at \in Places, To(at)
  PROVE  /\ writer' \in Writers /\ writer'.at = at /\ writer'.op = writer.op
         /\ writer'.id = writer.id /\ writer'.text = writer.text /\ writer'.left = writer.left
         /\ writer'.listed = writer.listed /\ writer'.touched = writer.touched
         /\ About' = About
  BY DEF To, Writers, About

\* A text is written beside the file of its article.
LEMMA WriteKeeps1 == WikiInv /\ Write => WikiInv'
<1> SUFFICES ASSUME WikiInv, Write PROVE WikiInv'
  OBVIOUS
<1>1. /\ writer.at = "write" /\ To("rename")
      /\ partial' = [partial EXCEPT ![writer.id] = writer.text]
      /\ UNCHANGED <<page, rows, listing, versions, heldTexts, drifted>>
      /\ writer \in Writers /\ writer.op = "put" /\ writer.id \in Articles /\ writer.text \in Nat
  BY DEF Write, WikiInv, WikiShape, Steps, Writers
<1>2. /\ writer' \in Writers /\ writer'.at = "rename" /\ writer'.op = writer.op
      /\ writer'.id = writer.id /\ writer'.text = writer.text /\ writer'.left = writer.left
      /\ writer'.listed = writer.listed /\ writer'.touched = writer.touched /\ About' = About
  <2>1. "rename" \in Places
    BY DEF Places
  <2> QED BY <1>1, <2>1, Placed
<1>3. partial' \in [Articles -> Int] /\ partial'[writer.id] = writer.text
  BY <1>1 DEF WikiInv, WikiShape
<1>4. WikiShape' /\ Steps'
  BY <1>1, <1>2, <1>3 DEF WikiInv, WikiShape, Steps
<1>5. TextsHeld' /\ Untouched' /\ Followed'
  BY <1>1, <1>2, <1>3 DEF WikiInv, TextsHeld, Untouched, Followed
<1> QED BY <1>4, <1>5 DEF WikiInv

\* The text replaces the file.
LEMMA RenameKeeps == WikiInv /\ Rename => WikiInv'
<1> SUFFICES ASSUME WikiInv, Rename PROVE WikiInv'
  OBVIOUS
<1> DEFINE a == writer.id
           t == writer.text
<1>1. /\ writer.at = "rename" /\ writer.op = "put" /\ a \in Articles /\ t \in Nat
      /\ partial[a] = t /\ writer \in Writers
      /\ page' = [page EXCEPT ![a] = t]
      /\ heldTexts' = [heldTexts EXCEPT ![a] = heldTexts[a] \union {t}]
      /\ partial' = [partial EXCEPT ![a] = 0]
      /\ writer' = [writer EXCEPT !.at = "index", !.touched = {}]
      /\ UNCHANGED <<rows, listing, versions, drifted>>
  BY DEF Rename, PublishPage, WikiInv, WikiShape, Steps, TextsHeld, Writers
<1>2. /\ writer' \in Writers /\ writer'.at = "index" /\ writer'.op = "put" /\ writer'.id = a
      /\ writer'.text = t /\ writer'.touched = {}
  BY <1>1 DEF Writers, Places
<1>3. About = {a} /\ About' = {a}
  BY <1>1, <1>2 DEF About
<1> HIDE DEF a, t
<1>4. /\ page' \in [Articles -> Nat] /\ page'[a] = t /\ \A i \in Articles : i # a => page'[i] = page[i]
      /\ heldTexts' \in [Articles -> SUBSET Nat] /\ heldTexts'[a] = heldTexts[a] \union {t}
      /\ \A i \in Articles : heldTexts[i] \subseteq heldTexts'[i]
      /\ partial' \in [Articles -> Int]
  BY <1>1 DEF WikiInv, WikiShape
<1>5. WikiShape' /\ Steps'
  BY <1>1, <1>2, <1>4 DEF WikiInv, WikiShape, Steps
<1>6. TextsHeld'
  <2>1. ASSUME NEW i \in Articles, page'[i] # 0 PROVE page'[i] \in heldTexts'[i]
    BY <1>4, <2>1 DEF WikiInv, TextsHeld
  <2>2. ASSUME NEW i \in Articles, rows[i] # 0 PROVE rows[i] \in heldTexts'[i]
    BY <1>4, <2>2 DEF WikiInv, TextsHeld
  <2> QED BY <1>1, <1>2, <1>4, <2>1, <2>2 DEF TextsHeld
<1>7. Untouched'
  BY <1>2, <1>4 DEF Untouched
<1>8. Followed'
  BY <1>1, <1>2, <1>3, <1>4 DEF WikiInv, Followed
<1> QED BY <1>5, <1>6, <1>7, <1>8 DEF WikiInv

\* A row gets the text its operation carries.
LEMMA IndexKeeps == WikiInv /\ Index => WikiInv'
<1> SUFFICES ASSUME WikiInv, Index PROVE WikiInv'
  OBVIOUS
<1> DEFINE a == writer.id
<1>1. /\ writer.at = "index" /\ writer \in Writers /\ "list" \in Places
      /\ UNCHANGED <<page, partial, listing, versions, heldTexts>>
  BY DEF Index, WikiInv, WikiShape, Places
<1>2. CASE /\ writer.op = "put" /\ To("list")
           /\ rows' = [rows EXCEPT ![writer.id] = writer.text]
           /\ drifted' = drifted \ ({writer.id} \ writer.touched)
  <2>1. /\ writer' \in Writers /\ writer'.at = "list" /\ writer'.op = "put"
        /\ writer'.id = a /\ writer'.touched = writer.touched /\ About = {a} /\ About' = {a}
        /\ a \in Articles /\ writer.text \in Nat
    BY <1>1, <1>2, Placed, AboutIs DEF WikiInv, Steps, Writers
  <2>2. /\ rows' \in [Articles -> Nat] /\ rows'[a] = writer.text
        /\ \A i \in Articles : i # a => rows'[i] = rows[i]
    BY <1>2, <2>1 DEF WikiInv, WikiShape
  <2> HIDE DEF a
  <2>3. \A i \in Articles : i \notin drifted' => \/ i # a /\ i \notin drifted
                                                 \/ i = a /\ (i \notin drifted \/ i \notin writer.touched)
    BY <1>2, <2>1 DEF a
  <2>4. a \notin drifted' => page[a] = writer.text
    BY <1>1, <1>2, <2>1, <2>3 DEF WikiInv, Untouched, Steps, a
  <2>5. WikiShape' /\ Steps'
    BY <1>1, <1>2, <2>1, <2>2 DEF WikiInv, WikiShape, Steps
  <2>6. TextsHeld'
    <3>1. ASSUME NEW i \in Articles, rows'[i] # 0 PROVE rows'[i] \in heldTexts[i]
      BY <1>1, <1>2, <2>2, <3>1 DEF WikiInv, TextsHeld, a
    <3> QED BY <1>1, <2>1, <3>1 DEF WikiInv, TextsHeld
  <2>7. Untouched' /\ Followed'
    BY <1>1, <2>1, <2>2, <2>3, <2>4 DEF WikiInv, Untouched, Followed
  <2> QED BY <2>5, <2>6, <2>7 DEF WikiInv
<1>3. CASE /\ writer.op = "rebuild" /\ UNCHANGED drifted
           /\ \E i \in writer.left : /\ rows' = [rows EXCEPT ![i] = writer.listed[i]]
                                     /\ writer' = [writer EXCEPT !.left = @ \ {i}]
  <2>1. PICK b \in writer.left : /\ rows' = [rows EXCEPT ![b] = writer.listed[b]]
                                 /\ writer' = [writer EXCEPT !.left = writer.left \ {b}]
    BY <1>3
  <2>2. /\ writer' \in Writers /\ writer'.at = "index" /\ writer'.op = "rebuild"
        /\ writer'.listed = writer.listed /\ writer'.touched = writer.touched
        /\ writer'.left = writer.left \ {b} /\ b \in Articles
        /\ writer.listed \in [Articles -> Nat]
    BY <1>1, <1>3, <2>1 DEF Writers, WikiInv, Steps
  <2>3. /\ rows' \in [Articles -> Nat] /\ rows'[b] = writer.listed[b]
        /\ \A i \in Articles : i # b => rows'[i] = rows[i]
    BY <2>1, <2>2 DEF WikiInv, WikiShape
  <2>4. About' = Articles
    BY <2>2, AboutIs DEF About
  <2>5. WikiShape' /\ Steps'
    BY <1>1, <1>3, <2>2, <2>3 DEF WikiInv, WikiShape, Steps
  <2>6. TextsHeld'
    <3>1. \A i \in writer.left : writer.listed[i] \in heldTexts[i]
      BY <1>1, <1>3 DEF WikiInv, TextsHeld
    <3>2. ASSUME NEW i \in Articles, rows'[i] # 0 PROVE rows'[i] \in heldTexts[i]
      BY <2>1, <2>3, <3>1, <3>2 DEF WikiInv, TextsHeld
    <3> QED BY <1>1, <2>2, <3>1, <3>2 DEF WikiInv, TextsHeld
  <2>7. Untouched'
    BY <1>1, <1>3, <2>1, <2>2, <2>3 DEF WikiInv, Untouched
  <2>8. Followed'
    BY <2>2, <2>4 DEF Followed
  <2> QED BY <2>5, <2>6, <2>7, <2>8 DEF WikiInv
<1>4. CASE /\ writer.op = "rebuild" /\ writer.left = {} /\ To("list")
           /\ drifted' = writer.touched /\ UNCHANGED rows
  <2>1. /\ writer' \in Writers /\ writer'.at = "list" /\ writer'.op = "rebuild"
        /\ writer'.listed = writer.listed /\ writer'.touched = writer.touched
        /\ About' = Articles /\ writer.touched \subseteq Articles
    BY <1>1, <1>4, Placed, AboutIs DEF Writers
  <2>2. \A i \in Articles \ drifted' : rows[i] = page[i]
    BY <1>1, <1>4 DEF WikiInv, Untouched
  <2>3. WikiShape' /\ Steps'
    BY <1>1, <1>4, <2>1 DEF WikiInv, WikiShape, Steps
  <2>4. TextsHeld' /\ Untouched' /\ Followed'
    BY <1>1, <1>4, <2>1, <2>2 DEF WikiInv, TextsHeld, Untouched, Followed
  <2> QED BY <2>3, <2>4 DEF WikiInv
<1> QED BY <1>2, <1>3, <1>4 DEF Index

\* A Delete removes the file.
LEMMA DeleteKeeps == ASSUME WikiInv, NEW a \in Articles, DeletePage(a) PROVE WikiInv'
<1>1. /\ writer.at = "idle" /\ page' = [page EXCEPT ![a] = 0]
      /\ writer' = [IdleWriter EXCEPT !.at = "unindex", !.op = "delete", !.id = a]
      /\ UNCHANGED <<partial, rows, listing, versions, heldTexts, drifted>>
  BY DEF DeletePage
<1>2. /\ writer' \in Writers /\ writer'.at = "unindex" /\ writer'.op = "delete" /\ writer'.id = a
      /\ writer'.touched = {}
  BY <1>1 DEF IdleWriter, Writers, Places
<1>3. About = {} /\ About' = {a}
  BY <1>1, <1>2, AboutIs DEF WikiInv, WikiShape, Steps, About
<1>4. page' \in [Articles -> Nat] /\ page'[a] = 0 /\ \A i \in Articles : i # a => page'[i] = page[i]
  BY <1>1 DEF WikiInv, WikiShape
<1>5. WikiShape' /\ Steps'
  BY <1>1, <1>2, <1>4 DEF WikiInv, WikiShape, Steps
<1>6. TextsHeld' /\ Untouched'
  BY <1>1, <1>2, <1>4 DEF WikiInv, TextsHeld, Untouched
<1>7. Followed'
  BY <1>1, <1>2, <1>3, <1>4 DEF WikiInv, Followed
<1> QED BY <1>5, <1>6, <1>7 DEF WikiInv

\* The row of a removed file goes.
LEMMA UnindexKeeps == WikiInv /\ Unindex => WikiInv'
<1> SUFFICES ASSUME WikiInv, Unindex PROVE WikiInv'
  OBVIOUS
<1> DEFINE a == writer.id
<1>1. /\ writer.at = "unindex" /\ writer \in Writers /\ To("list") /\ "list" \in Places
      /\ rows' = [rows EXCEPT ![a] = 0]
      /\ drifted' = drifted \ ({a} \ writer.touched)
      /\ UNCHANGED <<page, partial, listing, versions, heldTexts>>
      /\ writer.op = "delete" /\ a \in Articles
  BY DEF Unindex, WikiInv, WikiShape, Steps, Places
<1>2. /\ writer' \in Writers /\ writer'.at = "list" /\ writer'.op = "delete" /\ writer'.id = a
      /\ writer'.touched = writer.touched /\ About = {a} /\ About' = {a}
  BY <1>1, Placed, AboutIs
<1> HIDE DEF a
<1>3. /\ rows' \in [Articles -> Nat] /\ rows'[a] = 0
      /\ \A i \in Articles : i # a => rows'[i] = rows[i]
  BY <1>1 DEF WikiInv, WikiShape
<1>4. a \notin drifted' => page[a] = 0
  BY <1>1 DEF WikiInv, Untouched, Steps, a
<1>5. WikiShape' /\ Steps'
  BY <1>1, <1>2, <1>3 DEF WikiInv, WikiShape, Steps
<1>6. TextsHeld' /\ Untouched'
  BY <1>1, <1>2, <1>3 DEF WikiInv, TextsHeld, Untouched
<1>7. Followed'
  BY <1>1, <1>2, <1>3, <1>4 DEF WikiInv, Followed
<1> QED BY <1>5, <1>6, <1>7 DEF WikiInv

\* A Rebuild begins.
LEMMA RebuildKeeps == WikiInv /\ Rebuild => WikiInv'
<1> SUFFICES ASSUME WikiInv, Rebuild PROVE WikiInv'
  OBVIOUS
<1>1. /\ writer' = [IdleWriter EXCEPT !.at = "clear", !.op = "rebuild", !.left = Files, !.listed = page]
      /\ UNCHANGED <<page, partial, rows, listing, versions, heldTexts, drifted>>
      /\ page \in [Articles -> Nat]
  BY DEF Rebuild, wikiDisk, WikiInv, WikiShape
<1>2. /\ writer' \in Writers /\ writer'.at = "clear" /\ writer'.op = "rebuild"
      /\ writer'.left = Files /\ writer'.listed = page /\ writer'.touched = {}
  BY <1>1 DEF IdleWriter, Writers, Places, Files
<1>3. About' = Articles
  BY <1>2 DEF About
<1>4. WikiShape' /\ Steps'
  BY <1>1, <1>2 DEF WikiInv, WikiShape, Steps
<1>5. TextsHeld' /\ Untouched' /\ Followed'
  BY <1>1, <1>2, <1>3 DEF WikiInv, TextsHeld, Untouched, Followed, Files
<1> QED BY <1>4, <1>5 DEF WikiInv

\* A Rebuild empties the index.
LEMMA ClearKeeps == WikiInv /\ Clear => WikiInv'
<1> SUFFICES ASSUME WikiInv, Clear PROVE WikiInv'
  OBVIOUS
<1>1. /\ writer.at = "clear" /\ To("index") /\ writer \in Writers /\ "index" \in Places
      /\ rows' = [i \in Articles |-> 0] /\ drifted' = Articles
      /\ UNCHANGED <<page, partial, listing, versions, heldTexts>>
      /\ writer.op = "rebuild"
  BY DEF Clear, WikiInv, WikiShape, Steps, Places
<1>2. /\ writer' \in Writers /\ writer'.at = "index" /\ writer'.op = writer.op
      /\ writer'.id = writer.id /\ writer'.text = writer.text /\ writer'.left = writer.left
      /\ writer'.listed = writer.listed /\ writer'.touched = writer.touched
      /\ writer.touched \subseteq Articles
  BY <1>1, Placed DEF Writers
<1>3. WikiShape' /\ Steps'
  BY <1>1, <1>2 DEF WikiInv, WikiShape, Steps
<1>4. TextsHeld' /\ Untouched' /\ Followed'
  BY <1>1, <1>2 DEF WikiInv, TextsHeld, Untouched, Followed
<1> QED BY <1>3, <1>4 DEF WikiInv

\* The listing is written from the index.
LEMMA WriteIndexFileKeeps == WikiInv /\ WriteIndexFile => WikiInv'
<1> SUFFICES ASSUME WikiInv, WriteIndexFile PROVE WikiInv'
  OBVIOUS
<1>1. /\ writer.at = "list" /\ writer' = IdleWriter /\ listing' = Files
      /\ UNCHANGED <<page, partial, rows, versions, heldTexts, drifted>>
  BY DEF WriteIndexFile
<1>2. WikiShape'
  BY <1>1, IdleIs DEF WikiInv, WikiShape, Files
<1>3. \A i \in Articles : /\ page[i] # 0 => page[i] \in heldTexts[i]
                          /\ rows[i] # 0 => rows[i] \in heldTexts[i]
  BY DEF WikiInv, TextsHeld
<1>4. \A i \in Articles \ drifted : rows[i] = page[i] /\ (i \in listing' <=> page[i] # 0)
  BY <1>1 DEF WikiInv, Followed, Files
<1> QED BY <1>1, <1>2, <1>3, <1>4, EndsIdle

\* A step of an operation fails, and what it was about has drifted.
LEMMA FailKeeps == WikiInv /\ Fail => WikiInv'
<1> SUFFICES ASSUME WikiInv, Fail PROVE WikiInv'
  OBVIOUS
<1>1. /\ partial' \in [Articles -> Int] /\ drifted' = drifted \union About
      /\ UNCHANGED <<page, rows, listing, versions, heldTexts>>
      /\ writer \in Writers /\ "list" \in Places
      /\ writer' = IdleWriter \/ (writer.at = "unindex" /\ To("list"))
  <2>1. partial \in [Articles -> Int] /\ writer \in Writers
    BY DEF WikiInv, WikiShape
  <2>2. ASSUME writer.at = "rename" PROVE partial' \in [Articles -> Int]
    <3>1. writer.id \in Articles
      BY <2>2 DEF WikiInv, Steps
    <3>2. partial' = [partial EXCEPT ![writer.id] = 0]
      BY <2>2 DEF Fail
    <3> QED BY <2>1, <3>1, <3>2
  <2>3. ASSUME writer.at # "rename" PROVE partial' \in [Articles -> Int]
    BY <2>1, <2>3 DEF Fail
  <2>4. /\ drifted' = drifted \union About
        /\ UNCHANGED <<page, rows, listing, versions, heldTexts>>
        /\ writer' = IdleWriter \/ (writer.at = "unindex" /\ To("list"))
    BY DEF Fail
  <2> QED BY <2>1, <2>2, <2>3, <2>4 DEF Places
<1>2. About \subseteq Articles
  BY <1>1, AboutIs DEF WikiInv, Steps, Writers
<1>3. CASE writer' = IdleWriter
  <2>1. WikiShape'
    BY <1>1, <1>2, <1>3, IdleIs DEF WikiInv, WikiShape
  <2>2. \A i \in Articles : /\ page[i] # 0 => page[i] \in heldTexts[i]
                            /\ rows[i] # 0 => rows[i] \in heldTexts[i]
    BY DEF WikiInv, TextsHeld
  <2>3. \A i \in Articles \ drifted' : rows[i] = page[i] /\ (i \in listing <=> page[i] # 0)
    BY <1>1 DEF WikiInv, Followed
  <2> QED BY <1>1, <1>3, <2>1, <2>2, <2>3, EndsIdle
<1>4. CASE writer.at = "unindex" /\ To("list")
  <2>1. /\ writer' \in Writers /\ writer'.at = "list" /\ writer'.op = writer.op
        /\ writer'.id = writer.id /\ writer'.text = writer.text /\ writer'.left = writer.left
        /\ writer'.listed = writer.listed /\ writer'.touched = writer.touched /\ About' = About
    BY <1>1, <1>4, Placed
  <2>2. WikiShape' /\ Steps'
    BY <1>1, <1>2, <1>4, <2>1 DEF WikiInv, WikiShape, Steps
  <2>3. TextsHeld' /\ Untouched' /\ Followed'
    BY <1>1, <2>1 DEF WikiInv, TextsHeld, Untouched, Followed
  <2> QED BY <2>2, <2>3 DEF WikiInv
<1> QED BY <1>1, <1>3, <1>4

\* A crash ends the operation, and what it was about has drifted.
LEMMA CrashKeeps == WikiInv /\ Crash => WikiInv'
<1> SUFFICES ASSUME WikiInv, Crash PROVE WikiInv'
  OBVIOUS
<1>1. /\ writer' = IdleWriter /\ drifted' = drifted \union About
      /\ UNCHANGED <<page, partial, rows, listing, versions, heldTexts>>
  BY DEF Crash, wikiDisk
<1>2. About \subseteq Articles
  BY AboutIs DEF WikiInv, WikiShape, Steps, Writers
<1>3. WikiShape'
  BY <1>1, <1>2, IdleIs DEF WikiInv, WikiShape
<1>4. \A i \in Articles : /\ page[i] # 0 => page[i] \in heldTexts[i]
                          /\ rows[i] # 0 => rows[i] \in heldTexts[i]
  BY DEF WikiInv, TextsHeld
<1>5. \A i \in Articles \ drifted' : rows[i] = page[i] /\ (i \in listing <=> page[i] # 0)
  BY <1>1 DEF WikiInv, Followed
<1> QED BY <1>1, <1>3, <1>4, <1>5, EndsIdle

\* A file is edited by hand.
LEMMA EditKeeps == ASSUME WikiInv, NEW a \in Articles, EditByHand(a) PROVE WikiInv'
<1>1. /\ versions' = versions + 1 /\ versions \in Nat /\ drifted' = drifted \union {a}
      /\ UNCHANGED <<partial, rows, listing>> /\ writer \in Writers
  BY DEF EditByHand, WikiInv, WikiShape
<1>2. PICK touched \in SUBSET Articles :
        /\ writer' = [writer EXCEPT !.touched = touched]
        /\ writer.at # "idle" => touched = writer.touched \union {a}
        /\ touched \subseteq writer.touched \union {a}
  <2>1. writer' = [writer EXCEPT !.touched = IF writer.at = "idle" THEN {} ELSE writer.touched \union {a}]
    BY <1>1 DEF EditByHand, Writers
  <2>2. writer.touched \in SUBSET Articles /\ {} \in SUBSET Articles
    BY <1>1 DEF Writers
  <2>3. CASE writer.at = "idle"
    BY <2>1, <2>2, <2>3
  <2>4. CASE writer.at # "idle"
    <3>1. writer' = [writer EXCEPT !.touched = writer.touched \union {a}]
      BY <2>1, <2>4
    <3> QED BY <3>1, <2>2, <2>4
  <2> QED BY <2>3, <2>4
<1>3. /\ writer' \in Writers /\ writer'.touched = touched
      /\ writer'.at = writer.at /\ writer'.op = writer.op /\ writer'.id = writer.id
      /\ writer'.text = writer.text /\ writer'.left = writer.left
      /\ writer'.listed = writer.listed /\ About' = About
  BY <1>1, <1>2 DEF Writers, About
<1>4. /\ page' \in [Articles -> Nat] /\ heldTexts' \in [Articles -> SUBSET Nat]
      /\ \A i \in Articles : /\ i # a => page'[i] = page[i]
                             /\ heldTexts[i] \subseteq heldTexts'[i]
                             /\ page'[i] # 0 => page'[i] \in heldTexts'[i]
  <2>1. /\ page \in [Articles -> Nat] /\ heldTexts \in [Articles -> SUBSET Nat]
        /\ \A i \in Articles : page[i] # 0 => page[i] \in heldTexts[i]
    BY DEF WikiInv, WikiShape, TextsHeld
  <2>2. CASE PublishPage(a, versions')
    BY <1>1, <2>1, <2>2 DEF PublishPage
  <2>3. CASE page' = [page EXCEPT ![a] = 0] /\ UNCHANGED heldTexts
    BY <2>1, <2>3
  <2> QED BY <2>2, <2>3 DEF EditByHand
<1>5. WikiShape' /\ Steps'
  BY <1>1, <1>2, <1>3, <1>4 DEF WikiInv, WikiShape, Steps
<1>6. TextsHeld'
  <2>1. writer.left \subseteq Articles /\ (writer.op \in {"put", "delete"} => writer.id \in Articles)
    BY <1>1 DEF Writers, WikiInv, Steps
  <2> QED BY <1>1, <1>3, <1>4, <2>1 DEF WikiInv, TextsHeld
<1>7. Untouched'
  <2>1. \A i \in Articles : i \notin touched /\ writer.at # "idle" => i # a /\ i \notin writer.touched
    BY <1>2
  <2>2. /\ writer.op \in {"put", "delete"} => writer.id \in Articles
        /\ writer.at = "unindex" => writer.op = "delete"
    BY DEF WikiInv, Steps
  <2> QED BY <1>1, <1>3, <1>4, <2>1, <2>2 DEF WikiInv, Untouched
<1>8. Followed'
  BY <1>1, <1>3, <1>4 DEF WikiInv, Followed
<1> QED BY <1>5, <1>6, <1>7, <1>8 DEF WikiInv

\* Every step of the wiki keeps the invariant.
LEMMA WikiInvKept == WikiInv /\ [WikiNext]_wikiVars => WikiInv'
<1>1. WikiInv /\ UNCHANGED wikiVars => WikiInv'
  BY DEF WikiInv, WikiShape, Steps, TextsHeld, Untouched, Followed, About, wikiVars, wikiDisk, wikiStore
<1> QED BY <1>1, OpenKeeps, DropKeeps, PutKeeps, DeleteKeeps, EditKeeps, WriteKeeps1, RenameKeeps,
           IndexKeeps, UnindexKeeps, RebuildKeeps, ClearKeeps, WriteIndexFileKeeps, FailKeeps,
           SearchKeeps, CrashKeeps DEF WikiNext

\* The invariant says what the run checks.
LEMMA WikiInvSays == WikiInv => IndexFollowsFiles
<1> SUFFICES ASSUME WikiInv PROVE IndexFollowsFiles
  OBVIOUS
<1>1. writer.at = "idle" => About = {}
  BY AboutIs DEF WikiInv, WikiShape, Steps
<1> QED BY <1>1 DEF WikiInv, TextsHeld, Followed, IndexFollowsFiles

\* The index holds no text that was not an article's, and it says what the files say, as
\* the listing does, wherever no operation failed or was cut, nobody wrote by hand and
\* no other version dropped the index (wiki/wiki.go).
THEOREM IndexFollowsFilesAlways == WikiSpec => []IndexFollowsFiles
  BY WikiInvFirst, WikiInvKept, WikiInvSays, PTL DEF WikiSpec

-----------------------------------------------------------------------------
(* The skills *)

\* What a scan may have found.
Found == {s \in SUBSET Names : IsFiniteSet(s)}

\* The order lists each name once, and whoever scans works from the order that is there.
SkillInv ==
  /\ order \in Seq(Names) /\ Distinct(order)
  /\ DOMAIN refresh = Refreshers
  /\ \A p \in Refreshers : refresh[p].at = "scan" =>
       /\ refreshMu = p /\ refresh[p].previous = order
       /\ refresh[p].left \subseteq Names /\ DOMAIN refresh[p].found \in Found

\* A sorted set is listed in ascending order, every member once.
LEMMA SortedIs ==
  ASSUME NEW S, IsFiniteSet(S), NEW q \in Sorted(S)
  PROVE  /\ q \in Seq(S) /\ Distinct(q)
         /\ \A i, j \in DOMAIN q : i < j => q[i] < q[j]
<1>1. PICK n \in Nat : n = Cardinality(S)
  BY FS_CardinalityType
<1>2. /\ q \in [1 .. n -> S]
      /\ \A i, j \in 1 .. n : i # j => q[i] # q[j]
      /\ \A i, j \in DOMAIN q : i < j => q[i] < q[j]
  BY <1>1 DEF Sorted, SetToSeqs
<1>3. q \in Seq(S) /\ DOMAIN q = 1 .. n
  BY <1>1, <1>2
<1> QED BY <1>2, <1>3 DEF Distinct

\* An order that continues another one: some of its names in the order they had, and new
\* ones behind them, each once.
Continues(previous, next) ==
  \E a \in Nat, b \in Nat : \E from \in [1 .. a -> DOMAIN previous] :
    /\ next \in Seq(Names) /\ Len(next) = a + b /\ Distinct(next)
    /\ \A i, j \in 1 .. a : i < j => from[i] < from[j]
    /\ \A k \in 1 .. a : next[k] = previous[from[k]]
    /\ \A k \in 1 .. b : next[a + k] \notin ToSet(previous)

\* The next order: names that stay in the order they had, and new ones behind them.
LEMMA NextOrderIs ==
  ASSUME NEW previous \in Seq(Names), Distinct(previous), NEW found \in Found,
         NEW next \in NextOrder(previous, found)
  PROVE  Continues(previous, next)
<1> DEFINE stay == {i \in DOMAIN previous : previous[i] \in found}
           fresh == found \ ToSet(previous)
<1>0. PICK kept \in Kept(previous, found), new \in Sorted(fresh) : next = kept \o new
  BY DEF NextOrder
<1>1. PICK from \in Sorted(stay) : kept = [k \in DOMAIN from |-> previous[from[k]]]
  BY DEF Kept
<1>2. IsFiniteSet(stay) /\ IsFiniteSet(fresh) /\ stay \in SUBSET DOMAIN previous /\ fresh \in SUBSET Names
  <2>1. DOMAIN previous = 1 .. Len(previous) /\ Len(previous) \in Nat
    OBVIOUS
  <2>2. IsFiniteSet(DOMAIN previous) /\ stay \in SUBSET DOMAIN previous
    BY <2>1, FS_Interval
  <2>3. IsFiniteSet(found) /\ found \in SUBSET Names /\ fresh \in SUBSET found
    BY DEF Found
  <2> HIDE DEF stay, fresh
  <2> QED BY <2>2, <2>3, FS_Subset
<1> HIDE DEF stay, fresh
<1>3. /\ from \in Seq(stay) /\ Distinct(from) /\ \A i, j \in DOMAIN from : i < j => from[i] < from[j]
  BY <1>2, SortedIs
<1>4. new \in Seq(fresh) /\ Distinct(new)
  BY <1>2, SortedIs
<1>5. PICK a \in Nat : a = Len(from) /\ DOMAIN from = 1 .. a
  BY <1>3
<1>6. PICK b \in Nat : b = Len(new) /\ DOMAIN new = 1 .. b
  BY <1>4
<1>7. /\ from \in [1 .. a -> DOMAIN previous]
      /\ \A i \in 1 .. a : from[i] \in DOMAIN previous /\ previous[from[i]] \in Names
  BY <1>2, <1>3, <1>5
<1>8. kept = [k \in 1 .. a |-> previous[from[k]]]
  BY <1>1, <1>5
<1>9. kept \in Seq(Names) /\ Len(kept) = a /\ \A k \in 1 .. a : kept[k] = previous[from[k]]
  BY <1>5, <1>7, <1>8
<1>10. new \in Seq(Names) /\ \A k \in 1 .. b : new[k] \in Names /\ new[k] \notin ToSet(previous)
  <2>1. \A k \in 1 .. b : new[k] \in fresh
    BY <1>4, <1>6
  <2>2. \A k \in 1 .. b : new[k] \in Names /\ new[k] \notin ToSet(previous)
    BY <1>2, <2>1 DEF fresh
  <2>3. new \in Seq(Names)
    BY <1>2, <1>4
  <2> QED BY <2>2, <2>3
<1>11. /\ next \in Seq(Names) /\ Len(next) = a + b
       /\ \A k \in 1 .. a : next[k] = previous[from[k]]
       /\ \A k \in 1 .. b : next[a + k] = new[k]
  <2>1. next = kept \o new
    BY <1>0
  <2>2. /\ kept \o new \in Seq(Names) /\ Len(kept \o new) = Len(kept) + Len(new)
        /\ \A k \in 1 .. Len(kept) : (kept \o new)[k] = kept[k]
        /\ \A k \in 1 .. Len(new) : (kept \o new)[Len(kept) + k] = new[k]
    <3>1. kept \in Seq(Names) /\ new \in Seq(Names)
      BY <1>9, <1>10
    <3> QED BY <3>1, ConcatElements
  <2> QED BY <1>6, <1>9, <2>1, <2>2
<1>12. Distinct(next)
  <2> SUFFICES ASSUME NEW i \in 1 .. a + b, NEW j \in 1 .. a + b, next[i] = next[j], i # j PROVE FALSE
    BY <1>11 DEF Distinct
  <2>1. ASSUME NEW k \in 1 .. a + b
        PROVE  \/ k \in 1 .. a /\ next[k] = previous[from[k]] /\ next[k] \in ToSet(previous)
               \/ k - a \in 1 .. b /\ next[k] = new[k - a] /\ next[k] \notin ToSet(previous)
    <3>1. CASE k <= a
      <4>1. k \in 1 .. a
        BY <3>1
      <4> QED BY <4>1, <1>7, <1>11 DEF ToSet
    <3>2. CASE k > a
      <4>1. k - a \in 1 .. b /\ a + (k - a) = k
        BY <3>2
      <4> QED BY <4>1, <1>10, <1>11
    <3> QED BY <3>1, <3>2
  <2>2. CASE i \in 1 .. a /\ j \in 1 .. a
    <3>1. previous[from[i]] = previous[from[j]]
      BY <1>11, <2>2
    <3>2. from[i] = from[j]
      BY <1>7, <2>2, <3>1 DEF Distinct
    <3> QED BY <1>3, <1>5, <2>2, <3>2 DEF Distinct
  <2>3. CASE i - a \in 1 .. b /\ j - a \in 1 .. b /\ new[i - a] = new[j - a]
    <3>1. i - a = j - a
      BY <1>4, <1>6, <2>3 DEF Distinct
    <3> QED BY <3>1
  <2> QED BY <2>1, <2>2, <2>3
<1>13. \A i, j \in 1 .. a : i < j => from[i] < from[j]
  BY <1>3, <1>5
<1>14. \A k \in 1 .. b : next[a + k] \notin ToSet(previous)
  BY <1>10, <1>11
<1> QED BY <1>7, <1>11, <1>12, <1>13, <1>14 DEF Continues

\* No skill is listed at first.
LEMMA SkillInvFirst == SkillInit => SkillInv
<1> SUFFICES ASSUME SkillInit PROVE SkillInv
  OBVIOUS
<1>1. order = <<>> /\ <<>> \in Seq(Names) /\ DOMAIN order = {}
  BY DEF SkillInit
<1>2. refresh = [p \in Refreshers |-> IdleRefresh] /\ IdleRefresh.at = "idle"
  BY DEF SkillInit, IdleRefresh
<1> QED BY <1>1, <1>2 DEF SkillInv, Distinct

\* A Refresh that gives the lock back.
LEMMA GivesBack ==
  ASSUME SkillInv, NEW p \in Refreshers, refresh[p].at = "scan",
         refresh' = [refresh EXCEPT ![p] = IdleRefresh],
         order' \in Seq(Names), Distinct(order')
  PROVE  SkillInv'
<1>1. IdleRefresh.at = "idle"
  BY DEF IdleRefresh
<1>2. refreshMu = p /\ DOMAIN refresh' = Refreshers
  BY DEF SkillInv
<1>3. \A o \in Refreshers : refresh'[o].at # "scan"
  <2> SUFFICES ASSUME NEW o \in Refreshers, refresh'[o].at = "scan" PROVE FALSE
    OBVIOUS
  <2>1. o # p /\ refresh'[o] = refresh[o]
    BY <1>1 DEF SkillInv
  <2> QED BY <1>2, <2>1 DEF SkillInv
<1> QED BY <1>2, <1>3 DEF SkillInv

\* A Refresh takes the lock and reads the order.
LEMMA BeginKeeps == ASSUME SkillInv, NEW p \in Refreshers, BeginRefresh(p) PROVE SkillInv'
<1>1. PICK g : g = [at |-> "scan", previous |-> order, roots |-> Roots, left |-> Listed("global"),
                    found |-> [n \in {} |-> "global"]]
  OBVIOUS
<1>2. /\ refreshMu = Nobody /\ refreshMu' = p /\ order' = order
      /\ refresh' = [refresh EXCEPT ![p] = g]
  BY <1>1 DEF BeginRefresh
<1>3. /\ g.previous = order /\ g.left \subseteq Names /\ DOMAIN g.found = {} /\ DOMAIN g.found \in Found
  BY <1>1, FS_EmptySet DEF Listed, Found
<1>4. \A o \in Refreshers : o # p => refresh'[o].at # "scan"
  <2> SUFFICES ASSUME NEW o \in Refreshers, o # p, refresh'[o].at = "scan" PROVE FALSE
    OBVIOUS
  <2>1. refresh'[o] = refresh[o]
    BY <1>2 DEF SkillInv
  <2> QED BY <1>2, <2>1, SkillParameters DEF SkillInv
<1>5. refresh'[p] = g /\ DOMAIN refresh' = Refreshers
  BY <1>2 DEF SkillInv
<1> QED BY <1>2, <1>3, <1>4, <1>5 DEF SkillInv

\* A step of a scan, that leaves what it began with.
LEMMA Scanning ==
  ASSUME SkillInv, NEW p \in Refreshers, refresh[p].at = "scan", NEW g,
         refresh' = [refresh EXCEPT ![p] = g], UNCHANGED <<order, refreshMu>>,
         g.previous = refresh[p].previous, g.left \subseteq Names, DOMAIN g.found \in Found
  PROVE  SkillInv'
<1>1. /\ DOMAIN refresh' = Refreshers /\ refresh'[p] = g /\ refreshMu = p
      /\ \A o \in Refreshers : o # p => refresh'[o] = refresh[o]
  BY DEF SkillInv
<1> QED BY <1>1 DEF SkillInv

\* A Refresh finds a skill, or none.
LEMMA ScanKeeps == ASSUME SkillInv, NEW p \in Refreshers, ScanSkill(p) PROVE SkillInv'
<1>1. PICK n \in refresh[p].left :
        /\ refresh[p].at = "scan" /\ order' = order
        /\ \/ refresh' = [refresh EXCEPT ![p] = IdleRefresh]
           \/ /\ refreshMu' = refreshMu
              /\ refresh' = [refresh EXCEPT ![p] =
                   [refresh[p] EXCEPT !.left = refresh[p].left \ {n},
                      !.found = IF disk[Head(refresh[p].roots)][n] = "bare" THEN refresh[p].found
                                ELSE [k \in DOMAIN refresh[p].found \union {n} |->
                                        IF k = n THEN Head(refresh[p].roots) ELSE refresh[p].found[k]]]]
  BY DEF ScanSkill
<1>2. CASE refresh' = [refresh EXCEPT ![p] = IdleRefresh]
  <2>1. order' \in Seq(Names) /\ Distinct(order')
    BY <1>1 DEF SkillInv
  <2> QED BY <1>1, <1>2, <2>1, GivesBack
<1>3. CASE ~(refresh' = [refresh EXCEPT ![p] = IdleRefresh])
  <2>1. PICK found :
          found = IF disk[Head(refresh[p].roots)][n] = "bare" THEN refresh[p].found
                  ELSE [k \in DOMAIN refresh[p].found \union {n} |->
                          IF k = n THEN Head(refresh[p].roots) ELSE refresh[p].found[k]]
    OBVIOUS
  <2>2. PICK g : g = [refresh[p] EXCEPT !.left = refresh[p].left \ {n}, !.found = found]
    OBVIOUS
  <2>3. refresh' = [refresh EXCEPT ![p] = g] /\ UNCHANGED <<order, refreshMu>>
    BY <1>1, <1>3, <2>1, <2>2
  <2>4. /\ n \in Names /\ DOMAIN refresh[p].found \in Found
        /\ refresh[p].left \subseteq Names
    BY <1>1 DEF SkillInv
  <2>5. DOMAIN found \in Found
    <3>1. DOMAIN refresh[p].found \union {n} \in Found
      BY <2>4, FS_AddElement DEF Found
    <3>2. DOMAIN found = DOMAIN refresh[p].found \/ DOMAIN found = DOMAIN refresh[p].found \union {n}
      BY <2>1
    <3> QED BY <2>4, <3>1, <3>2
  <2>6. g.previous = refresh[p].previous /\ g.left = refresh[p].left \ {n} /\ g.found = found
    BY <2>2
  <2> QED BY <1>1, <2>3, <2>4, <2>5, <2>6, Scanning
<1> QED BY <1>2, <1>3

\* A Refresh turns to the skills of the project.
LEMMA ScanProjectKeeps == ASSUME SkillInv, NEW p \in Refreshers, ScanProject(p) PROVE SkillInv'
<1>1. PICK g : g = [refresh[p] EXCEPT !.roots = Tail(refresh[p].roots), !.left = Listed("project")]
  OBVIOUS
<1>2. /\ refresh[p].at = "scan" /\ refresh' = [refresh EXCEPT ![p] = g]
      /\ UNCHANGED <<order, refreshMu>>
  BY <1>1 DEF ScanProject, SkillInv
<1>3. DOMAIN refresh[p].found \in Found
  BY <1>2 DEF SkillInv
<1>4. /\ g.previous = refresh[p].previous /\ g.left = Listed("project")
      /\ g.found = refresh[p].found
  BY <1>1
<1>5. g.left \subseteq Names
  BY <1>4 DEF Listed
<1> QED BY <1>2, <1>3, <1>4, <1>5, Scanning

\* What the end of a Refresh makes of the order.
LEMMA Publishes ==
  ASSUME SkillInv, NEW p \in Refreshers, PublishIndex(p)
  PROVE  /\ DOMAIN refresh[p].found \in Found
         /\ order' \in NextOrder(order, DOMAIN refresh[p].found)
  BY DEF PublishIndex, SkillInv

\* A Refresh publishes the next order and gives the lock back.
LEMMA PublishKeepsOrder == ASSUME SkillInv, NEW p \in Refreshers, PublishIndex(p) PROVE SkillInv'
<1>1. order' \in Seq(Names) /\ Distinct(order')
  BY Publishes, NextOrderIs DEF SkillInv, Continues
<1>2. refresh[p].at = "scan" /\ refresh' = [refresh EXCEPT ![p] = IdleRefresh]
  BY DEF PublishIndex
<1> QED BY <1>1, <1>2, GivesBack

\* Every step of the skills keeps the invariant.
LEMMA SkillInvKept == SkillInv /\ [SkillNext]_skillVars => SkillInv'
<1>1. SkillInv /\ UNCHANGED <<order, refreshMu, refresh>> => SkillInv'
  BY DEF SkillInv
<1>2. Edit \/ Find \/ Activate \/ UNCHANGED skillVars => UNCHANGED <<order, refreshMu, refresh>>
  BY DEF Edit, Find, Activate, skillVars
<1> QED BY <1>1, <1>2, BeginKeeps, ScanKeeps, ScanProjectKeeps, PublishKeepsOrder DEF SkillNext

\* Where an element stands in a sequence of different ones.
LEMMA PositionIs ==
  ASSUME NEW q, Distinct(q), NEW i \in DOMAIN q
  PROVE  Position(q, q[i]) = i
  BY DEF Position, Distinct

\* Two skills that stay listed stay in their order.
LEMMA PublishKeepsPlaces ==
  ASSUME SkillInv, NEW p \in Refreshers, PublishIndex(p) PROVE OrderIsKept
<1>1. order \in Seq(Names) /\ Distinct(order)
  BY DEF SkillInv
<1>2. PICK a \in Nat, b \in Nat : \E from \in [1 .. a -> DOMAIN order] :
        /\ order' \in Seq(Names) /\ Len(order') = a + b /\ Distinct(order')
        /\ \A i, j \in 1 .. a : i < j => from[i] < from[j]
        /\ \A k \in 1 .. a : order'[k] = order[from[k]]
        /\ \A k \in 1 .. b : order'[a + k] \notin ToSet(order)
  <2>1. PICK found \in Found : order' \in NextOrder(order, found)
    BY Publishes
  <2>2. PICK next : next = order' /\ next \in NextOrder(order, found)
    BY <2>1
  <2>3. Continues(order, next)
    BY <1>1, <2>2, NextOrderIs
  <2>4. Continues(order, order')
    BY <2>2, <2>3
  <2> QED BY <2>4 DEF Continues
<1>3. PICK from \in [1 .. a -> DOMAIN order] :
        /\ order' \in Seq(Names) /\ Len(order') = a + b /\ Distinct(order')
        /\ \A i, j \in 1 .. a : i < j => from[i] < from[j]
        /\ \A k \in 1 .. a : order'[k] = order[from[k]]
        /\ \A k \in 1 .. b : order'[a + k] \notin ToSet(order)
  BY <1>2
<1>4. DOMAIN order' = 1 .. a + b /\ DOMAIN order = 1 .. Len(order) /\ Len(order) \in Nat
  BY <1>1, <1>3
<1>5. SUFFICES ASSUME NEW i \in DOMAIN order', NEW j \in DOMAIN order', NEW k \in DOMAIN order,
                      order'[i] = order[k], order'[i] # order'[j],
                      order'[j] \in ToSet(order) =>
                        Position(order, order[k]) < Position(order, order'[j])
               PROVE  i < j
  <2> SUFFICES ASSUME NEW m \in ToSet(order) \intersect ToSet(order'), NEW n \in ToSet(order'),
                      m # n, n \in ToSet(order) => Position(order, m) < Position(order, n)
               PROVE  Position(order', m) < Position(order', n)
    BY DEF OrderIsKept
  <2>1. PICK i \in DOMAIN order' : order'[i] = m
    BY DEF ToSet
  <2>2. PICK j \in DOMAIN order' : order'[j] = n
    BY DEF ToSet
  <2>3. PICK k \in DOMAIN order : order[k] = m
    BY DEF ToSet
  <2>4. i < j
    BY <1>5, <2>1, <2>2, <2>3
  <2>5. PICK q : q = order' /\ Distinct(q)
    BY <1>3
  <2>6. Position(q, q[i]) = i /\ Position(q, q[j]) = j
    BY <2>1, <2>2, <2>5, PositionIs
  <2> QED BY <2>1, <2>2, <2>4, <2>5, <2>6
<1>6. i \in 1 .. a /\ from[i] = k
  <2>1. CASE i \in 1 .. a
    <3>1. order[from[i]] = order[k] /\ from[i] \in DOMAIN order
      BY <1>3, <1>5, <2>1
    <3> QED BY <1>1, <2>1, <3>1 DEF Distinct
  <2>2. CASE i \notin 1 .. a
    <3>1. i - a \in 1 .. b /\ a + (i - a) = i
      BY <1>4, <1>5, <2>2
    <3>2. order'[i] \notin ToSet(order)
      BY <1>3, <3>1
    <3> QED BY <1>5, <3>2 DEF ToSet
  <2> QED BY <2>1, <2>2
<1>7. CASE j \in 1 .. a
  <2>1. order'[j] = order[from[j]] /\ from[j] \in DOMAIN order
    BY <1>3, <1>7
  <2>2. Position(order, order[k]) = k /\ Position(order, order[from[j]]) = from[j]
    BY <1>1, <2>1, PositionIs
  <2>3. from[i] < from[j]
    BY <1>5, <1>6, <2>1, <2>2 DEF ToSet
  <2>4. j < i => from[j] < from[i]
    BY <1>3, <1>6, <1>7
  <2>5. from[i] \in Int /\ from[j] \in Int
    BY <1>4, <1>6, <2>1
  <2> QED BY <1>6, <1>7, <2>3, <2>4, <2>5
<1>8. CASE j \notin 1 .. a
  BY <1>4, <1>5, <1>6, <1>8
<1> QED BY <1>7, <1>8

\* No other step changes the order.
LEMMA SkillStepKeepsPlaces == SkillInv /\ [SkillNext]_skillVars => OrderIsKept
<1>1. ASSUME UNCHANGED order PROVE OrderIsKept
  BY <1>1 DEF OrderIsKept
<1>2. \A p \in Refreshers : BeginRefresh(p) \/ ScanSkill(p) \/ ScanProject(p) => UNCHANGED order
  BY DEF BeginRefresh, ScanSkill, ScanProject
<1>3. Edit \/ Find \/ Activate \/ UNCHANGED skillVars => UNCHANGED order
  BY DEF Edit, Find, Activate, skillVars
<1> QED BY <1>1, <1>2, <1>3, PublishKeepsPlaces DEF SkillNext

\* Skills that stay listed stay in the order they were first found in, so that the
\* prompt that lists them only grows at its end, for any number of refreshers and edits
\* (skills/pool.go).
THEOREM OrderIsKeptAlways == SkillSpec => [][OrderIsKept]_skillVars
<1> QED BY SkillInvFirst, SkillInvKept, SkillStepKeepsPlaces, PTL DEF SkillSpec

-----------------------------------------------------------------------------
(* Side by side *)

\* A step of the parts together is a step of one of them, and the others stutter.
LEMMA MemoryPartsRun ==
  MemorySpec => ContextSpec /\ CacheSpec /\ RateSpec /\ LogSpec /\ WikiSpec /\ SkillSpec
<1>1. MemoryInit => ContextInit /\ CacheInit /\ RateInit /\ LogInit /\ WikiInit /\ SkillInit
  BY DEF MemoryInit
<1>2. [MemoryNext]_memoryVars => [ContextNext]_contextVars
  BY DEF MemoryNext, memoryVars
<1>3. [MemoryNext]_memoryVars => [CacheNext]_cacheVars
  BY DEF MemoryNext, memoryVars
<1>4. [MemoryNext]_memoryVars => [RateNext]_rateVars
  BY DEF MemoryNext, memoryVars
<1>5. [MemoryNext]_memoryVars => [LogNext]_logVars
  BY DEF MemoryNext, memoryVars
<1>6. [MemoryNext]_memoryVars => [WikiNext]_wikiVars
  BY DEF MemoryNext, memoryVars
<1>7. [MemoryNext]_memoryVars => [SkillNext]_skillVars
  BY DEF MemoryNext, memoryVars
<1> QED BY <1>1, <1>2, <1>3, <1>4, <1>5, <1>6, <1>7, PTL
        DEF MemorySpec, ContextSpec, CacheSpec, RateSpec, LogSpec, WikiSpec, SkillSpec

\* What is held of the conversation is a beginning of what is sent, the recorded changes
\* of the cached prefix follow one another, and a caller reports a collapse of the hit rate
\* once (context/manager.go, cache/cache.go).
THEOREM PrefixIsKeptAlways == MemorySpec => []PrefixIsKept
  BY MemoryPartsRun, HeldIsPrefixAlways, ChangesChainAlways, AlarmOnceAlways, PTL DEF PrefixIsKept

\* A log record is written once, in the file of its day, and an orderly end drains them
\* (logging/collector.go); the index of the wiki follows its files (wiki.go).
THEOREM WrittenOnceWhereItBelongsAlways == MemorySpec => []WrittenOnceWhereItBelongs
  BY MemoryPartsRun, OnceInItsFileAlways, IndexFollowsFilesAlways, PTL DEF WrittenOnceWhereItBelongs

\* The list of skills only grows at its end (skills/pool.go), and a compaction keeps the
\* newest message, the recent turns and the failed results (context/manager.go).
THEOREM HistoryIsKeptAlways == MemorySpec => HistoryIsKept
<1>1. [OrderIsKept]_skillVars => OrderIsKept
  BY DEF skillVars, OrderIsKept
<1>2. [WhatCompactionKeeps]_contextVars => WhatCompactionKeeps
  BY DEF contextVars, WhatCompactionKeeps
<1>3. [OrderIsKept]_skillVars /\ [WhatCompactionKeeps]_contextVars =>
        [OrderIsKept /\ WhatCompactionKeeps]_memoryVars
  BY <1>1, <1>2
<1> QED BY <1>3, MemoryPartsRun, OrderIsKeptAlways, WhatCompactionKeepsAlways, PTL DEF HistoryIsKept
=============================================================================
