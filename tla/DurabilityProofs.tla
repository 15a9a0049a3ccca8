-------------------------- MODULE DurabilityProofs --------------------------
(***************************************************************************)
(* What a storage scope keeps through crashes, for any number of records,  *)
(* crashes, failed transactions and syncs, and repairs.                    *)
(***************************************************************************)
EXTENDS Durability, DataLemmas, FiniteSetTheorems, TLAPS

-----------------------------------------------------------------------------
(* Journal files *)

\* The first n pieces have their line ends; all but the last one have.
Ended(j, n) == \A k \in 1 .. n : j[k].ended
Tidy(j)     == \A k \in DOMAIN j : k < Len(j) => j[k].ended

\* A record is among the first n pieces, with whole lines up to it.
Saved(j, r, n) == \E k \in 1 .. n : Ended(j, k) /\ j[k].of = r

\* The records of the pieces.
RecordsOf(j) == {j[k].of : k \in DOMAIN j} \ {Torn}

\* A piece is a record, with or without its line end, or a fragment.
LEMMA PieceFields ==
  /\ Fragment \in Piece /\ ~Fragment.ended /\ Fragment.of = Torn
  /\ \A p \in Piece : /\ p.ended \in BOOLEAN
                      /\ p.of \in Record \/ p = Fragment
                      /\ p.of = Torn <=> p = Fragment
                      /\ p.ended => p # Fragment
                      /\ Unended(p.of) \in Piece /\ Unended(p.of).of = p.of
<1>1. Fragment \in Piece /\ ~Fragment.ended /\ Fragment.of = Torn
  BY DEF Piece, Fragment, Unended
<1> DEFINE Good(p) == /\ p.ended \in BOOLEAN
                      /\ p.of \in Record \/ p = Fragment
                      /\ p.of = Torn <=> p = Fragment
                      /\ p.ended => p # Fragment
                      /\ Unended(p.of) \in Piece /\ Unended(p.of).of = p.of
<1>2. ASSUME NEW p \in [of : Record, ended : BOOLEAN] PROVE Good(p)
  <2>1. p.of \in Record /\ p.ended \in BOOLEAN /\ p.of # Torn
    BY TornLine
  <2>2. Unended(p.of) \in [of : Record, ended : BOOLEAN] /\ Unended(p.of).of = p.of
    BY <2>1 DEF Unended
  <2>3. p # Fragment
    BY <1>1, <2>1
  <2> QED BY <2>1, <2>2, <2>3 DEF Piece
<1>3. Good(Fragment)
  <2>1. Unended(Fragment.of) = Fragment
    BY <1>1 DEF Fragment
  <2>2. Fragment.ended \in BOOLEAN
    BY DEF Fragment, Unended
  <2> QED BY <1>1, <2>1, <2>2
<1>4. \A p \in Piece : p \in [of : Record, ended : BOOLEAN] \/ p = Fragment
  BY DEF Piece
<1> HIDE DEF Good
<1>5. \A p \in Piece : Good(p)
  BY <1>2, <1>3, <1>4
<1> QED BY <1>1, <1>5 DEF Good

LEMMA WholePiece ==
  ASSUME NEW r \in Record
  PROVE  /\ [of |-> r, ended |-> TRUE] \in Piece
         /\ [of |-> r, ended |-> TRUE].ended /\ [of |-> r, ended |-> TRUE].of = r
  BY DEF Piece

\* The first bad line begins behind lines that parse, or there is none.
LEMMA FirstBadIs ==
  ASSUME NEW j \in Seq(Piece)
  PROVE  /\ FirstBad(j) \in 1 .. Len(j) + 1
         /\ FirstBad(j) <= Len(j) => ~Parses(j, FirstBad(j))
         /\ \A m \in 1 .. FirstBad(j) - 1 : Parses(j, m)
<1> DEFINE T == {n \in 1 .. Len(j) + 1 : n <= Len(j) => ~Parses(j, n)}
<1>1. Len(j) \in Nat
  OBVIOUS
<1>2. T \in SUBSET Nat /\ Len(j) + 1 \in T
  BY <1>1
<1>3. PICK n \in T : \A m \in T : n <= m
  <2> HIDE DEF T
  <2> QED BY <1>2, LeastNumber
<1>4. ASSUME NEW m \in 1 .. n - 1 PROVE Parses(j, m)
  <2>1. m \in 1 .. Len(j) + 1 /\ m \notin T
    BY <1>1, <1>3
  <2> QED BY <2>1
<1>5. \E k \in 1 .. Len(j) + 1 : /\ k <= Len(j) => ~Parses(j, k)
                                 /\ \A m \in 1 .. k - 1 : Parses(j, m)
  BY <1>3, <1>4
<1> HIDE DEF T
<1> QED BY <1>5 DEF FirstBad

\* What can be read are records.
LEMMA ReadType ==
  ASSUME NEW j \in Seq(Piece)
  PROVE  /\ ReadJournal(j) \in Seq(Record)
         /\ DOMAIN ReadJournal(j) = 1 .. FirstBad(j) - 1
         /\ \A k \in 1 .. FirstBad(j) - 1 : ReadJournal(j)[k] = j[k].of
         /\ ToSet(ReadJournal(j)) \subseteq RecordsOf(j)
<1>1. PICK n \in 1 .. Len(j) + 1 : n = FirstBad(j)
  BY FirstBadIs
<1>2. Len(j) \in Nat /\ DOMAIN j = 1 .. Len(j) /\ n - 1 \in Nat
      /\ \A k \in 1 .. n - 1 : k \in DOMAIN j /\ j[k] \in Piece
  BY <1>1
<1>3. \A k \in 1 .. n - 1 : j[k].of \in Record /\ j[k].of # Torn
  BY <1>1, <1>2, FirstBadIs, PieceFields DEF Parses
<1>4. PICK s : s = [k \in 1 .. n - 1 |-> j[k].of]
  OBVIOUS
<1>5. s \in Seq(Record) /\ DOMAIN s = 1 .. n - 1 /\ \A k \in 1 .. n - 1 : s[k] = j[k].of
  BY <1>2, <1>3, <1>4
<1>6. ToSet(s) \subseteq RecordsOf(j)
  BY <1>2, <1>3, <1>5 DEF ToSet, RecordsOf
<1> QED BY <1>1, <1>4, <1>5, <1>6 DEF ReadJournal

\* Whole lines at the beginning of a file are read, whatever is behind them.
LEMMA SavedIsRead ==
  ASSUME NEW j \in Seq(Piece), NEW n \in 0 .. Len(j), Ended(j, n)
  PROVE  n < FirstBad(j)
<1>1. Len(j) \in Nat /\ \A m \in 1 .. n : j[m] \in Piece
  OBVIOUS
<1>2. ASSUME NEW m \in 1 .. n PROVE Parses(j, m)
  <2>1. j[m].ended /\ j[m].of # Torn
    BY <1>1, PieceFields DEF Ended
  <2>2. m > 1 => j[m - 1].ended
    BY <1>1 DEF Ended
  <2> QED BY <2>1, <2>2 DEF Parses
<1>3. FirstBad(j) \in 1 .. Len(j) + 1 /\ (FirstBad(j) <= Len(j) => ~Parses(j, FirstBad(j)))
  BY FirstBadIs
<1>4. ASSUME FirstBad(j) <= n PROVE FALSE
  BY <1>1, <1>2, <1>3, <1>4
<1> QED BY <1>1, <1>3, <1>4

\* A tidy file holds no bad line but a fragment at its end, and all of its records are read.
LEMMA ReadTidy ==
  ASSUME NEW j \in Seq(Piece), Tidy(j)
  PROVE  /\ IF j # <<>> /\ j[Len(j)] = Fragment THEN FirstBad(j) = Len(j)
            ELSE FirstBad(j) = Len(j) + 1
         /\ ToSet(ReadJournal(j)) = RecordsOf(j)
<1>1. Len(j) \in Nat /\ DOMAIN j = 1 .. Len(j) /\ (j # <<>> <=> Len(j) > 0)
      /\ \A k \in 1 .. Len(j) : j[k] \in Piece
  OBVIOUS
<1>2. PICK n \in 1 .. Len(j) + 1 :
        /\ n = FirstBad(j)
        /\ n <= Len(j) => ~Parses(j, n)
        /\ \A m \in 1 .. n - 1 : Parses(j, m)
  BY FirstBadIs
<1>3. ASSUME n <= Len(j) PROVE n = Len(j) /\ j[n] = Fragment
  <2>1. n > 1 => j[n - 1].ended
    BY <1>1, <1>2, <1>3 DEF Tidy
  <2>2. j[n].of = Torn \/ (n < Len(j) /\ ~j[n].ended)
    BY <1>2, <1>3, <2>1 DEF Parses
  <2>3. n < Len(j) => j[n].ended
    BY <1>1, <1>2 DEF Tidy
  <2>4. j[n].of = Torn /\ j[n] \in Piece
    BY <1>1, <1>2, <1>3, <2>2, <2>3
  <2>5. j[n] = Fragment
    BY <2>4, PieceFields
  <2>6. ~(n < Len(j))
    BY <2>3, <2>5, PieceFields
  <2>7. n = Len(j)
    <3>1. PICK N \in Nat : N = Len(j)
      BY <1>1
    <3> QED BY <1>3, <2>6, <3>1
  <2> QED BY <2>5, <2>7
<1>4. ASSUME j # <<>>, j[Len(j)] = Fragment PROVE n <= Len(j)
  <2>1. ~Parses(j, Len(j))
    BY <1>4, PieceFields DEF Parses
  <2> QED BY <1>1, <1>2, <1>4, <2>1
<1>5. IF j # <<>> /\ j[Len(j)] = Fragment THEN n = Len(j) ELSE n = Len(j) + 1
  BY <1>1, <1>2, <1>3, <1>4
<1>6. \A k \in 1 .. Len(j) : k \notin 1 .. n - 1 => j[k].of = Torn
  BY <1>1, <1>2, <1>3, PieceFields
<1>7. RecordsOf(j) \subseteq ToSet(ReadJournal(j))
  BY <1>1, <1>2, <1>6, ReadType DEF RecordsOf, ToSet
<1> QED BY <1>2, <1>5, <1>7, ReadType

\* The records of a file whose pieces are those of another, up to their line ends.
LEMMA FewerRecords ==
  ASSUME NEW j \in Seq(Piece), NEW t \in Seq(Piece), Len(t) <= Len(j),
         \A k \in 1 .. Len(t) : t[k] = Fragment \/ t[k].of = j[k].of
  PROVE  RecordsOf(t) \subseteq RecordsOf(j)
<1>1. DOMAIN t = 1 .. Len(t) /\ DOMAIN j = 1 .. Len(j) /\ Len(t) \in Nat /\ Len(j) \in Nat
  OBVIOUS
<1> QED BY <1>1, PieceFields DEF RecordsOf

\* What a cut leaves of a file: the first n pieces as they are, and all others but the
\* last one.
LEMMA RemainsKeeps ==
  ASSUME NEW j \in Seq(Piece), NEW n \in 0 .. Len(j), NEW r \in Remains(j, n)
  PROVE  /\ r \in Seq(Piece) /\ n <= Len(r) /\ Len(r) <= Len(j)
         /\ \A k \in 1 .. n : r[k] = j[k]
         /\ \A k \in 1 .. Len(r) - 1 : r[k] = j[k]
         /\ RecordsOf(r) \subseteq RecordsOf(j)
         /\ Tidy(j) => Tidy(r)
         /\ n = Len(j) => r = j
<1>1. Len(j) \in Nat /\ DOMAIN j = 1 .. Len(j) /\ n \in Nat
  OBVIOUS
<1>2. \A m \in 0 .. Len(j) :
        /\ SubSeq(j, 1, m) \in Seq(Piece) /\ Len(SubSeq(j, 1, m)) = m
        /\ \A k \in 1 .. m : SubSeq(j, 1, m)[k] = j[k]
  BY <1>1
<1>3. CASE \E m \in n .. Len(j) : r = SubSeq(j, 1, m)
  <2>1. PICK m \in n .. Len(j) : r = SubSeq(j, 1, m)
    BY <1>3
  <2>2. m \in 0 .. Len(j) /\ r \in Seq(Piece) /\ Len(r) = m /\ \A k \in 1 .. m : r[k] = j[k]
    BY <1>1, <1>2, <2>1
  <2>3. RecordsOf(r) \subseteq RecordsOf(j)
    BY <1>1, <2>2, FewerRecords
  <2>4. Tidy(j) => Tidy(r)
    BY <1>1, <2>2 DEF Tidy
  <2>5. n = Len(j) => r = j
    BY <1>1, <2>1, <2>2
  <2>6. n <= Len(r) /\ Len(r) <= Len(j)
    BY <1>1, <2>1, <2>2
  <2>7. /\ \A k \in 1 .. n : r[k] = j[k]
        /\ \A k \in 1 .. Len(r) - 1 : r[k] = j[k]
    BY <1>1, <2>1, <2>2
  <2> QED BY <2>2, <2>3, <2>4, <2>5, <2>6, <2>7
<1>4. CASE \E m \in n .. Len(j) - 1 : \/ r = Append(SubSeq(j, 1, m), Fragment)
                                     \/ r = Append(SubSeq(j, 1, m), Unended(j[m + 1].of))
  <2>1. PICK m \in n .. Len(j) - 1 : \/ r = Append(SubSeq(j, 1, m), Fragment)
                                     \/ r = Append(SubSeq(j, 1, m), Unended(j[m + 1].of))
    BY <1>4
  <2>2. m \in 0 .. Len(j) /\ m + 1 \in 1 .. Len(j) /\ m + 1 <= Len(j) /\ n <= m
    BY <1>1, <2>1
  <2>3. PICK c \in Piece : r = Append(SubSeq(j, 1, m), c) /\ (c = Fragment \/ c.of = j[m + 1].of)
    <3>1. j[m + 1] \in Piece
      BY <1>1, <2>2
    <3> QED BY <2>1, <3>1, PieceFields
  <2>4. /\ r \in Seq(Piece) /\ Len(r) = m + 1 /\ r[m + 1] = c
        /\ \A k \in 1 .. m : r[k] = j[k]
    BY <1>1, <1>2, <2>2, <2>3
  <2>5. \A k \in 1 .. m + 1 : k \in 1 .. m \/ k = m + 1
    BY <2>2
  <2>6. RecordsOf(r) \subseteq RecordsOf(j)
    <3>1. \A k \in 1 .. Len(r) : r[k] = Fragment \/ r[k].of = j[k].of
      BY <2>3, <2>4, <2>5
    <3> QED BY <2>2, <2>4, <3>1, FewerRecords
  <2>7. Tidy(j) => Tidy(r)
    BY <1>1, <2>2, <2>4 DEF Tidy
  <2>8. n # Len(j) /\ \A k \in 1 .. n : r[k] = j[k]
    <3>1. PICK N \in Nat : N = Len(j)
      BY <1>1
    <3>2. m + 1 <= N /\ n <= m /\ m \in Nat
      BY <2>2, <3>1
    <3>3. n # N
      BY <1>1, <3>2
    <3>4. \A k \in 1 .. n : k \in 1 .. m
      BY <1>1, <3>2
    <3> QED BY <2>4, <3>1, <3>3, <3>4
  <2>9. n <= Len(r) /\ Len(r) <= Len(j) /\ \A k \in 1 .. Len(r) - 1 : r[k] = j[k]
    <3>1. n <= m + 1 /\ m + 1 <= Len(j) /\ m + 1 - 1 = m
      BY <1>1, <2>2
    <3> QED BY <2>4, <3>1
  <2> QED BY <2>4, <2>6, <2>7, <2>8, <2>9
<1> QED BY <1>3, <1>4 DEF Remains

\* Truncating keeps the lines that parse, and of a tidy file all records and whole lines only.
LEMMA TruncateKeeps ==
  ASSUME NEW j \in Seq(Piece), NEW t, t \in TruncatePartialJournal(j)
  PROVE  /\ t \in Seq(Piece) /\ FirstBad(j) - 1 <= Len(t) /\ Len(t) <= Len(j)
         /\ \A k \in 1 .. FirstBad(j) - 1 : t[k] = j[k]
         /\ RecordsOf(t) \subseteq RecordsOf(j)
         /\ Tidy(j) => /\ Tidy(t) /\ Fragment \notin ToSet(t)
                       /\ RecordsOf(t) = RecordsOf(j)
                       /\ Fragment \notin ToSet(j) => t = j
<1>1. PICK N \in Nat : N = Len(j) /\ DOMAIN j = 1 .. N
  OBVIOUS
<1>2. PICK n \in 1 .. N + 1 : n = FirstBad(j)
  BY <1>1, FirstBadIs
<1> DEFINE Kept == /\ t \in Seq(Piece) /\ n - 1 <= Len(t) /\ Len(t) <= N
                   /\ \A k \in 1 .. n - 1 : t[k] = j[k]
                   /\ RecordsOf(t) \subseteq RecordsOf(j)
           Cut  == /\ Tidy(t) /\ Fragment \notin ToSet(t)
                   /\ RecordsOf(t) = RecordsOf(j)
                   /\ Fragment \notin ToSet(j) => t = j
<1> SUFFICES Kept /\ (Tidy(j) => Cut)
  BY <1>1, <1>2
<1>3. PICK kept : kept = SubSeq(j, 1, n - 1)
  OBVIOUS
<1>4. PICK ends : ends = {m \in n .. Len(j) : j[m].ended}
  OBVIOUS
<1>5. /\ kept \in Seq(Piece) /\ Len(kept) = n - 1 /\ n - 1 \in 0 .. N
      /\ \A k \in 1 .. n - 1 : kept[k] = j[k]
  BY <1>1, <1>2, <1>3
<1>6. \/ n > N /\ t = j
      \/ n <= N /\ ends = {} /\ t = kept
      \/ n <= N /\ ends = {N} /\ t = Append(kept, Fragment)
      \/ n <= N /\ ends # {} /\ t \in Remains(j, n - 1)
  <2>1. TruncatePartialJournal(j) =
          IF n > N THEN {j} ELSE IF ends = {} THEN {kept}
          ELSE IF ends = {N} THEN {Append(kept, Fragment)}
          ELSE Remains(j, n - 1) \ {j, kept}
    BY <1>1, <1>2, <1>3, <1>4 DEF TruncatePartialJournal
  <2>2. n > N \/ n <= N
    OBVIOUS
  <2> QED BY <2>1, <2>2
<1>7. CASE n > N /\ t = j
  <2>1. n - 1 = N /\ FirstBad(j) - 1 = N
    BY <1>2, <1>7
  <2>2. \A m \in 1 .. N : Parses(j, m)
    BY <2>1, FirstBadIs
  <2>3. Fragment \notin ToSet(j)
    BY <1>1, <2>2, PieceFields DEF ToSet, Parses
  <2>4. Kept
    BY <1>1, <1>7, <2>1
  <2> QED BY <1>7, <2>3, <2>4
<1>8. CASE n <= N /\ ends = {} /\ t = kept
  <2>1. /\ t \in Seq(Piece) /\ Len(t) = n - 1 /\ n - 1 <= N
        /\ \A k \in 1 .. n - 1 : t[k] = j[k]
    BY <1>5, <1>8
  <2>2. RecordsOf(t) \subseteq RecordsOf(j)
    <3>1. Len(t) <= Len(j) /\ \A k \in 1 .. Len(t) : t[k].of = j[k].of
      BY <1>1, <2>1
    <3> QED BY <2>1, <3>1, FewerRecords
  <2>3. Kept
    BY <1>5, <2>1, <2>2
  <2>4. ASSUME Tidy(j) PROVE Cut
    <3>1. n = N /\ j[N] = Fragment
      BY <1>1, <1>2, <1>8, <2>4, ReadTidy
    <3>2. \A k \in 1 .. N - 1 : j[k].ended /\ j[k] \in Piece
      BY <1>1, <2>4 DEF Tidy
    <3>3. Len(t) = N - 1 /\ DOMAIN t = 1 .. N - 1 /\ \A k \in 1 .. N - 1 : t[k] = j[k]
      BY <2>1, <3>1
    <3>4. Tidy(t) /\ Fragment \notin ToSet(t)
      <4>1. \A k \in 1 .. N - 1 : t[k].ended /\ t[k] # Fragment
        BY <3>2, <3>3, PieceFields
      <4>2. Tidy(t)
        BY <3>3, <4>1 DEF Tidy
      <4> QED BY <3>3, <4>1, <4>2 DEF ToSet
    <3>5. RecordsOf(j) \subseteq RecordsOf(t)
      <4>1. \A k \in 1 .. N : k = N \/ k \in 1 .. N - 1
        OBVIOUS
      <4>2. \A k \in 1 .. N : j[k].of = Torn \/ (k \in DOMAIN t /\ t[k].of = j[k].of)
        BY <3>1, <3>3, <4>1, PieceFields
      <4> QED BY <1>1, <4>2 DEF RecordsOf
    <3>6. Fragment \in ToSet(j)
      BY <1>1, <1>2, <3>1 DEF ToSet
    <3> QED BY <2>2, <3>4, <3>5, <3>6
  <2> HIDE DEF Kept, Cut
  <2> QED BY <2>3, <2>4
<1>9. ASSUME n <= N, ends # {}, Tidy(j) PROVE FALSE
  <2>1. n = N /\ j[N] = Fragment
    BY <1>1, <1>2, <1>9, ReadTidy
  <2>2. PICK m \in n .. N : j[m].ended
    BY <1>1, <1>4, <1>9
  <2>3. m = N
    BY <2>1, <2>2
  <2> QED BY <2>1, <2>2, <2>3, PieceFields
<1>10. CASE n <= N /\ ends = {N} /\ t = Append(kept, Fragment)
  <2>1. /\ t \in Seq(Piece) /\ Len(t) = n /\ t[n] = Fragment /\ \A k \in 1 .. n - 1 : t[k] = j[k]
    BY <1>5, <1>10, PieceFields
  <2>2. \A k \in 1 .. n : k = n \/ k \in 1 .. n - 1
    BY <1>2
  <2>3. \A k \in 1 .. Len(t) : t[k] = Fragment \/ t[k].of = j[k].of
    BY <2>1, <2>2
  <2>4. RecordsOf(t) \subseteq RecordsOf(j)
    BY <1>1, <1>10, <2>1, <2>3, FewerRecords
  <2>5. ~Tidy(j)
    BY <1>9, <1>10
  <2>6. Kept
    BY <1>2, <1>10, <2>1, <2>4
  <2> QED BY <2>5, <2>6
<1>11. CASE n <= N /\ ends # {} /\ t \in Remains(j, n - 1)
  <2>1. ~Tidy(j)
    BY <1>9, <1>11
  <2>2. /\ t \in Seq(Piece) /\ n - 1 <= Len(t) /\ Len(t) <= Len(j)
        /\ \A k \in 1 .. n - 1 : t[k] = j[k]
        /\ RecordsOf(t) \subseteq RecordsOf(j)
    BY <1>1, <1>5, <1>11, RemainsKeeps
  <2> QED BY <1>1, <2>1, <2>2
<1> HIDE DEF Kept, Cut
<1> QED BY <1>6, <1>7, <1>8, <1>10, <1>11

\* A batch goes behind what is there, line by line.
LEMMA AppendLinesIs ==
  ASSUME NEW j \in Seq(Piece), NEW b \in Seq(Record), NEW t, t = AppendLines(j, b)
  PROVE  /\ t \in Seq(Piece) /\ Len(t) = Len(j) + Len(b)
         /\ \A k \in 1 .. Len(j) : t[k] = j[k]
         /\ RecordsOf(t) = RecordsOf(j) \cup ToSet(b)
         /\ WholeLines(j) => /\ WholeLines(t) /\ Tidy(t)
                             /\ \A r \in ToSet(b) : Saved(t, r, Len(t))
<1> DEFINE z == [n \in DOMAIN b |-> [of |-> b[n], ended |-> TRUE]]
<1>1. /\ Len(j) \in Nat /\ DOMAIN j = 1 .. Len(j) /\ Len(b) \in Nat /\ DOMAIN b = 1 .. Len(b)
      /\ \A k \in 1 .. Len(b) : b[k] \in Record
  OBVIOUS
<1>2. /\ z \in Seq(Piece) /\ Len(z) = Len(b)
      /\ \A k \in 1 .. Len(b) : z[k].of = b[k] /\ z[k].ended
  BY <1>1, WholePiece
<1>3. t = j \o z
  BY DEF AppendLines
<1> HIDE DEF z
<1>4. /\ t \in Seq(Piece) /\ Len(t) = Len(j) + Len(b) /\ DOMAIN t = 1 .. Len(j) + Len(b)
      /\ \A k \in 1 .. Len(j) : t[k] = j[k]
      /\ \A k \in 1 .. Len(b) : t[Len(j) + k] = z[k]
  <2>1. /\ j \o z \in Seq(Piece) /\ Len(j \o z) = Len(j) + Len(z)
        /\ \A k \in 1 .. Len(j) : (j \o z)[k] = j[k]
        /\ \A k \in 1 .. Len(z) : (j \o z)[Len(j) + k] = z[k]
    <3>1. z \in Seq(Piece)
      BY <1>2
    <3> QED BY <3>1, ConcatElements
  <2>2. /\ t \in Seq(Piece) /\ Len(t) = Len(j) + Len(b)
        /\ \A k \in 1 .. Len(j) : t[k] = j[k]
        /\ \A k \in 1 .. Len(b) : t[Len(j) + k] = z[k]
    BY <1>2, <1>3, <2>1
  <2>3. DOMAIN t = 1 .. Len(t)
    BY <2>2
  <2> QED BY <2>2, <2>3
<1>5. \A k \in 1 .. Len(j) + Len(b) :
        k \in 1 .. Len(j) \/ (k - Len(j) \in 1 .. Len(b) /\ k = Len(j) + (k - Len(j)))
  BY <1>1
<1>6. /\ \A k \in 1 .. Len(j) : k \in 1 .. Len(j) + Len(b)
      /\ \A k \in 1 .. Len(b) : Len(j) + k \in 1 .. Len(j) + Len(b)
  BY <1>1
<1>7. ASSUME NEW r \in RecordsOf(t) PROVE r \in RecordsOf(j) \cup ToSet(b)
  <2>1. PICK k \in 1 .. Len(j) + Len(b) : r = t[k].of /\ r # Torn
    BY <1>4 DEF RecordsOf
  <2>2. CASE k \in 1 .. Len(j)
    BY <1>1, <1>4, <2>1, <2>2 DEF RecordsOf
  <2>3. CASE k - Len(j) \in 1 .. Len(b) /\ k = Len(j) + (k - Len(j))
    <3>1. r = b[k - Len(j)]
      BY <1>2, <1>4, <2>1, <2>3
    <3> QED BY <1>1, <2>3, <3>1 DEF ToSet
  <2> QED BY <1>5, <2>2, <2>3
<1>8. ASSUME NEW r \in RecordsOf(j) PROVE r \in RecordsOf(t)
  BY <1>1, <1>4, <1>6, <1>8 DEF RecordsOf
<1>9. ASSUME NEW r \in ToSet(b)
      PROVE  \E k \in 1 .. Len(b) : r = t[Len(j) + k].of /\ Len(j) + k \in 1 .. Len(t)
  BY <1>1, <1>2, <1>4, <1>6, <1>9 DEF ToSet
<1>10. RecordsOf(t) = RecordsOf(j) \cup ToSet(b)
  <2>1. ASSUME NEW r \in ToSet(b) PROVE r \in RecordsOf(t)
    <3>1. PICK k \in 1 .. Len(t) : r = t[k].of
      BY <1>9
    <3>2. k \in DOMAIN t
      BY <1>4
    <3>3. r # Torn
      BY <1>1, TornLine DEF ToSet
    <3> QED BY <3>1, <3>2, <3>3 DEF RecordsOf
  <2> QED BY <1>7, <1>8, <2>1
<1>11. ASSUME WholeLines(j) PROVE /\ WholeLines(t) /\ Tidy(t)
                                  /\ \A r \in ToSet(b) : Saved(t, r, Len(t))
  <2>1. WholeLines(t)
    <3>1. \A k \in 1 .. Len(j) : t[k].ended
      BY <1>1, <1>4, <1>11 DEF WholeLines
    <3>2. \A k \in 1 .. Len(b) : t[Len(j) + k].ended
      BY <1>2, <1>4
    <3>3. \A k \in 1 .. Len(j) + Len(b) : t[k].ended
      BY <1>5, <3>1, <3>2
    <3> QED BY <1>4, <3>3 DEF WholeLines
  <2>2. \A k \in 1 .. Len(t) : Ended(t, k)
    BY <1>1, <1>4, <2>1 DEF WholeLines, Ended
  <2>3. Tidy(t)
    BY <2>1 DEF WholeLines, Tidy
  <2> QED BY <1>9, <2>1, <2>2, <2>3 DEF Saved
<1> QED BY <1>4, <1>10, <1>11

\* What is saved stays where its place and those before it do.
LEMMA SavedStays ==
  ASSUME NEW j, NEW t, NEW n \in Nat, NEW m \in Nat, NEW r, Saved(j, r, n),
         \A k \in 1 .. n : Ended(j, k) => k <= m,
         \A k \in 1 .. n : Ended(j, k) => \A i \in 1 .. k : t[i] = j[i]
  PROVE  Saved(t, r, m)
<1>1. PICK k \in 1 .. n : Ended(j, k) /\ j[k].of = r
  BY DEF Saved
<1>2. k \in 1 .. m /\ \A i \in 1 .. k : t[i] = j[i]
  BY <1>1
<1>3. k \in 1 .. k
  OBVIOUS
<1> QED BY <1>1, <1>2, <1>3 DEF Saved, Ended

-----------------------------------------------------------------------------
(* Types *)

\* A stream's number never runs ahead of the records that were appended.
TypeInv == TypeOK /\ seq <= appended

\* What is left in the file as long as no Close took a failed sync for a good one and no
\* record went astray: fragments only where a recovery comes first.
CleanInv ==
  /\ phase \notin {"down", "opened"} => Fragment \notin ToSet(journal)
  /\ flagDb = "clean" => Fragment \notin ToSet(journal) /\ synced = Len(journal)
  /\ phase \in {"cleanFile", "cleanDb"} => synced = Len(journal)

\* The journal file: what a Flush made safe is on disk behind whole lines only, what a
\* drain wrote is in the file likewise, and a write behind a line that is not whole is one
\* of records that went astray.
FilesInv ==
  /\ \A r \in flushed \ astray : Saved(journal, r, synced)
  /\ phase \in {"ledger", "fsync"} =>
       \A r \in ToSet(batch) \ astray : Saved(journal, r, Len(journal))
  /\ phase = "journal" => batch # <<>> /\ (WholeLines(journal) \/ ToSet(batch) \subseteq astray)
  /\ phase \in Serving => flagDb = "dirty"
  /\ unclean => flagDb = "dirty"
  /\ astray = {} => Tidy(journal)
  /\ astray = {} /\ ~unsafe => CleanInv

\* A record has a type and a number.
LEMMA RecordFields ==
  \A r \in Record : r.id \in 1 .. MaxRecords /\ r.seq \in 1 .. MaxRecords
  BY DEF Record

\* A transaction puts records into the tables, and counts rows.
LEMMA AuditType ==
  ASSUME TypeOK, NEW records \in Seq(Record), NEW after, WriteAudit(records, after)
  PROVE  /\ messages' \subseteq 1 .. MaxRecords
         /\ tools' \subseteq Record
         /\ events' \in [1 .. MaxRecords -> Nat]
<1>1. \A k \in DOMAIN records : records[k] \in Record /\ records[k].id \in 1 .. MaxRecords
  BY RecordFields
<1>2. messages' \subseteq 1 .. MaxRecords
  BY <1>1 DEF WriteAudit, TypeOK
<1>3. tools' \subseteq Record
  BY <1>1 DEF WriteAudit, TypeOK
<1>4. \A K \in SUBSET (1 .. Len(records)) : Cardinality(K) \in Nat
  <2>1. Len(records) \in Nat
    OBVIOUS
  <2>2. IsFiniteSet(1 .. Len(records))
    BY <2>1, FS_Interval
  <2> QED BY <2>2, FS_Subset, FS_CardinalityType
<1>5. events' \in [1 .. MaxRecords -> Nat]
  <2> DEFINE new  == {k \in DOMAIN records : records[k].seq > after}
             K(i) == {k \in new : records[k].id = i}
  <2>1. \A i : K(i) \in SUBSET (1 .. Len(records))
    OBVIOUS
  <2>2. \A i : Cardinality(K(i)) \in Nat
    BY <1>4, <2>1
  <2>3. events' = [i \in DOMAIN events |-> events[i] + Cardinality(K(i))]
    BY DEF WriteAudit
  <2> HIDE DEF K
  <2> QED BY <2>2, <2>3 DEF TypeOK
<1> QED BY <1>2, <1>3, <1>5

\* Reading and repairing a journal leaves pieces, and no more of them synced than there are.
LEMMA ReadAndTruncateType ==
  ASSUME TypeOK, ReadAndTruncate
  PROVE  /\ journal' \in Seq(Piece) /\ synced' \in 0 .. Len(journal')
         /\ batch' \in Seq(Record)
<1>0. journal \in Seq(Piece)
  BY DEF TypeOK
<1>1. journal' \in Seq(Piece)
  BY <1>0, TruncateKeeps DEF ReadAndTruncate
<1>2. synced' \in 0 .. Len(journal')
  <2>1. Len(journal') \in Nat /\ synced \in Nat
    BY <1>1 DEF TypeOK
  <2> QED BY <2>1 DEF ReadAndTruncate
<1>3. batch' \in Seq(Record)
  BY <1>0, ReadType DEF ReadAndTruncate
<1> QED BY <1>1, <1>2, <1>3

\* The checkpoint a start sets is the number of a record that can be read, or zero.
LEMMA CheckpointType ==
  ASSUME TypeOK, Checkpoint
  PROVE  /\ checkpoint' \in {r.seq : r \in ToSet(ReadJournal(journal))} \cup {0}
         /\ checkpoint' \in 0 .. MaxRecords
         /\ \A r \in ToSet(ReadJournal(journal)) : r.seq <= checkpoint'
<1> DEFINE seqs == {r.seq : r \in ToSet(ReadJournal(journal))} \cup {0}
<1>1. ReadJournal(journal) \in Seq(Record)
  BY ReadType DEF TypeOK
<1>2. \A r \in ToSet(ReadJournal(journal)) : r.seq \in 0 .. MaxRecords
  BY <1>1, RecordFields, Elements
<1>3. seqs \in SUBSET (0 .. MaxRecords) /\ seqs # {}
  BY <1>2, Bounds DEF Bounds
<1>4. \E n \in seqs : \A m \in seqs : m <= n
  <2> HIDE DEF seqs
  <2> QED BY <1>3, GreatestNumber, Bounds DEF Bounds
<1>5. checkpoint' \in seqs /\ \A m \in seqs : m <= checkpoint'
  BY <1>4 DEF Checkpoint
<1> QED BY <1>3, <1>5

\* Where a crash leaves the journal: what was synced stays in place, what is new was
\* being written.
LEMMA CrashLeaves ==
  ASSUME TypeInv, FilesInv, Kill \/ PowerLoss
  PROVE  /\ journal' \in Seq(Piece)
         /\ synced' \in 0 .. Len(journal') /\ synced <= synced'
         /\ \A k \in 1 .. synced : journal'[k] = journal[k]
         /\ RecordsOf(journal') \subseteq RecordsOf(journal) \cup ToSet(batch)
         /\ phase # "journal" => RecordsOf(journal') \subseteq RecordsOf(journal)
         /\ astray = {} => Tidy(journal')
         /\ phase # "journal" /\ synced = Len(journal) =>
              journal' = journal /\ synced' = synced
<1>1. PICK J : J = IF phase = "journal" THEN AppendLines(journal, batch) ELSE journal
  OBVIOUS
<1>2. /\ journal \in Seq(Piece) /\ Len(journal) \in Nat /\ synced \in 0 .. Len(journal)
      /\ batch \in Seq(Record)
  BY DEF TypeInv, TypeOK
<1>3. /\ J \in Seq(Piece) /\ Len(journal) <= Len(J) /\ Len(J) \in Nat
      /\ \A k \in 1 .. Len(journal) : J[k] = journal[k]
      /\ RecordsOf(J) \subseteq RecordsOf(journal) \cup ToSet(batch)
      /\ phase # "journal" => J = journal
      /\ astray = {} => Tidy(J)
  <2>1. CASE phase = "journal"
    <3>1. J = AppendLines(journal, batch)
      BY <1>1, <2>1
    <3>2. /\ J \in Seq(Piece) /\ Len(J) = Len(journal) + Len(batch)
          /\ \A k \in 1 .. Len(journal) : J[k] = journal[k]
          /\ RecordsOf(J) = RecordsOf(journal) \cup ToSet(batch)
          /\ WholeLines(journal) => Tidy(J)
      BY <1>2, <3>1, AppendLinesIs
    <3>3. Len(batch) \in Nat /\ Len(J) \in Nat
      BY <1>2, <3>2
    <3>4. Len(journal) <= Len(J)
      BY <1>2, <3>2, <3>3
    <3>5. astray = {} => WholeLines(journal)
      <4>1. batch # <<>> /\ (WholeLines(journal) \/ ToSet(batch) \subseteq astray)
        BY <2>1 DEF FilesInv
      <4>2. batch[1] \in ToSet(batch)
        BY <1>2, <4>1 DEF ToSet
      <4> QED BY <4>1, <4>2
    <3> QED BY <2>1, <3>2, <3>3, <3>4, <3>5
  <2>2. CASE phase # "journal"
    BY <1>1, <1>2, <2>2 DEF FilesInv
  <2> QED BY <2>1, <2>2
<1>4. ASSUME NEW n \in 0 .. Len(J), synced <= n, journal' \in Remains(J, n)
      PROVE  /\ journal' \in Seq(Piece) /\ n <= Len(journal') /\ Len(journal') \in Nat
             /\ \A k \in 1 .. synced : journal'[k] = journal[k]
             /\ RecordsOf(journal') \subseteq RecordsOf(J)
             /\ astray = {} => Tidy(journal')
             /\ n = Len(J) => journal' = J
  <2>1. /\ journal' \in Seq(Piece) /\ n <= Len(journal')
        /\ \A k \in 1 .. n : journal'[k] = J[k]
        /\ RecordsOf(journal') \subseteq RecordsOf(J)
        /\ Tidy(J) => Tidy(journal')
        /\ n = Len(J) => journal' = J
    BY <1>3, <1>4, RemainsKeeps
  <2>2. \A k \in 1 .. synced : k \in 1 .. n /\ k \in 1 .. Len(journal)
    BY <1>2, <1>4
  <2> QED BY <1>3, <2>1, <2>2
<1>5. CASE PowerLoss
  <2>1. journal' \in Remains(J, synced) /\ synced' = Len(journal') /\ synced \in 0 .. Len(J)
    BY <1>1, <1>2, <1>3, <1>5 DEF PowerLoss
  <2>2. synced <= synced /\ synced \in Nat
    BY <1>2
  <2>3. /\ journal' \in Seq(Piece) /\ synced <= Len(journal') /\ Len(journal') \in Nat
        /\ \A k \in 1 .. synced : journal'[k] = journal[k]
        /\ RecordsOf(journal') \subseteq RecordsOf(J)
        /\ astray = {} => Tidy(journal')
        /\ synced = Len(J) => journal' = J
    BY <1>4, <2>1, <2>2
  <2>4. synced' \in 0 .. Len(journal') /\ synced <= synced'
    BY <2>1, <2>2, <2>3
  <2> QED BY <1>3, <2>1, <2>3, <2>4
<1>6. CASE Kill /\ phase = "journal"
  <2>1. journal' \in Remains(J, Len(journal)) /\ synced' = synced /\ Len(journal) \in 0 .. Len(J)
        /\ synced <= Len(journal)
    BY <1>1, <1>2, <1>3, <1>6 DEF Kill
  <2>2. /\ journal' \in Seq(Piece) /\ Len(journal) <= Len(journal') /\ Len(journal') \in Nat
        /\ \A k \in 1 .. synced : journal'[k] = journal[k]
        /\ RecordsOf(journal') \subseteq RecordsOf(J)
        /\ astray = {} => Tidy(journal')
    BY <1>4, <2>1
  <2>3. synced' \in 0 .. Len(journal') /\ synced <= synced'
    BY <1>2, <2>1, <2>2
  <2> QED BY <1>3, <1>6, <2>2, <2>3
<1>7. CASE Kill /\ phase # "journal"
  <2>1. journal' = journal /\ synced' = synced
    BY <1>7 DEF Kill
  <2> QED BY <1>2, <2>1 DEF FilesInv
<1> QED BY <1>5, <1>6, <1>7

\* Every step keeps the types.
LEMMA TypeStep == TypeInv /\ FilesInv /\ [Next]_vars => TypeInv'
<1> SUFFICES ASSUME TypeInv, FilesInv, [Next]_vars PROVE TypeInv'
  OBVIOUS
<1> USE DEF TypeInv, Phases, Opening, Serving, Closing, file, ledger, marker, process, bounds,
            written
<1>1. TypeOK /\ seq <= appended
  OBVIOUS
<1>2. CASE UNCHANGED vars
  BY <1>1, <1>2 DEF TypeOK, vars
<1>3. CASE Open \/ StartClean \/ Exit \/ StartWithoutCheckpoint
  <2>1. CASE Open \/ StartClean \/ StartWithoutCheckpoint
    BY <1>1, <2>1 DEF TypeOK, Open, StartClean, StartWithoutCheckpoint
  <2>2. CASE Exit
    <3>1. 0 \in 0 .. MaxRecords /\ 0 <= appended
      BY <1>1, Bounds DEF Bounds, TypeOK
    <3> QED BY <1>1, <2>2, <3>1 DEF TypeOK, Exit
  <2> QED BY <1>3, <2>1, <2>2
<1>4. CASE Recover
  <2>1. repairs' \in 0 .. MaxRepairs
    BY <1>1, <1>4, Bounds DEF TypeOK, Recover, Bounds
  <2>2. /\ journal' \in Seq(Piece) /\ synced' \in 0 .. Len(journal')
        /\ batch' \in Seq(Record)
    BY <1>1, <1>4, ReadAndTruncateType DEF Recover
  <2> QED BY <1>1, <1>4, <2>1, <2>2 DEF TypeOK, Recover
<1>5. CASE Replay
  <2>1. batch \in Seq(Record) /\ WriteAudit(batch, checkpoint)
    BY <1>1, <1>5 DEF TypeOK, Replay
  <2>2. messages' \subseteq 1 .. MaxRecords /\ tools' \subseteq Record
        /\ events' \in [1 .. MaxRecords -> Nat]
    BY <1>1, <2>1, AuditType
  <2> QED BY <1>1, <1>5, <2>2 DEF TypeOK, Replay
<1>6. CASE Checkpoint
  BY <1>1, <1>6, CheckpointType DEF TypeOK, Checkpoint
<1>7. CASE ReindexClear
  <2>1. repairs' \in 0 .. MaxRepairs
    BY <1>1, <1>7, Bounds DEF TypeOK, ReindexClear, Bounds
  <2>2. /\ journal' \in Seq(Piece) /\ synced' \in 0 .. Len(journal')
        /\ batch' \in Seq(Record)
    BY <1>1, <1>7, ReadAndTruncateType DEF ReindexClear
  <2> QED BY <1>1, <1>7, <2>1, <2>2, Bounds DEF TypeOK, ReindexClear, Bounds
<1>8. CASE ReindexWrite
  <2>1. batch \in Seq(Record) /\ WriteAudit(batch, 0)
    BY <1>1, <1>8 DEF TypeOK, ReindexWrite
  <2>2. messages' \subseteq 1 .. MaxRecords /\ tools' \subseteq Record
        /\ events' \in [1 .. MaxRecords -> Nat]
    BY <1>1, <2>1, AuditType
  <2> QED BY <1>1, <1>8, <2>2 DEF TypeOK, ReindexWrite
<1>9. CASE RepairFails \/ LedgerFails
  <2>1. failures' \in 0 .. MaxFailures
    BY <1>1, <1>9, Bounds DEF TypeOK, RepairFails, LedgerFails, SinkFails, Bounds
  <2>2. <<>> \in Seq(Record)
    OBVIOUS
  <2>3. CASE RepairFails
    BY <1>1, <2>1, <2>2, <2>3 DEF TypeOK, RepairFails
  <2>4. CASE LedgerFails
    BY <1>1, <2>1, <2>2, <2>4 DEF TypeOK, LedgerFails
  <2> QED BY <1>9, <2>3, <2>4
<1>10. CASE MarkDirtyFile \/ MarkDirtyDb \/ MarkCleanFile \/ MarkCleanDb
  <2>1. CASE MarkDirtyFile
    BY <1>1, <2>1 DEF TypeOK, MarkDirtyFile, WriteSentinel
  <2>2. CASE MarkCleanFile
    BY <1>1, <2>2 DEF TypeOK, MarkCleanFile, WriteSentinel
  <2>3. CASE MarkDirtyDb
    BY <1>1, <2>3, Bounds DEF TypeOK, MarkDirtyDb, Bounds
  <2>4. CASE MarkCleanDb
    BY <1>1, <2>4 DEF TypeOK, MarkCleanDb
  <2> QED BY <1>10, <2>1, <2>2, <2>3, <2>4
<1>11. ASSUME NEW type \in Types, AppendRecord(type) PROVE TypeInv'
  <2>1. [id |-> appended + 1, seq |-> seq + 1, type |-> type] \in Record
    BY <1>1, <1>11, Bounds DEF Bounds, TypeOK, AppendRecord, Record
  <2>2. queue' \in Seq(Record)
    BY <1>1, <1>11, <2>1 DEF TypeOK, AppendRecord
  <2>3. seq' \in 0 .. MaxRecords /\ appended' \in 0 .. MaxRecords /\ seq' <= appended'
    BY <1>1, <1>11, Bounds DEF Bounds, TypeOK, AppendRecord
  <2> QED BY <1>1, <1>11, <2>2, <2>3 DEF TypeOK, AppendRecord
<1>12. ASSUME NEW withSync \in BOOLEAN, StartDrain(withSync) PROVE TypeInv'
  BY <1>1, <1>12, Elements DEF TypeOK, StartDrain
<1>13. CASE WriteJournal
  <2>1. journal' = AppendLines(journal, batch)
    BY <1>13 DEF WriteJournal
  <2>2. /\ journal \in Seq(Piece) /\ batch \in Seq(Record)
        /\ Len(journal) \in Nat /\ synced \in 0 .. Len(journal) /\ Len(batch) \in Nat
    BY <1>1 DEF TypeOK
  <2>3. journal' \in Seq(Piece) /\ Len(journal') = Len(journal) + Len(batch)
    BY <2>1, <2>2, AppendLinesIs
  <2>4. journal' \in Seq(Piece) /\ synced \in 0 .. Len(journal')
    BY <2>2, <2>3
  <2> QED BY <1>1, <1>13, <2>4 DEF TypeOK, WriteJournal
<1>14. CASE WriteLedger
  <2>1. batch \in Seq(Record) /\ WriteAudit(batch, 0)
    BY <1>1, <1>14 DEF TypeOK, WriteLedger
  <2>2. messages' \subseteq 1 .. MaxRecords /\ tools' \subseteq Record
        /\ events' \in [1 .. MaxRecords -> Nat]
    BY <1>1, <2>1, AuditType
  <2> QED BY <1>1, <1>14, <2>2 DEF TypeOK, WriteLedger
<1>15. CASE Fsync
  <2>1. /\ Len(journal) \in Nat /\ Len(journal) \in 0 .. Len(journal)
        /\ ToSet(batch) \subseteq Record /\ <<>> \in Seq(Record)
    BY <1>1, Elements DEF TypeOK
  <2>2. synced' \in 0 .. Len(journal) /\ flushed' \subseteq Record
        /\ failures' \in 0 .. MaxFailures
    BY <1>1, <1>15, <2>1, Bounds DEF TypeOK, Fsync, SinkFails, Bounds
  <2> QED BY <1>1, <1>15, <2>1, <2>2 DEF TypeOK, Fsync
<1>17. CASE Shutdown
  <2>1. Len(journal) \in Nat /\ Len(journal) \in 0 .. Len(journal)
    BY <1>1 DEF TypeOK
  <2>2. synced' \in 0 .. Len(journal) /\ failures' \in 0 .. MaxFailures
    BY <1>1, <1>17, <2>1, Bounds DEF TypeOK, Shutdown, SinkFails, Bounds
  <2>3. unsafe' \in BOOLEAN
    BY <1>1, <1>17 DEF TypeOK, Shutdown
  <2> QED BY <1>1, <1>17, <2>1, <2>2, <2>3 DEF TypeOK, Shutdown
<1>16. CASE Kill \/ PowerLoss
  <2>1. /\ journal' \in Seq(Piece) /\ synced' \in 0 .. Len(journal')
    BY <1>16, CrashLeaves
  <2>2. crashes' \in 0 .. MaxCrashes
    BY <1>1, <1>16, Bounds DEF TypeOK, Kill, PowerLoss, Die, Bounds
  <2>3. flagFile' \in onDisk' /\ onDisk' \subseteq {"clean", "dirty"}
    <3>1. flagFile \in onDisk /\ onDisk \subseteq {"clean", "dirty"}
      BY <1>1 DEF TypeOK
    <3>2. CASE Kill
      <4>1. \/ flagFile' \in {flagFile, "dirty"} /\ onDisk' = onDisk \cup {"dirty"}
            \/ flagFile' = flagFile /\ onDisk' = onDisk
        BY <3>2 DEF Kill
      <4> QED BY <3>1, <4>1
    <3>3. CASE PowerLoss
      BY <3>1, <3>3 DEF PowerLoss
    <3> QED BY <1>16, <3>2, <3>3
  <2>4. Die
    BY <1>16 DEF Kill, PowerLoss
  <2>5. /\ phase' = "down" /\ queue' = <<>> /\ batch' = <<>> /\ seq' = 0 /\ sync' = FALSE
        /\ UNCHANGED <<ledger, flagDb, failures, repairs, written>>
    BY <2>4 DEF Die
  <2>6. "down" \in Phases /\ <<>> \in Seq(Record) /\ 0 \in 0 .. MaxRecords
        /\ 0 <= appended
    BY <1>1, Bounds DEF Phases, Bounds, TypeOK
  <2>7. /\ phase' \in Phases /\ seq' \in 0 .. MaxRecords /\ seq' <= appended'
        /\ queue' \in Seq(Record) /\ batch' \in Seq(Record) /\ sync' \in BOOLEAN
    BY <2>5, <2>6 DEF written
  <2>8. UNCHANGED <<messages, tools, events, checkpoint, flagDb, failures, repairs, appended,
                    flushed, unclean, reused, astray, unsafe>>
    BY <2>5 DEF ledger, written
  <2> QED BY <1>1, <2>1, <2>2, <2>3, <2>7, <2>8 DEF TypeOK
<1> QED BY <1>2, <1>3, <1>4, <1>5, <1>6, <1>7, <1>8, <1>9, <1>10, <1>11, <1>12, <1>13, <1>14,
           <1>15, <1>16, <1>17 DEF Next

-----------------------------------------------------------------------------
(* The journal file *)

\* Whole lines hold no fragment.
LEMMA WholeHasNoFragment ==
  ASSUME NEW j \in Seq(Piece), WholeLines(j)
  PROVE  Fragment \notin ToSet(j) /\ Tidy(j)
<1>1. \A k \in DOMAIN j : j[k].ended /\ j[k] \in Piece
  BY DEF WholeLines
<1>2. Fragment \notin ToSet(j)
  BY <1>1, PieceFields DEF ToSet
<1> QED BY <1>1, <1>2 DEF Tidy

\* Repairing the journal loses nothing a Flush made safe; as long as no record went astray
\* it loses no record at all and leaves no fragment.
LEMMA RepairFiles ==
  ASSUME TypeInv, FilesInv, ReadAndTruncate, flushed' = flushed, astray' = astray
  PROVE  /\ \A r \in flushed' \ astray' : Saved(journal', r, synced')
         /\ RecordsOf(journal') \subseteq RecordsOf(journal)
         /\ ToSet(batch') \subseteq RecordsOf(journal)
         /\ astray = {} => /\ Tidy(journal') /\ Fragment \notin ToSet(journal')
                           /\ RecordsOf(journal') = RecordsOf(journal)
                           /\ ToSet(batch') = RecordsOf(journal)
         /\ flagDb = "clean" /\ CleanInv /\ astray = {} => synced' = Len(journal')
         /\ journal = <<>> => journal' = <<>>
<1>1. /\ journal \in Seq(Piece) /\ Len(journal) \in Nat
      /\ synced \in Nat /\ synced <= Len(journal)
  BY DEF TypeInv, TypeOK
<1>2. /\ journal' \in Seq(Piece) /\ FirstBad(journal) - 1 <= Len(journal')
      /\ \A k \in 1 .. FirstBad(journal) - 1 : journal'[k] = journal[k]
      /\ RecordsOf(journal') \subseteq RecordsOf(journal)
      /\ Tidy(journal) => /\ Tidy(journal') /\ Fragment \notin ToSet(journal')
                          /\ RecordsOf(journal') = RecordsOf(journal)
                          /\ Fragment \notin ToSet(journal) => journal' = journal
  <2>1. PICK t : t = journal' /\ t \in TruncatePartialJournal(journal)
    BY DEF ReadAndTruncate
  <2> QED BY <1>1, <2>1, TruncateKeeps
<1>3. synced' = IF synced > Len(journal') THEN Len(journal') ELSE synced
  BY DEF ReadAndTruncate
<1>4. Len(journal') \in Nat /\ synced' \in Nat
  BY <1>1, <1>2, <1>3
<1>5. ASSUME NEW r \in flushed \ astray PROVE Saved(journal', r, synced')
  <2>1. Saved(journal, r, synced)
    BY DEF FilesInv
  <2>2. FirstBad(journal) \in Nat
    BY <1>1, FirstBadIs
  <2>3. ASSUME NEW k \in 1 .. synced, Ended(journal, k)
        PROVE  k <= synced' /\ \A i \in 1 .. k : journal'[i] = journal[i]
    <3>1. k \in 0 .. Len(journal) /\ k \in Nat
      BY <1>1
    <3>2. k < FirstBad(journal)
      BY <1>1, <2>3, <3>1, SavedIsRead
    <3>3. k <= Len(journal')
      BY <1>2, <1>4, <2>2, <3>1, <3>2
    <3>4. k <= synced'
      BY <1>1, <1>3, <1>4, <3>1, <3>3
    <3>5. \A i \in 1 .. k : i \in 1 .. FirstBad(journal) - 1
      BY <2>2, <3>1, <3>2
    <3> QED BY <1>2, <3>4, <3>5
  <2> QED BY <1>1, <1>4, <2>1, <2>3, SavedStays
<1>6. ToSet(batch') \subseteq RecordsOf(journal)
  BY <1>1, ReadType DEF ReadAndTruncate
<1>7. astray = {} => ToSet(batch') = RecordsOf(journal)
  BY <1>1, ReadTidy DEF ReadAndTruncate, FilesInv
<1>8. flagDb = "clean" /\ CleanInv /\ astray = {} => synced' = Len(journal')
  BY <1>1, <1>2, <1>3 DEF CleanInv, FilesInv
<1>9. astray = {} => Tidy(journal)
  BY DEF FilesInv
<1>10. journal = <<>> => journal' = <<>>
  <2>1. PICK t : t = journal' /\ t \in TruncatePartialJournal(journal)
    BY DEF ReadAndTruncate
  <2>2. t \in Seq(Piece) /\ Len(t) <= Len(journal)
    BY <1>1, <2>1, TruncateKeeps
  <2>3. Len(t) \in Nat
    BY <2>2
  <2>4. journal = <<>> => Len(t) = 0
    BY <2>2, <2>3
  <2> QED BY <2>1, <2>2, <2>4
<1> QED BY <1>2, <1>5, <1>6, <1>7, <1>8, <1>9, <1>10

\* Every step keeps the journal file in order.
LEMMA FilesStep == TypeInv /\ FilesInv /\ [Next]_vars => FilesInv'
<1> SUFFICES ASSUME TypeInv, FilesInv, [Next]_vars PROVE FilesInv'
  OBVIOUS
<1> USE DEF Serving, file, marker, written
<1>0. /\ journal \in Seq(Piece) /\ Len(journal) \in Nat /\ DOMAIN journal = 1 .. Len(journal)
      /\ synced \in Nat /\ synced <= Len(journal) /\ batch \in Seq(Record)
  BY DEF TypeInv, TypeOK
<1>e. ToSet(<<>>) = {}
  BY DEF ToSet
<1>1. CASE UNCHANGED vars
  BY <1>1 DEF FilesInv, CleanInv, vars, process
<1>2. CASE Open
  BY <1>2 DEF FilesInv, CleanInv, Open
<1>3. CASE StartClean
  BY <1>3 DEF FilesInv, CleanInv, StartClean, MarkerState
<1>4. CASE Exit
  BY <1>4 DEF FilesInv, CleanInv, Exit
<1>5. CASE StartWithoutCheckpoint \/ Checkpoint
  BY <1>5 DEF FilesInv, CleanInv, StartWithoutCheckpoint, Checkpoint, ledger
<1>6. CASE Replay \/ ReindexWrite
  BY <1>6 DEF FilesInv, CleanInv, Replay, ReindexWrite
<1>7. CASE RepairFails
  BY <1>7 DEF FilesInv, CleanInv, RepairFails
<1>8. CASE Recover
  BY <1>8, RepairFiles DEF FilesInv, CleanInv, Recover
<1>9. CASE ReindexClear
  BY <1>9, RepairFiles DEF FilesInv, CleanInv, ReindexClear
<1>10. CASE MarkDirtyFile \/ MarkCleanFile
  BY <1>10 DEF FilesInv, CleanInv, MarkDirtyFile, MarkCleanFile, WriteSentinel
<1>11. CASE MarkDirtyDb
  BY <1>11 DEF FilesInv, CleanInv, MarkDirtyDb
<1>12. CASE MarkCleanDb
  BY <1>12 DEF FilesInv, CleanInv, MarkCleanDb
<1>13. ASSUME NEW type \in Types, AppendRecord(type) PROVE FilesInv'
  BY <1>13 DEF FilesInv, CleanInv, AppendRecord
<1>14. ASSUME NEW withSync \in BOOLEAN, StartDrain(withSync) PROVE FilesInv'
  <2>1. /\ phase = "running" /\ batch' = queue /\ journal' = journal /\ synced' = synced
        /\ flushed' = flushed /\ flagDb' = flagDb /\ unclean' = unclean /\ unsafe' = unsafe
        /\ phase' \in {"fsync", "journal"}
        /\ phase' = "fsync" => queue = <<>>
        /\ phase' = "journal" => queue # <<>>
        /\ astray' = IF WholeLines(journal) THEN astray ELSE astray \cup ToSet(queue)
    BY <1>14 DEF StartDrain
  <2>2. astray \subseteq astray' /\ (WholeLines(journal) \/ ToSet(queue) \subseteq astray')
    BY <2>1
  <2>3. flushed' \ astray' \subseteq flushed \ astray /\ (astray' = {} => astray = {})
    BY <2>1, <2>2
  <2>4. \A r \in flushed' \ astray' : Saved(journal', r, synced')
    BY <2>1, <2>3 DEF FilesInv
  <2>5. flagDb = "dirty" /\ (astray = {} => Tidy(journal))
        /\ (astray = {} /\ ~unsafe => CleanInv)
    BY <2>1 DEF FilesInv
  <2>6. phase' \in {"ledger", "fsync"} =>
          \A r \in ToSet(batch') \ astray' : Saved(journal', r, Len(journal'))
    BY <1>e, <2>1
  <2>7. astray' = {} /\ ~unsafe' => CleanInv'
    BY <2>1, <2>3, <2>5 DEF CleanInv
  <2> QED BY <2>1, <2>2, <2>3, <2>4, <2>5, <2>6, <2>7 DEF FilesInv
<1>15. CASE WriteJournal
  <2>1. /\ phase = "journal" /\ phase' = "ledger" /\ journal' = AppendLines(journal, batch)
        /\ UNCHANGED <<synced, batch, flushed, flagDb, unclean, astray, unsafe>>
    BY <1>15 DEF WriteJournal
  <2>2. /\ journal' \in Seq(Piece) /\ \A k \in 1 .. Len(journal) : journal'[k] = journal[k]
        /\ WholeLines(journal) => /\ WholeLines(journal') /\ Tidy(journal')
                                  /\ \A r \in ToSet(batch) : Saved(journal', r, Len(journal'))
    BY <1>0, <2>1, AppendLinesIs
  <2>3. /\ flagDb = "dirty" /\ batch # <<>>
        /\ WholeLines(journal) \/ ToSet(batch) \subseteq astray
        /\ \A r \in flushed \ astray : Saved(journal, r, synced)
    BY <2>1 DEF FilesInv
  <2>4. \A r \in flushed \ astray : Saved(journal', r, synced)
    <3>1. \A k \in 1 .. synced : k <= synced /\ \A i \in 1 .. k : journal'[i] = journal[i]
      BY <1>0, <2>2
    <3> QED BY <1>0, <2>3, <3>1, SavedStays
  <2>5. \A r \in ToSet(batch) \ astray : Saved(journal', r, Len(journal'))
    BY <2>2, <2>3
  <2>6. astray = {} => Tidy(journal') /\ Fragment \notin ToSet(journal')
    <3>1. batch[1] \in ToSet(batch)
      BY <1>0, <2>3 DEF ToSet
    <3> QED BY <2>2, <2>3, <3>1, WholeHasNoFragment
  <2>7. astray' = {} /\ ~unsafe' => CleanInv'
    BY <2>1, <2>3, <2>6 DEF CleanInv
  <2> QED BY <2>1, <2>3, <2>4, <2>5, <2>6, <2>7 DEF FilesInv
<1>16. CASE WriteLedger
  <2>1. /\ phase = "ledger" /\ phase' \in {"fsync", "running"}
        /\ phase' = "fsync" => batch' = batch
        /\ UNCHANGED <<journal, synced, flushed, flagDb, unclean, astray, unsafe>>
    BY <1>16 DEF WriteLedger
  <2>2. phase' = "fsync" => \A r \in ToSet(batch') \ astray' : Saved(journal', r, Len(journal'))
    BY <2>1 DEF FilesInv
  <2> QED BY <2>1, <2>2 DEF FilesInv, CleanInv
<1>17. CASE LedgerFails
  BY <1>17 DEF FilesInv, CleanInv, LedgerFails
<1>18. CASE Fsync
  <2>1. /\ phase = "fsync" /\ phase' = "running" /\ batch' = <<>>
        /\ UNCHANGED <<journal, flagDb, unclean, astray, unsafe>>
        /\ \/ synced' = Len(journal) /\ flushed' = flushed \cup ToSet(batch)
           \/ synced' = synced /\ flushed' = flushed
    BY <1>18 DEF Fsync
  <2>2. \A r \in flushed' \ astray : Saved(journal, r, synced')
    <3>1. \A r \in flushed \ astray : Saved(journal, r, synced)
      BY DEF FilesInv
    <3>2. \A r \in ToSet(batch) \ astray : Saved(journal, r, Len(journal))
      BY <2>1 DEF FilesInv
    <3>3. \A r : Saved(journal, r, synced) => Saved(journal, r, Len(journal))
      BY <1>0 DEF Saved
    <3> QED BY <2>1, <3>1, <3>2, <3>3
  <2>3. flagDb = "dirty" /\ (astray = {} => Tidy(journal))
        /\ (astray = {} /\ ~unsafe => CleanInv)
    BY <2>1 DEF FilesInv
  <2>4. astray' = {} /\ ~unsafe' => CleanInv'
    BY <2>1, <2>3 DEF CleanInv
  <2> QED BY <2>1, <2>2, <2>3, <2>4 DEF FilesInv
<1>19. CASE Shutdown
  <2>1. /\ phase = "running" /\ phase' = "cleanFile"
        /\ UNCHANGED <<journal, flagDb, unclean, astray, flushed, batch>>
        /\ \/ synced' = Len(journal) /\ unsafe' = unsafe
           \/ synced' = synced /\ unsafe' = TRUE
    BY <1>19 DEF Shutdown
  <2>2. \A r \in flushed \ astray : Saved(journal, r, synced')
    <3>1. \A r \in flushed \ astray : Saved(journal, r, synced)
      BY DEF FilesInv
    <3>2. \A r : Saved(journal, r, synced) => Saved(journal, r, Len(journal))
      BY <1>0 DEF Saved
    <3> QED BY <2>1, <3>1, <3>2
  <2>3. flagDb = "dirty" /\ (astray = {} => Tidy(journal))
        /\ (astray = {} /\ ~unsafe => CleanInv)
    BY <2>1 DEF FilesInv
  <2>4. astray' = {} /\ ~unsafe' => CleanInv'
    BY <2>1, <2>3 DEF CleanInv
  <2> QED BY <2>1, <2>2, <2>3, <2>4 DEF FilesInv
<1>20. CASE Kill \/ PowerLoss
  <2>1. /\ journal' \in Seq(Piece) /\ synced' \in 0 .. Len(journal') /\ synced <= synced'
        /\ \A k \in 1 .. synced : journal'[k] = journal[k]
        /\ astray = {} => Tidy(journal')
        /\ phase # "journal" /\ synced = Len(journal) => journal' = journal /\ synced' = synced
    BY <1>20, CrashLeaves
  <2>2. /\ phase' = "down" /\ flagDb' = flagDb /\ flushed' = flushed /\ unclean' = unclean
        /\ astray' = astray /\ unsafe' = unsafe
    BY <1>20 DEF Kill, PowerLoss, Die
  <2>3. \A r \in flushed \ astray : Saved(journal', r, synced')
    <3>1. \A r \in flushed \ astray : Saved(journal, r, synced)
      BY DEF FilesInv
    <3>2. synced' \in Nat /\ synced \in Nat /\ synced <= synced'
      <4>1. PICK n \in Nat : n = Len(journal')
        BY <2>1
      <4>2. synced' \in 0 .. n /\ synced <= synced'
        BY <2>1, <4>1
      <4>3. synced \in Nat
        BY <1>0
      <4> QED BY <4>2, <4>3
    <3>3. \A k \in 1 .. synced : k <= synced'
      BY <3>2
    <3>4. \A k \in 1 .. synced : \A i \in 1 .. k : journal'[i] = journal[i]
      <4>1. \A k \in 1 .. synced : \A i \in 1 .. k : i \in 1 .. synced
        BY <1>0
      <4> QED BY <2>1, <4>1
    <3> QED BY <1>0, <3>1, <3>2, <3>3, <3>4, SavedStays
  <2>4. astray = {} /\ ~unsafe /\ flagDb = "clean" =>
          Fragment \notin ToSet(journal') /\ synced' = Len(journal')
    BY <2>1 DEF FilesInv, CleanInv
  <2>5. astray' = {} /\ ~unsafe' => CleanInv'
    BY <2>2, <2>4 DEF CleanInv
  <2>6. unclean => flagDb = "dirty"
    BY DEF FilesInv
  <2> QED BY <2>1, <2>2, <2>3, <2>5, <2>6 DEF FilesInv
<1> QED BY <1>1, <1>2, <1>3, <1>4, <1>5, <1>6, <1>7, <1>8, <1>9, <1>10, <1>11, <1>12, <1>13, <1>14,
           <1>15, <1>16, <1>17, <1>18, <1>19, <1>20 DEF Next

-----------------------------------------------------------------------------
(* Recovery *)

\* The records of the journal, and all records there are outside the ledger.
Lines   == RecordsOf(journal)
Written == Lines \cup ToSet(queue) \cup ToSet(batch)

\* In which phase there are records in memory, and which.
StagesInv ==
  /\ phase \notin Serving => queue = <<>>
  /\ phase \notin {"replay", "reindex", "journal", "ledger", "fsync"} => batch = <<>>
  /\ phase \in {"replay", "reindex"} /\ ~reused => ToSet(batch) = Lines
  /\ phase = "reindex" => checkpoint = 0

\* Before the first record there is nothing, and in the lifetime of the first records,
\* the only one to write before a number is given twice, all lines are whole.
FirstInv ==
  /\ appended = 0 => journal = <<>>
  /\ phase \in Serving /\ (queue # <<>> \/ batch # <<>>) => seq > 0
  /\ ~reused => astray = {} /\ (phase \in Serving /\ seq > 0 => WholeLines(journal))

\* While no number was given twice, a record is known by its number, and the ledger has
\* what the checkpoint covers.
NumbersInv ==
  ~reused =>
    /\ checkpoint <= appended
    /\ \A r \in Written \cup tools : r.seq = r.id /\ r.id <= appended
    /\ \A r, s \in Written \cup tools : r.id = s.id => r = s
    /\ \A r \in Written : r.seq <= checkpoint => InLedger(r)

LinesRecovered == phase = "recovered" /\ ~reused => \A r \in Lines : InLedger(r)

RecoveryInv == StagesInv /\ FirstInv /\ NumbersInv /\ LinesRecovered

\* What was written is records, fragments aside.
LEMMA WrittenType == ASSUME TypeInv PROVE Written \subseteq Record /\ Lines \subseteq Record
<1>1. ToSet(queue) \subseteq Record /\ ToSet(batch) \subseteq Record
  BY Elements DEF TypeInv, TypeOK
<1>2. \A k \in DOMAIN journal : journal[k] \in Piece
  BY DEF TypeInv, TypeOK
<1>3. Lines \subseteq Record
  BY <1>2, PieceFields DEF Lines, RecordsOf
<1> QED BY <1>1, <1>3 DEF Written

\* A transaction loses nothing the ledger has, and adds every record after the given
\* number, where a number stands for one record.
LEMMA AuditCompletes ==
  ASSUME NEW records \in Seq(Record), NEW after, WriteAudit(records, after),
         \A r, s \in ToSet(records) \cup tools : r.seq = s.seq => r = s
  PROVE  /\ \A r \in Record : InLedger(r) => InLedger(r)'
         /\ \A r \in ToSet(records) : r.seq > after => InLedger(r)'
         /\ tools' \subseteq tools \cup ToSet(records)
<1> DEFINE new  == {k \in DOMAIN records : records[k].seq > after}
           call == {k \in new : records[k].type = "tool"}
           rows == {m \in call : /\ \A t \in tools : t.seq # records[m].seq
                                 /\ \A l \in call : l < m => records[l].seq # records[m].seq}
<1>1. /\ messages' = messages \cup {records[k].id : k \in new \ call}
      /\ tools' = tools \cup {records[k] : k \in rows}
  BY DEF WriteAudit
<1>2. \A r \in Record : InLedger(r) => InLedger(r)'
  BY <1>1 DEF InLedger
<1>3. tools' \subseteq tools \cup ToSet(records)
  BY <1>1 DEF ToSet
<1>4. DOMAIN records \subseteq Nat /\ \A k \in DOMAIN records : records[k] \in Record
  OBVIOUS
<1>5. ASSUME NEW k \in new, k \notin call PROVE InLedger(records[k])'
  <2>1. records[k].id \in messages' /\ records[k].type = "message"
    BY <1>1, <1>4, <1>5 DEF Record, Types
  <2> QED BY <2>1 DEF InLedger
<1>6. ASSUME NEW k \in call PROVE InLedger(records[k])'
  <2>1. records[k] \in tools'
    <3>1. CASE \E t \in tools : t.seq = records[k].seq
      <4>1. PICK t \in tools : t.seq = records[k].seq
        BY <3>1
      <4>2. t = records[k]
        BY <4>1 DEF ToSet
      <4> QED BY <1>1, <4>2
    <3>2. CASE \A t \in tools : t.seq # records[k].seq
      <4> DEFINE K == {l \in call : records[l].seq = records[k].seq}
      <4>1. K \in SUBSET Nat /\ K # {}
        BY <1>4
      <4>2. PICK m \in K : \A l \in K : m <= l
        BY <4>1, LeastNumber
      <4>3. \A l \in call : l < m => records[l].seq # records[m].seq
        BY <1>4, <4>2
      <4>4. m \in rows
        BY <3>2, <4>2, <4>3
      <4>5. records[m] = records[k]
        BY <4>2 DEF ToSet
      <4> QED BY <1>1, <4>4, <4>5
    <3> QED BY <3>1, <3>2
  <2>2. records[k].type # "message"
    OBVIOUS
  <2> QED BY <2>1, <2>2 DEF InLedger
<1>7. ASSUME NEW r \in ToSet(records), r.seq > after PROVE InLedger(r)'
  <2>1. PICK k \in DOMAIN records : r = records[k]
    BY DEF ToSet
  <2>2. k \in new
    BY <1>7, <2>1
  <2>3. CASE k \in call
    BY <1>6, <2>1, <2>3
  <2>4. CASE k \notin call
    BY <1>5, <2>1, <2>2, <2>4
  <2> QED BY <2>3, <2>4
<1> QED BY <1>2, <1>3, <1>7

\* The numbers stay in order when records move or go and the ledger only grows.
LEMMA NumbersKept ==
  ASSUME TypeInv, NumbersInv, Written' \subseteq Written, tools' \subseteq tools \cup Written,
         checkpoint' = checkpoint, appended' = appended, reused' = reused,
         \A r \in Written : InLedger(r) => InLedger(r)'
  PROVE  NumbersInv'
<1> SUFFICES ASSUME ~reused PROVE NumbersInv'
  BY DEF NumbersInv
<1>1. Written' \cup tools' \subseteq Written \cup tools
  OBVIOUS
<1>2. /\ checkpoint <= appended
      /\ \A r \in Written \cup tools : r.seq = r.id /\ r.id <= appended
      /\ \A r, s \in Written \cup tools : r.id = s.id => r = s
      /\ \A r \in Written : r.seq <= checkpoint => InLedger(r)
  BY DEF NumbersInv
<1>3. /\ \A r \in Written' \cup tools' : r.seq = r.id /\ r.id <= appended
      /\ \A r, s \in Written' \cup tools' : r.id = s.id => r = s
  BY <1>1, <1>2
<1>4. \A r \in Written' : r.seq <= checkpoint => InLedger(r)'
  BY <1>2
<1> QED BY <1>2, <1>3, <1>4 DEF NumbersInv

\* A transaction over records that are written keeps the numbers in order.
LEMMA NumbersAudit ==
  ASSUME TypeInv, NumbersInv, NEW after, WriteAudit(batch, after), Written' \subseteq Written,
         checkpoint' = checkpoint, appended' = appended, reused' = reused
  PROVE  /\ NumbersInv'
         /\ ~reused => /\ \A r \in Record : InLedger(r) => InLedger(r)'
                       /\ \A r \in ToSet(batch) : r.seq > after => InLedger(r)'
<1>1. CASE reused
  BY <1>1 DEF NumbersInv
<1>2. CASE ~reused
  <2>1. batch \in Seq(Record) /\ ToSet(batch) \subseteq Written /\ Written \subseteq Record
    BY WrittenType DEF TypeInv, TypeOK, Written
  <2>2. \A r, s \in ToSet(batch) \cup tools : r.seq = s.seq => r = s
    BY <1>2, <2>1 DEF NumbersInv
  <2>3. /\ \A r \in Record : InLedger(r) => InLedger(r)'
        /\ \A r \in ToSet(batch) : r.seq > after => InLedger(r)'
        /\ tools' \subseteq tools \cup ToSet(batch)
    BY <2>1, <2>2, AuditCompletes
  <2>4. NumbersInv'
    BY <2>1, <2>3, NumbersKept
  <2> QED BY <2>3, <2>4
<1> QED BY <1>1, <1>2

\* Every step keeps the numbers in order.
LEMMA NumbersStep == TypeInv /\ FilesInv /\ RecoveryInv /\ [Next]_vars => NumbersInv'
<1> SUFFICES ASSUME TypeInv, FilesInv, RecoveryInv, [Next]_vars PROVE NumbersInv'
  OBVIOUS
<1> USE DEF file, ledger, marker, written, process
<1>0. NumbersInv /\ StagesInv /\ FirstInv /\ LinesRecovered /\ Written \subseteq Record
  BY WrittenType DEF RecoveryInv
<1>e. ToSet(<<>>) = {}
  BY DEF ToSet
<1>1. CASE UNCHANGED vars
  BY <1>0, <1>1, NumbersKept DEF Written, Lines, InLedger, vars
<1>2. CASE Open \/ StartClean \/ Exit \/ StartWithoutCheckpoint \/ Shutdown
  BY <1>0, <1>2, NumbersKept DEF Written, Lines, InLedger, Open, StartClean, Exit,
                                 StartWithoutCheckpoint, Shutdown
<1>3. CASE Recover
  <2>1. Lines' \subseteq Lines /\ ToSet(batch') \subseteq Lines
    BY <1>3, RepairFiles DEF Recover, Lines
  <2>2. Written' \subseteq Written
    BY <1>3, <2>1 DEF Recover, Written
  <2> QED BY <1>0, <1>3, <2>2, NumbersKept DEF Recover, InLedger
<1>4. CASE Replay
  <2>1. Written' \subseteq Written
    BY <1>4, <1>e DEF Replay, Written, Lines
  <2> QED BY <1>0, <1>4, <2>1, NumbersAudit DEF Replay
<1>5. CASE Checkpoint
  <2>1. checkpoint' \in {r.seq : r \in Lines} \cup {0}
    BY <1>5, CheckpointType, ReadType DEF TypeInv, TypeOK, Lines
  <2>2. Written = Lines
    BY <1>0, <1>5, <1>e DEF StagesInv, Checkpoint, Serving, Written
  <2>3. Written' = Written /\ tools' = tools /\ messages' = messages
    BY <1>5 DEF Checkpoint, Written, Lines
  <2>4. ASSUME ~reused PROVE checkpoint' <= appended /\ \A r \in Written : InLedger(r)
    <3>1. 0 <= appended
      BY DEF TypeInv, TypeOK
    <3>2. \A r \in Lines : r.seq <= appended
      BY <1>0, <2>2, <2>4 DEF NumbersInv
    <3>3. checkpoint' <= appended
      BY <2>1, <3>1, <3>2
    <3>4. \A r \in Written : InLedger(r)
      BY <1>0, <1>5, <2>2, <2>4 DEF LinesRecovered, Checkpoint
    <3> QED BY <3>3, <3>4
  <2> QED BY <1>0, <1>5, <2>3, <2>4 DEF NumbersInv, Checkpoint, InLedger
<1>6. CASE ReindexClear
  <2>1. Lines' \subseteq Lines /\ ToSet(batch') \subseteq Lines
    BY <1>6, RepairFiles DEF ReindexClear, Lines
  <2>2. Written' \subseteq Written /\ tools' = {} /\ checkpoint' = 0
    BY <1>6, <2>1 DEF ReindexClear, Written
  <2>3. \A r \in Written' : ~(r.seq <= 0)
    BY <1>0, <2>2, RecordFields
  <2>4. 0 <= appended
    BY DEF TypeInv, TypeOK
  <2> QED BY <1>0, <1>6, <2>2, <2>3, <2>4 DEF ReindexClear, NumbersInv
<1>7. CASE ReindexWrite
  <2>1. Written' \subseteq Written
    BY <1>7, <1>e DEF ReindexWrite, Written, Lines
  <2> QED BY <1>0, <1>7, <2>1, NumbersAudit DEF ReindexWrite
<1>8. CASE RepairFails \/ LedgerFails
  <2>1. Written' \subseteq Written
    BY <1>8, <1>e DEF RepairFails, LedgerFails, Written, Lines
  <2> QED BY <1>0, <1>8, <2>1, NumbersKept DEF RepairFails, LedgerFails, InLedger
<1>9. CASE MarkDirtyFile \/ MarkDirtyDb \/ MarkCleanFile \/ MarkCleanDb
  BY <1>0, <1>9, NumbersKept DEF Written, Lines, InLedger, MarkDirtyFile, MarkDirtyDb,
                                 MarkCleanFile, MarkCleanDb, WriteSentinel
<1>10. ASSUME NEW type \in Types, AppendRecord(type) PROVE NumbersInv'
  <2> SUFFICES ASSUME ~reused' PROVE NumbersInv'
    BY DEF NumbersInv
  <2> DEFINE r == [id |-> appended + 1, seq |-> seq + 1, type |-> type]
  <2>1. /\ ~reused /\ seq = appended /\ queue' = Append(queue, r) /\ appended' = appended + 1
        /\ checkpoint' = checkpoint /\ messages' = messages /\ tools' = tools
        /\ journal' = journal /\ batch' = batch
    BY <1>10 DEF AppendRecord
  <2>2. appended \in Nat /\ checkpoint \in Nat /\ queue \in Seq(Record) /\ tools \subseteq Record
    BY Bounds DEF Bounds, TypeInv, TypeOK
  <2>3. ToSet(Append(queue, r)) = ToSet(queue) \cup {r}
    <3> HIDE DEF r
    <3> QED BY <2>2, AppendElements
  <2>4. Written' = Written \cup {r}
    BY <2>1, <2>3 DEF Written, Lines
  <2>5. /\ checkpoint <= appended
        /\ \A s \in Written \cup tools : s.seq = s.id /\ s.id <= appended /\ s.id \in Nat
        /\ \A s, t \in Written \cup tools : s.id = t.id => s = t
        /\ \A s \in Written : s.seq <= checkpoint => InLedger(s)
    BY <1>0, <2>1, <2>2, RecordFields DEF NumbersInv
  <2>6. r.id = appended + 1 /\ r.seq = appended + 1
    BY <2>1
  <2> HIDE DEF r
  <2>7. \A s \in Written \cup tools : s.id # r.id /\ s.id <= appended + 1
    BY <2>2, <2>5, <2>6
  <2>8. ~(r.seq <= checkpoint) /\ checkpoint <= appended + 1
    BY <2>2, <2>5, <2>6
  <2>9. \A s \in Written' \cup tools' : s.seq = s.id /\ s.id <= appended'
    BY <2>1, <2>2, <2>4, <2>5, <2>6, <2>7
  <2>10. \A s, t \in Written' \cup tools' : s.id = t.id => s = t
    BY <2>1, <2>4, <2>5, <2>7
  <2>11. \A s \in Written' : s.seq <= checkpoint' => InLedger(s)'
    BY <2>1, <2>4, <2>5, <2>8 DEF InLedger
  <2> QED BY <2>1, <2>8, <2>9, <2>10, <2>11 DEF NumbersInv
<1>11. ASSUME NEW withSync \in BOOLEAN, StartDrain(withSync) PROVE NumbersInv'
  <2>1. batch' = queue /\ queue' = <<>>
    BY <1>11 DEF StartDrain
  <2>2. Written' \subseteq Written
    BY <1>11, <1>e, <2>1 DEF StartDrain, Written, Lines
  <2> QED BY <1>0, <1>11, <2>2, NumbersKept DEF StartDrain, InLedger
<1>12. CASE WriteJournal
  <2>1. journal \in Seq(Piece) /\ batch \in Seq(Record)
    BY DEF TypeInv, TypeOK
  <2>2. Lines' = Lines \cup ToSet(batch)
    BY <1>12, <2>1, AppendLinesIs DEF WriteJournal, Lines
  <2>3. Written' \subseteq Written
    BY <1>12, <2>2 DEF WriteJournal, Written
  <2> QED BY <1>0, <1>12, <2>3, NumbersKept DEF WriteJournal, InLedger
<1>13. CASE WriteLedger
  <2>1. Written' \subseteq Written
    BY <1>13, <1>e DEF WriteLedger, Written, Lines
  <2> QED BY <1>0, <1>13, <2>1, NumbersAudit DEF WriteLedger
<1>14. CASE Fsync
  <2>1. Written' \subseteq Written
    BY <1>14, <1>e DEF Fsync, Written, Lines
  <2> QED BY <1>0, <1>14, <2>1, NumbersKept DEF Fsync, InLedger
<1>15. CASE Kill \/ PowerLoss
  <2>1. Lines' \subseteq Lines \cup ToSet(batch)
    BY <1>15, CrashLeaves DEF Lines
  <2>2. Die
    BY <1>15 DEF Kill, PowerLoss
  <2>3. Written' \subseteq Written
    BY <1>e, <2>1, <2>2 DEF Die, Written
  <2> QED BY <1>0, <2>2, <2>3, NumbersKept DEF Die, InLedger
<1> QED BY <1>1, <1>2, <1>3, <1>4, <1>5, <1>6, <1>7, <1>8, <1>9, <1>10, <1>11, <1>12, <1>13, <1>14,
           <1>15 DEF Next

\* Every step keeps the records in memory to their phases.
LEMMA StagesStep == TypeInv /\ FilesInv /\ StagesInv /\ FirstInv /\ [Next]_vars => StagesInv'
<1> SUFFICES ASSUME TypeInv, FilesInv, StagesInv, FirstInv, [Next]_vars PROVE StagesInv'
  OBVIOUS
<1> USE DEF file, ledger, marker, written, process, Serving, StagesInv
<1>1. CASE UNCHANGED vars
  BY <1>1 DEF vars, Lines
<1>2. CASE Open \/ StartClean \/ Exit \/ StartWithoutCheckpoint \/ Shutdown
  BY <1>2 DEF Open, StartClean, Exit, StartWithoutCheckpoint, Shutdown
<1>3. CASE Recover
  BY <1>3, RepairFiles DEF Recover, Lines, FirstInv
<1>4. CASE ReindexClear
  BY <1>4, RepairFiles DEF ReindexClear, Lines, FirstInv
<1>5. CASE Replay \/ ReindexWrite \/ Checkpoint
  BY <1>5 DEF Replay, ReindexWrite, Checkpoint
<1>6. CASE RepairFails \/ LedgerFails
  BY <1>6 DEF RepairFails, LedgerFails
<1>7. CASE MarkDirtyFile \/ MarkDirtyDb \/ MarkCleanFile \/ MarkCleanDb
  BY <1>7 DEF MarkDirtyFile, MarkDirtyDb, MarkCleanFile, MarkCleanDb, WriteSentinel
<1>8. ASSUME NEW type \in Types, AppendRecord(type) PROVE StagesInv'
  BY <1>8 DEF AppendRecord
<1>9. ASSUME NEW withSync \in BOOLEAN, StartDrain(withSync) PROVE StagesInv'
  BY <1>9 DEF StartDrain
<1>10. CASE WriteJournal \/ WriteLedger \/ Fsync
  BY <1>10 DEF WriteJournal, WriteLedger, Fsync
<1>11. CASE Kill \/ PowerLoss
  BY <1>11 DEF Kill, PowerLoss, Die
<1> QED BY <1>1, <1>2, <1>3, <1>4, <1>5, <1>6, <1>7, <1>8, <1>9, <1>10, <1>11 DEF Next

\* Every step keeps what holds before the first record and in its lifetime.
LEMMA FirstStep == TypeInv /\ FilesInv /\ StagesInv /\ FirstInv /\ [Next]_vars => FirstInv'
<1> SUFFICES ASSUME TypeInv, FilesInv, StagesInv, FirstInv, [Next]_vars PROVE FirstInv'
  OBVIOUS
<1> USE DEF file, ledger, marker, written, process, Serving, FirstInv
<1>0. /\ journal \in Seq(Piece) /\ batch \in Seq(Record) /\ queue \in Seq(Record)
      /\ seq \in Nat /\ appended \in Nat /\ seq <= appended /\ reused \in BOOLEAN
  BY Bounds DEF TypeInv, TypeOK, Bounds
<1>e. WholeLines(<<>>)
  BY DEF WholeLines
<1>1. CASE UNCHANGED vars
  BY <1>1 DEF vars
<1>2. CASE Open \/ StartClean \/ Exit \/ StartWithoutCheckpoint \/ Shutdown
  BY <1>2 DEF Open, StartClean, Exit, StartWithoutCheckpoint, Shutdown
<1>3. CASE Recover
  BY <1>3, RepairFiles DEF Recover
<1>4. CASE ReindexClear
  BY <1>4, RepairFiles DEF ReindexClear
<1>5. CASE Replay \/ ReindexWrite \/ Checkpoint
  BY <1>5 DEF Replay, ReindexWrite, Checkpoint
<1>6. CASE RepairFails \/ LedgerFails
  BY <1>6 DEF RepairFails, LedgerFails
<1>7. CASE MarkDirtyFile \/ MarkCleanFile \/ MarkCleanDb
  BY <1>7 DEF MarkDirtyFile, MarkCleanFile, MarkCleanDb, WriteSentinel
<1>8. CASE MarkDirtyDb
  BY <1>8 DEF MarkDirtyDb, StagesInv
<1>9. ASSUME NEW type \in Types, AppendRecord(type) PROVE FirstInv'
  <2>1. /\ phase \in Serving /\ appended' = appended + 1 /\ seq' = seq + 1 /\ phase' = phase
        /\ reused' = (reused \/ seq # appended) /\ astray' = astray /\ journal' = journal
    BY <1>9 DEF AppendRecord
  <2>2. appended' # 0 /\ seq' > 0
    BY <1>0, <2>1
  <2>3. ~reused' => astray = {} /\ WholeLines(journal)
    <3>1. ~reused' => ~reused /\ seq = appended
      BY <2>1
    <3>2. seq = appended => seq > 0 \/ journal = <<>>
      BY <1>0
    <3> QED BY <1>e, <2>1, <3>1, <3>2
  <2> QED BY <2>1, <2>2, <2>3
<1>10. ASSUME NEW withSync \in BOOLEAN, StartDrain(withSync) PROVE FirstInv'
  <2>1. /\ phase = "running" /\ batch' = queue /\ queue' = <<>>
        /\ astray' = IF WholeLines(journal) THEN astray ELSE astray \cup ToSet(queue)
        /\ UNCHANGED <<journal, appended, reused, seq>>
    BY <1>10 DEF StartDrain
  <2>2. ~reused => astray' = {}
    <3>1. queue = <<>> => ToSet(queue) = {}
      BY DEF ToSet
    <3> QED BY <2>1, <3>1
  <2> QED BY <2>1, <2>2
<1>11. CASE WriteJournal
  <2>1. /\ phase = "journal" /\ journal' = AppendLines(journal, batch)
        /\ UNCHANGED <<queue, batch, seq, appended, reused, astray>>
    BY <1>11 DEF WriteJournal
  <2>2. batch # <<>>
    BY <2>1 DEF FilesInv
  <2>3. seq > 0 /\ appended # 0
    <3>1. seq > 0
      BY <2>1, <2>2
    <3> QED BY <1>0, <3>1
  <2>4. WholeLines(journal) => WholeLines(journal')
    BY <1>0, <2>1, AppendLinesIs
  <2> QED BY <2>1, <2>3, <2>4
<1>12. CASE WriteLedger \/ Fsync
  BY <1>12 DEF WriteLedger, Fsync
<1>13. CASE Kill \/ PowerLoss
  <2>1. phase' = "down" /\ UNCHANGED <<appended, reused, astray>>
    BY <1>13 DEF Kill, PowerLoss, Die
  <2>2. ASSUME appended = 0 PROVE journal' = <<>>
    <3>1. journal = <<>> /\ ~(seq > 0)
      BY <1>0, <2>2
    <3>2. phase # "journal"
      BY <3>1 DEF FilesInv
    <3>3. synced = Len(journal)
      BY <3>1 DEF TypeInv, TypeOK
    <3> QED BY <1>13, <3>1, <3>2, <3>3, CrashLeaves
  <2> QED BY <2>1, <2>2
<1> QED BY <1>1, <1>2, <1>3, <1>4, <1>5, <1>6, <1>7, <1>8, <1>9, <1>10, <1>11, <1>12, <1>13 DEF Next

\* Recovery and reindex end with the journal in the ledger, and nothing else enters
\* the phase they end in.
LEMMA RecoveredStep ==
  TypeInv /\ FilesInv /\ RecoveryInv /\ [Next]_vars => LinesRecovered'
<1> SUFFICES ASSUME TypeInv, FilesInv, RecoveryInv, [Next]_vars, phase' = "recovered", ~reused'
             PROVE  \A r \in Lines' : InLedger(r)'
  BY DEF LinesRecovered
<1> USE DEF file, ledger, marker, written, process
<1>0. NumbersInv /\ StagesInv /\ FirstInv /\ LinesRecovered /\ Written \subseteq Record
  BY WrittenType DEF RecoveryInv
<1>1. CASE UNCHANGED vars
  BY <1>0, <1>1 DEF vars, LinesRecovered, Lines, InLedger
<1>2. CASE Replay
  <2>1. Written' \subseteq Written /\ Lines' = Lines /\ ~reused
    BY <1>2 DEF Replay, Written, Lines, ToSet
  <2>2. /\ \A r \in Record : InLedger(r) => InLedger(r)'
        /\ \A r \in ToSet(batch) : r.seq > checkpoint => InLedger(r)'
    BY <1>0, <1>2, <2>1, NumbersAudit DEF Replay
  <2>3. \A r \in Lines : r.seq <= checkpoint => InLedger(r)
    BY <1>0, <2>1 DEF NumbersInv, Written
  <2>4. ToSet(batch) = Lines /\ Lines \subseteq Record
    BY <1>0, <1>2 DEF StagesInv, Replay, Written
  <2>5. \A r \in Lines : r.seq <= checkpoint \/ r.seq > checkpoint
    BY <2>4, RecordFields DEF TypeInv, TypeOK
  <2> QED BY <2>1, <2>2, <2>3, <2>4, <2>5
<1>3. CASE ReindexWrite
  <2>1. Written' \subseteq Written /\ Lines' = Lines /\ ~reused
    BY <1>3 DEF ReindexWrite, Written, Lines, ToSet
  <2>2. \A r \in ToSet(batch) : r.seq > 0 => InLedger(r)'
    BY <1>0, <1>3, <2>1, NumbersAudit DEF ReindexWrite
  <2>3. ToSet(batch) = Lines /\ Lines \subseteq Record
    BY <1>0, <1>3 DEF StagesInv, ReindexWrite, Written
  <2>4. \A r \in Lines : r.seq > 0
    BY <2>3, RecordFields
  <2> QED BY <2>1, <2>2, <2>3, <2>4
<1>4. ASSUME ~(UNCHANGED vars), ~Replay, ~ReindexWrite PROVE FALSE
  <2>1. CASE Open \/ StartClean \/ Exit \/ StartWithoutCheckpoint \/ Shutdown
    BY <2>1 DEF Open, StartClean, Exit, StartWithoutCheckpoint, Shutdown
  <2>2. CASE Recover \/ ReindexClear \/ Checkpoint
    BY <2>2 DEF Recover, ReindexClear, Checkpoint
  <2>3. CASE RepairFails \/ LedgerFails
    BY <2>3 DEF RepairFails, LedgerFails
  <2>4. CASE MarkDirtyFile \/ MarkDirtyDb \/ MarkCleanFile \/ MarkCleanDb
    BY <2>4 DEF MarkDirtyFile, MarkDirtyDb, MarkCleanFile, MarkCleanDb
  <2>5. ASSUME NEW type \in Types, AppendRecord(type) PROVE FALSE
    BY <2>5 DEF AppendRecord, Serving
  <2>6. ASSUME NEW withSync \in BOOLEAN, StartDrain(withSync) PROVE FALSE
    BY <2>6 DEF StartDrain
  <2>7. CASE WriteJournal \/ WriteLedger \/ Fsync
    BY <2>7 DEF WriteJournal, WriteLedger, Fsync
  <2>8. CASE Kill \/ PowerLoss
    BY <2>8 DEF Kill, PowerLoss, Die
  <2> QED BY <1>4, <2>1, <2>2, <2>3, <2>4, <2>5, <2>6, <2>7, <2>8 DEF Next
<1> QED BY <1>1, <1>2, <1>3, <1>4

-----------------------------------------------------------------------------
(* Theorems *)

DurabilityInv == TypeInv /\ FilesInv /\ RecoveryInv

\* A new scope.
LEMMA InitDurabilityInv == Init => DurabilityInv
<1> SUFFICES ASSUME Init PROVE DurabilityInv
  OBVIOUS
<1>1. TypeInv
  <2>1. <<>> \in Seq(Piece) /\ <<>> \in Seq(Record) /\ Len(<<>>) = 0
    OBVIOUS
  <2>2. 0 \in 0 .. MaxRecords /\ 0 \in 0 .. MaxCrashes /\ 0 \in 0 .. MaxFailures
        /\ 0 \in 0 .. MaxRepairs
    BY Bounds DEF Bounds
  <2>3. [i \in 1 .. MaxRecords |-> 0] \in [1 .. MaxRecords -> Nat]
    OBVIOUS
  <2>4. /\ journal \in Seq(Piece) /\ synced \in 0 .. Len(journal)
        /\ queue \in Seq(Record) /\ batch \in Seq(Record)
    BY <2>1 DEF Init
  <2>5. seq <= appended
    BY DEF Init
  <2>6. events \in [1 .. MaxRecords -> Nat]
    BY <2>3 DEF Init
  <2>7. /\ checkpoint \in 0 .. MaxRecords /\ seq \in 0 .. MaxRecords /\ appended \in 0 .. MaxRecords
        /\ crashes \in 0 .. MaxCrashes /\ failures \in 0 .. MaxFailures /\ repairs \in 0 .. MaxRepairs
    BY <2>2 DEF Init
  <2>8. /\ flagFile \in {"clean", "dirty"} /\ flagDb \in {"clean", "dirty"}
        /\ flagFile \in onDisk /\ onDisk \subseteq {"clean", "dirty"}
        /\ phase \in Phases /\ sync \in BOOLEAN /\ unclean \in BOOLEAN /\ reused \in BOOLEAN
        /\ messages = {} /\ tools = {} /\ flushed = {} /\ astray = {} /\ unsafe \in BOOLEAN
    BY DEF Init, Phases
  <2> QED BY <2>4, <2>5, <2>6, <2>7, <2>8 DEF TypeInv, TypeOK
<1>2. ToSet(<<>>) = {} /\ Tidy(<<>>) /\ RecordsOf(<<>>) = {}
  BY DEF ToSet, Tidy, RecordsOf
<1>3. FilesInv
  BY <1>2 DEF Init, FilesInv, CleanInv, Serving
<1>4. RecoveryInv
  BY <1>2 DEF Init, RecoveryInv, StagesInv, FirstInv, NumbersInv, LinesRecovered, Lines, Written,
              Serving
<1> QED BY <1>1, <1>3, <1>4 DEF DurabilityInv

\* Every step keeps the whole invariant.
LEMMA DurabilityInvStep == DurabilityInv /\ [Next]_vars => DurabilityInv'
  BY TypeStep, FilesStep, NumbersStep, StagesStep, FirstStep, RecoveredStep
     DEF DurabilityInv, RecoveryInv

\* The invariant holds throughout.
LEMMA DurabilityInvAlways == Spec => []DurabilityInv
  BY InitDurabilityInv, DurabilityInvStep, PTL DEF Spec

\* The variables of a storage scope keep their types through every crash and restart.
THEOREM TypeCorrect == Spec => []TypeOK
<1>1. DurabilityInv => TypeOK
  BY DEF DurabilityInv, TypeInv
<1> QED BY <1>1, DurabilityInvAlways, PTL

\* A record whose Flush returned nil can be read from the journal from then on, through
\* any number of kills, power losses, cuts at any place of a line, failed transactions and
\* syncs, and repairs, unless its drain found the journal with a line that was not whole.
THEOREM FlushedSurvivesAlways == Spec => []FlushedSurvives
<1>1. DurabilityInv => FlushedSurvives
  <2> SUFFICES ASSUME DurabilityInv, NEW r \in flushed \ astray
               PROVE  r \in ToSet(ReadJournal(journal))
    BY DEF FlushedSurvives
  <2>1. journal \in Seq(Piece) /\ Len(journal) \in Nat /\ synced \in 0 .. Len(journal)
    BY DEF DurabilityInv, TypeInv, TypeOK
  <2>2. PICK k \in 1 .. synced : Ended(journal, k) /\ journal[k].of = r
    BY DEF DurabilityInv, FilesInv, Saved
  <2>3. k \in 0 .. Len(journal) /\ k \in Nat /\ k >= 1
    BY <2>1
  <2>4. k < FirstBad(journal) /\ FirstBad(journal) \in Nat
    BY <2>1, <2>2, <2>3, SavedIsRead, FirstBadIs
  <2>5. k \in 1 .. FirstBad(journal) - 1
    BY <2>3, <2>4
  <2> QED BY <2>1, <2>2, <2>5, ReadType DEF ToSet
<1> QED BY <1>1, DurabilityInvAlways, PTL

\* A lifetime that wrote and did not finish its shutdown is never taken for a clean one:
\* the ledger's half of the marker stays dirty from the first write to the end of MarkClean.
THEOREM CrashIsSeenAlways == Spec => []CrashIsSeen
<1>1. DurabilityInv => CrashIsSeen
  BY DEF DurabilityInv, FilesInv, CrashIsSeen, MarkerState
<1> QED BY <1>1, DurabilityInvAlways, PTL

\* A writer never appends behind a fragment, whatever the marker said at the start: a
\* start that skipped the repair is one after a shutdown that synced everything, as long as
\* no Close took a failed sync for a good one and no record went astray.
THEOREM FragmentsAreCutAlways == Spec => []FragmentsAreCut
<1>1. DurabilityInv => FragmentsAreCut
  BY DEF DurabilityInv, FilesInv, CleanInv, FragmentsAreCut, Serving
<1> QED BY <1>1, DurabilityInvAlways, PTL

\* Recovery and reindex leave every record of the journal in the ledger, as long as no
\* sequence number was given to two records.
THEOREM RecoveryCompletesAlways == Spec => []RecoveryCompletes
<1>1. DurabilityInv => RecoveryCompletes
  <2> SUFFICES ASSUME DurabilityInv, phase = "recovered", ~reused PROVE Holds(journal)
    BY DEF RecoveryCompletes
  <2>1. ToSet(ReadJournal(journal)) \subseteq Lines
    BY ReadType DEF DurabilityInv, TypeInv, TypeOK, Lines
  <2> QED BY <2>1 DEF DurabilityInv, RecoveryInv, LinesRecovered, Holds
<1> QED BY <1>1, DurabilityInvAlways, PTL
=============================================================================
