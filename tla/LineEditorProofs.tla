------------------------- MODULE LineEditorProofs -------------------------
(***************************************************************************)
(* Proofs about the line editor of module LineEditor, for every alphabet, *)
(* line bound and history capacity.                                        *)
(***************************************************************************)
EXTENDS LineEditor, SequenceTheorems, FiniteSetTheorems, TLAPS

\* A substring whose ends lie within the line is a line.
LEMMA SubSeqIn ==
    ASSUME NEW S, NEW s \in Seq(S), NEW m \in Int, NEW n \in Int,
           1 <= m, n <= Len(s)
    PROVE  /\ SubSeq(s, m, n) \in Seq(S)
           /\ Len(SubSeq(s, m, n)) = IF m <= n THEN n - m + 1 ELSE 0
<1>1. \A i \in m..n : s[i] \in S
  BY ElementOfSeq
<1>2. QED
  BY <1>1, SubSeqProperties

\* substring clamps its index into the line.
LEMMA IdxRange ==
    ASSUME NEW l, Len(l) \in Nat, NEW k
    PROVE  Idx(k, l) \in 0..Len(l)
BY DEF Idx

\* s.substring(0, k) and s.substring(k) are lines whose lengths add up to
\* the length of s.
LEMMA BeforeAfter ==
    ASSUME NEW S, NEW l \in Seq(S), NEW k
    PROVE  /\ Before(l, k) \in Seq(S)
           /\ After(l, k) \in Seq(S)
           /\ Len(Before(l, k)) = Idx(k, l)
           /\ Len(After(l, k)) = Len(l) - Idx(k, l)
<1>1. Idx(k, l) \in 0..Len(l)
  BY IdxRange, LenProperties
<1>2. Before(l, k) \in Seq(S) /\ Len(Before(l, k)) = Idx(k, l)
  <2>1. CASE Idx(k, l) = 0
    BY <2>1, SubSeqEmpty, EmptySeq DEF Before
  <2>2. CASE Idx(k, l) # 0
    BY <1>1, <2>2, SubSeqIn, LenProperties DEF Before
  <2>3. QED
    BY <2>1, <2>2
<1>3. After(l, k) \in Seq(S) /\ Len(After(l, k)) = Len(l) - Idx(k, l)
  <2>1. CASE Idx(k, l) = Len(l)
    BY <1>1, <2>1, SubSeqEmpty, EmptySeq, LenProperties DEF After
  <2>2. CASE Idx(k, l) # Len(l)
    BY <1>1, <2>2, SubSeqIn, LenProperties DEF After
  <2>3. QED
    BY <2>1, <2>2
<1>4. QED
  BY <1>2, <1>3

\* Concatenating two lines gives a line as long as both together.
LEMMA ConcatIn ==
    ASSUME NEW S, NEW s \in Seq(S), NEW t \in Seq(S)
    PROVE  /\ s \o t \in Seq(S)
           /\ Len(s \o t) = Len(s) + Len(t)
BY ConcatProperties

\* Inserting a line at an offset of a line gives a line, and the cursor
\* _handleCursorInsert leaves lies within it.
LEMMA InsertIn ==
    ASSUME NEW S, NEW l \in Seq(S), NEW c \in 0..Len(l), NEW d \in Seq(S)
    PROVE  LET new == Before(l, c) \o d \o After(l, c)
           IN  /\ new \in Seq(S)
               /\ Len(new) = Len(l) + Len(d)
               /\ Clip(c + Len(d), new) \in 0..Len(new)
<1> DEFINE new == Before(l, c) \o d \o After(l, c)
<1>1. Idx(c, l) = c
  BY LenProperties DEF Idx
<1>2. Before(l, c) \in Seq(S) /\ After(l, c) \in Seq(S)
      /\ Len(Before(l, c)) = c /\ Len(After(l, c)) = Len(l) - c
  BY <1>1, BeforeAfter
<1>3. new \in Seq(S) /\ Len(new) = Len(l) + Len(d)
  <2> DEFINE B == Before(l, c)
             A == After(l, c)
  <2>1. B \o d \in Seq(S) /\ Len(B \o d) = c + Len(d)
    BY <1>2, ConcatIn
  <2>2. (B \o d) \o A \in Seq(S)
        /\ Len((B \o d) \o A) = c + Len(d) + (Len(l) - c)
    BY <1>2, <2>1, ConcatIn
  <2>3. Len(d) \in Nat /\ Len(l) \in Nat
    BY LenProperties
  <2>4. QED
    BY <2>2, <2>3
<1>4. Clip(c + Len(d), new) \in 0..Len(new)
  BY <1>3, LenProperties DEF Clip
<1>5. QED
  BY <1>3, <1>4

\* setInput leaves a cursor at or after the start within the new line.
LEMMA ClipRange ==
    ASSUME NEW l, Len(l) \in Nat, NEW c \in Nat
    PROVE  Clip(c, l) \in 0..Len(l)
BY DEF Clip

\* String.prototype.trim of a line is a line.
LEMMA TrimIn ==
    ASSUME NEW S, NEW l \in Seq(S)
    PROVE  Trim(l) \in Seq(S)
<1> DEFINE lead == Cardinality({i \in 1..Len(l) : \A j \in 1..i : l[j] \in Blank})
           trail == Cardinality({i \in 1..Len(l) :
                                   \A j \in i..Len(l) : l[j] \in Blank})
<1>1. Len(l) \in Nat
  BY LenProperties
<1>2. IsFiniteSet(1..Len(l)) /\ Cardinality(1..Len(l)) = Len(l)
  BY <1>1, FS_Interval
<1>3. lead \in 0..Len(l) /\ trail \in 0..Len(l)
  BY <1>1, <1>2, FS_Subset, FS_CardinalityType
<1>4. CASE lead = Len(l)
  BY <1>4, EmptySeq DEF Trim
<1>5. CASE lead # Len(l)
  <2>1. lead + 1 \in Int /\ Len(l) - trail \in Int
        /\ 1 <= lead + 1 /\ Len(l) - trail <= Len(l)
    BY <1>1, <1>3
  <2>2. SubSeq(l, lead + 1, Len(l) - trail) \in Seq(S)
    BY <2>1, SubSeqIn
  <2>3. QED
    BY <1>5, <2>2 DEF Trim
<1>6. QED
  BY <1>4, <1>5

\* A set of positions within 1..n is finite, and no larger than n.
LEMMA PositionsFinite ==
    ASSUME NEW n \in Nat, NEW D \in SUBSET (1..n)
    PROVE  /\ IsFiniteSet(D)
           /\ Cardinality(D) \in 0..n
<1>1. IsFiniteSet(1..n) /\ Cardinality(1..n) = n
  BY FS_Interval
<1>2. IsFiniteSet(D) /\ Cardinality(D) <= n
  BY <1>1, FS_Subset
<1>3. Cardinality(D) \in Nat
  BY <1>2, FS_CardinalityType
<1>4. QED
  BY <1>2, <1>3

\* An interval a..b inside a finite set is no larger than the set.
LEMMA IntervalBelow ==
    ASSUME NEW D, IsFiniteSet(D), NEW a \in Int, NEW b \in Int, a <= b + 1,
           (a..b) \subseteq D
    PROVE  b - a + 1 <= Cardinality(D)
<1>1. Cardinality(a..b) = b - a + 1
  BY FS_Interval
<1>2. Cardinality(a..b) <= Cardinality(D)
  BY FS_Subset
<1>3. QED
  BY <1>1, <1>2

\* A set of positions that holds every position before one of its own is
\* an initial interval: the positions 1 to its size.
LEMMA DownClosed ==
    ASSUME NEW n \in Nat, NEW D \in SUBSET (1..n),
           \A i \in D : \A j \in 1..i : j \in D
    PROVE  D = 1..Cardinality(D)
<1>1. IsFiniteSet(D) /\ Cardinality(D) \in 0..n
  BY PositionsFinite
<1>2. D \subseteq 1..Cardinality(D)
  <2> SUFFICES ASSUME NEW m \in D PROVE m <= Cardinality(D)
    BY <1>1
  <2>1. (1..m) \subseteq D /\ m \in Nat
    OBVIOUS
  <2>2. QED
    BY <1>1, <2>1, IntervalBelow
<1>3. 1..Cardinality(D) \subseteq D
  <2> SUFFICES ASSUME NEW i \in 1..Cardinality(D), i \notin D PROVE FALSE
    OBVIOUS
  <2>1. D \subseteq 1..(i - 1)
    OBVIOUS
  <2>2. Cardinality(D) <= i - 1
    BY <2>1, PositionsFinite
  <2>3. QED
    BY <1>1, <2>2
<1>4. QED
  BY <1>2, <1>3

\* Likewise a set that holds every position after one of its own, up to n,
\* is a final interval.
LEMMA UpClosed ==
    ASSUME NEW n \in Nat, NEW U \in SUBSET (1..n),
           \A i \in U : \A j \in i..n : j \in U
    PROVE  U = (n - Cardinality(U) + 1)..n
<1>1. IsFiniteSet(U) /\ Cardinality(U) \in 0..n
  BY PositionsFinite
<1>2. U \subseteq (n - Cardinality(U) + 1)..n
  <2> SUFFICES ASSUME NEW m \in U PROVE m >= n - Cardinality(U) + 1
    BY <1>1
  <2>1. (m..n) \subseteq U /\ m \in Int /\ m <= n + 1
    OBVIOUS
  <2>2. n - m + 1 <= Cardinality(U)
    BY <1>1, <2>1, IntervalBelow
  <2>3. QED
    BY <1>1, <2>2
<1>3. (n - Cardinality(U) + 1)..n \subseteq U
  <2> SUFFICES ASSUME NEW i \in (n - Cardinality(U) + 1)..n, i \notin U
               PROVE  FALSE
    OBVIOUS
  <2>1. U \subseteq (i + 1)..n
    OBVIOUS
  <2>2. Cardinality(U) <= n - i
    <3>1. i \in Nat /\ i <= n
      BY <1>1
    <3>2. i + 1 \in Int /\ n \in Int
      BY <3>1
    <3>3. IsFiniteSet((i + 1)..n)
          /\ Cardinality((i + 1)..n) = IF i + 1 > n THEN 0 ELSE n - (i + 1) + 1
      BY <3>2, FS_Interval
    <3>4. Cardinality(U) <= Cardinality((i + 1)..n)
      BY <2>1, <3>3, FS_Subset
    <3>5. QED
      BY <3>1, <3>3, <3>4
  <2>3. QED
    BY <1>1, <2>2
<1>4. QED
  BY <1>2, <1>3

\* The length and the two end characters of a non-empty substring.
LEMMA SubSeqEnds ==
    ASSUME NEW S, NEW s \in Seq(S), NEW m \in Int, NEW n \in Int,
           1 <= m, m <= n, n <= Len(s)
    PROVE  /\ Len(SubSeq(s, m, n)) = n - m + 1
           /\ SubSeq(s, m, n)[1] = s[m]
           /\ SubSeq(s, m, n)[n - m + 1] = s[n]
<1>1. \A i \in m..n : s[i] \in S
  BY ElementOfSeq
<1>2. /\ Len(SubSeq(s, m, n)) = n - m + 1
      /\ \A i \in 1..(n - m + 1) : SubSeq(s, m, n)[i] = s[m + i - 1]
  BY <1>1, SubSeqProperties
<1>3. 1 \in 1..(n - m + 1) /\ n - m + 1 \in 1..(n - m + 1)
  OBVIOUS
<1>4. QED
  BY <1>2, <1>3

\* String.prototype.trim leaves a line that is empty or that starts and
\* ends with a character that is not blank.
LEMMA TrimEnds ==
    ASSUME NEW S, NEW l \in Seq(S), Trim(l) # <<>>
    PROVE  /\ Trim(l)[1] \notin Blank
           /\ Trim(l)[Len(Trim(l))] \notin Blank
<1> DEFINE L == Len(l)
           LS == {i \in 1..L : \A j \in 1..i : l[j] \in Blank}
           TS == {i \in 1..L : \A j \in i..L : l[j] \in Blank}
           lead == Cardinality(LS)
           trail == Cardinality(TS)
<1>1. L \in Nat
  BY LenProperties
<1>2. lead \in 0..L /\ trail \in 0..L
  BY <1>1, PositionsFinite
<1>3. LS = 1..lead
  <2>1. \A i \in LS : \A j \in 1..i : j \in LS
    BY <1>1
  <2>2. QED
    BY <1>1, <2>1, DownClosed
<1>4. TS = (L - trail + 1)..L
  <2>1. \A i \in TS : \A j \in i..L : j \in TS
    BY <1>1
  <2>2. QED
    BY <1>1, <2>1, UpClosed
<1>5. lead # L
  BY DEF Trim
<1>6. l[lead + 1] \notin Blank
  <2> SUFFICES ASSUME l[lead + 1] \in Blank PROVE FALSE
    OBVIOUS
  <2>1. \A j \in 1..lead : l[j] \in Blank
    BY <1>2, <1>3
  <2>2. \A j \in 1..(lead + 1) : l[j] \in Blank
    BY <1>2, <2>1
  <2>3. lead + 1 \in LS
    BY <1>2, <1>5, <2>2
  <2>4. lead + 1 \in 1..lead
    BY <1>3, <2>3
  <2>5. QED
    BY <1>2, <2>4
<1>7. lead + 1 <= L - trail
  <2>1. lead + 1 \notin TS
    BY <1>2, <1>5, <1>6
  <2>2. lead + 1 \notin (L - trail + 1)..L
    BY <1>4, <2>1
  <2>3. QED
    BY <1>1, <1>2, <1>5, <2>2
<1>8. l[L - trail] \notin Blank
  <2> SUFFICES ASSUME l[L - trail] \in Blank PROVE FALSE
    OBVIOUS
  <2>1. \A j \in (L - trail + 1)..L : l[j] \in Blank
    BY <1>2, <1>4
  <2>2. \A j \in (L - trail)..L : l[j] \in Blank
    BY <1>2, <2>1
  <2>3. L - trail \in TS
    BY <1>2, <1>7, <2>2
  <2>4. L - trail \in (L - trail + 1)..L
    BY <1>4, <2>3
  <2>5. QED
    BY <1>2, <2>4
<1>9. Trim(l) = SubSeq(l, lead + 1, L - trail)
  BY <1>5 DEF Trim
<1> HIDE DEF LS, TS, lead, trail
<1>10. ASSUME NEW a \in Int, NEW b \in Int, 1 <= a, a <= b, b <= L
       PROVE  /\ Len(SubSeq(l, a, b)) = b - a + 1
              /\ SubSeq(l, a, b)[1] = l[a]
              /\ SubSeq(l, a, b)[b - a + 1] = l[b]
  BY <1>10, SubSeqEnds
<1>11. lead + 1 \in Int /\ L - trail \in Int /\ 1 <= lead + 1
       /\ L - trail <= L
  BY <1>1, <1>2
<1>12. /\ Trim(l)[1] = l[lead + 1]
       /\ Len(Trim(l)) = (L - trail) - (lead + 1) + 1
       /\ Trim(l)[(L - trail) - (lead + 1) + 1] = l[L - trail]
  BY <1>7, <1>9, <1>10, <1>11
<1>13. QED
  BY <1>6, <1>8, <1>12

\* PgShellHistory.push keeps a history of lines within its capacity.
LEMMA PushIn ==
    ASSUME NEW S, NEW h \in Seq(Seq(S)), NEW e \in Seq(S), Len(h) <= HistSize
    PROVE  /\ Push(h, e) \in Seq(Seq(S))
           /\ Len(Push(h, e)) <= HistSize
<1>1. CASE e = <<>>
  BY <1>1 DEF Push
<1>2. CASE e # <<>> /\ Len(h) < HistSize
  <2>1. Append(h, e) \in Seq(Seq(S)) /\ Len(Append(h, e)) = Len(h) + 1
    BY AppendProperties
  <2>2. QED
    BY <1>2, <2>1, HistSizeAssumption, LenProperties DEF Push
<1>3. CASE e # <<>> /\ ~(Len(h) < HistSize)
  <2>1. h # <<>>
    BY <1>3, HistSizeAssumption, EmptySeq
  <2>2. Tail(h) \in Seq(Seq(S)) /\ Len(Tail(h)) = Len(h) - 1
    BY <2>1, HeadTailProperties
  <2>3. Append(Tail(h), e) \in Seq(Seq(S))
        /\ Len(Append(Tail(h), e)) = Len(Tail(h)) + 1
    BY <2>2, AppendProperties
  <2>4. QED
    BY <1>3, <2>2, <2>3, HistSizeAssumption, LenProperties DEF Push
<1>4. QED
  BY <1>1, <1>2, <1>3

-----------------------------------------------------------------------------
(* The inductive invariant: the types, and the cursor within the line.     *)

IInv == TypeOK /\ CursorInLine

\* Every key that leaves the history and its traversal alone keeps the invariant as soon as it leaves a line with a cursor in it.
LEMMA LineStep ==
    ASSUME IInv,
           input' \in Seq(Symbols), cursor' \in 0..Len(input'),
           UNCHANGED <<history, hcur>>
    PROVE  IInv'
BY DEF IInv, TypeOK, CursorInLine

\* _handleCursorInsert of a line of symbols keeps a line with the cursor in it.
LEMMA CursorInsertStep ==
    ASSUME IInv, NEW d \in Seq(Symbols), HandleCursorInsert(d)
    PROVE  input' \in Seq(Symbols) /\ cursor' \in 0..Len(input')
<1>1. input \in Seq(Symbols) /\ cursor \in 0..Len(input)
  BY DEF IInv, TypeOK, CursorInLine
<1>2. QED
  BY <1>1, InsertIn DEF HandleCursorInsert

\* _handleCursorMove keeps the cursor in the line it leaves alone.
LEMMA CursorMoveStep ==
    ASSUME IInv, NEW dir \in {-1, 1}, HandleCursorMove(dir)
    PROVE  input' \in Seq(Symbols) /\ cursor' \in 0..Len(input')
<1>1. input \in Seq(Symbols) /\ cursor \in 0..Len(input) /\ Len(input) \in Nat
  BY LenProperties DEF IInv, TypeOK, CursorInLine
<1>2. input' = input
  BY DEF HandleCursorMove
<1>3. CASE dir = 1
  <2>1. cursor' = cursor + (IF Len(input) - cursor < 1
                               THEN Len(input) - cursor ELSE 1)
    BY <1>3 DEF HandleCursorMove
  <2>2. QED
    BY <1>1, <1>2, <2>1
<1>4. CASE dir = -1
  <2>1. cursor' = cursor + (IF -1 < -cursor THEN -cursor ELSE -1)
    BY <1>4 DEF HandleCursorMove
  <2>2. QED
    BY <1>1, <1>2, <2>1
<1>5. QED
  BY <1>3, <1>4

\* _handleCursorErase removes at most one symbol and keeps the cursor in
\* the line.
LEMMA CursorEraseStep ==
    ASSUME IInv, NEW backspace \in BOOLEAN, HandleCursorErase(backspace)
    PROVE  input' \in Seq(Symbols) /\ cursor' \in 0..Len(input')
<1>1. input \in Seq(Symbols) /\ cursor \in 0..Len(input)
  BY DEF IInv, TypeOK, CursorInLine
<1>2. CASE backspace /\ cursor <= 0
  BY <1>1, <1>2 DEF HandleCursorErase
<1>3. CASE backspace /\ ~(cursor <= 0)
  <2> DEFINE new == Before(input, cursor - 1) \o After(input, cursor)
  <2>1. new \in Seq(Symbols)
    BY <1>1, BeforeAfter, ConcatIn
  <2>2. input' = new /\ cursor' = Clip(cursor - 1, new)
    BY <1>3 DEF HandleCursorErase
  <2>3. cursor - 1 \in Nat
    BY <1>1, <1>3
  <2>4. Len(new) \in Nat
    BY <2>1, LenProperties
  <2>5. Clip(cursor - 1, new) \in 0..Len(new)
    BY <2>3, <2>4, ClipRange
  <2>6. QED
    BY <2>1, <2>2, <2>5
<1>4. CASE ~backspace
  <2> DEFINE new == Before(input, cursor) \o After(input, cursor + 1)
  <2>1. new \in Seq(Symbols)
    BY <1>1, BeforeAfter, ConcatIn
  <2>2. input' = new /\ cursor' = Clip(cursor, new)
    BY <1>4 DEF HandleCursorErase
  <2>3. Len(new) \in Nat /\ cursor \in Nat
    BY <1>1, <2>1, LenProperties
  <2>4. Clip(cursor, new) \in 0..Len(new)
    BY <2>3, ClipRange
  <2>5. QED
    BY <2>1, <2>2, <2>4
<1>5. QED
  BY <1>2, <1>3, <1>4

\* Every step of the editor keeps the types and the cursor within the line.
LEMMA IInvStep == IInv /\ [Next]_vars => IInv'
<1> SUFFICES ASSUME IInv, [Next]_vars PROVE IInv'
  OBVIOUS
<1>0. /\ input \in Seq(Symbols) /\ cursor \in 0..Len(input)
      /\ history \in Seq(Seq(Symbols)) /\ Len(history) <= HistSize
      /\ hcur \in 0..Len(history)
  BY DEF IInv, TypeOK, CursorInLine
<1>1. CASE \E c \in Chars : Insert(c)
  <2>1. PICK c \in Chars : Insert(c)
    BY <1>1
  <2>2. <<c>> \in Seq(Symbols)
    BY DEF Symbols
  <2>3. input' \in Seq(Symbols) /\ cursor' \in 0..Len(input')
    BY <2>1, <2>2, CursorInsertStep DEF Insert
  <2>4. QED
    BY <2>1, <2>3, LineStep DEF Insert
<1>2. CASE Left
  BY <1>2, CursorMoveStep, LineStep DEF Left
<1>3. CASE Right
  BY <1>3, CursorMoveStep, LineStep DEF Right
<1>4. CASE Home
  BY <1>0, <1>4, IdxRange, LenProperties, LineStep DEF Home, SetCursor
<1>5. CASE End
  BY <1>0, <1>5, IdxRange, LenProperties, LineStep DEF End, SetCursor
<1>6. CASE Delete
  BY <1>6, CursorEraseStep, LineStep DEF Delete
<1>7. CASE Backspace
  BY <1>7, CursorEraseStep, LineStep DEF Backspace
<1>8. CASE WordLeft
  BY <1>0, <1>8, IdxRange, LenProperties, LineStep DEF WordLeft, SetCursor
<1>9. CASE WordRight
  BY <1>0, <1>9, IdxRange, LenProperties, LineStep DEF WordRight, SetCursor
<1>10. CASE WordErase
  <2> DEFINE ofs == ClosestLeftBoundary(input, cursor)
             new == Before(input, ofs) \o After(input, cursor)
  <2>1. new \in Seq(Symbols)
    BY <1>0, BeforeAfter, ConcatIn
  <2>2. SetCursor(ofs, new) \in 0..Len(new)
    BY <2>1, IdxRange, LenProperties DEF SetCursor
  <2>3. input' \in Seq(Symbols) /\ cursor' \in 0..Len(input')
    BY <1>0, <1>10, <2>1, <2>2 DEF WordErase
  <2>4. QED
    BY <1>10, <2>3, LineStep DEF WordErase
<1>11. CASE KillToEnd
  <2>1. Before(input, cursor) \in Seq(Symbols)
    BY <1>0, BeforeAfter
  <2>2. Len(Before(input, cursor)) \in Nat
    BY <2>1, LenProperties
  <2>3. QED
    BY <1>11, <2>1, <2>2, LineStep DEF KillToEnd
<1>12. CASE KillToStart
  <2>1. After(input, cursor) \in Seq(Symbols)
    BY <1>0, BeforeAfter
  <2>2. Len(After(input, cursor)) \in Nat
    BY <2>1, LenProperties
  <2>3. QED
    BY <1>12, <2>1, <2>2, LineStep DEF KillToStart
<1>13. CASE Abort
  BY <1>0, <1>13, EmptySeq DEF Abort, PrevIdx, IInv, TypeOK, CursorInLine
<1>14. CASE HistoryPrevious
  <2>1. PrevIdx \in 0..Len(history)
    BY <1>0 DEF PrevIdx
  <2>2. CASE PrevIdx < Len(history)
    <3>1. history[PrevIdx + 1] \in Seq(Symbols)
      BY <1>0, <2>1, <2>2, ElementOfSeq
    <3>2. Len(history[PrevIdx + 1]) \in Nat
      BY <3>1, LenProperties
    <3>3. QED
      BY <1>0, <1>14, <2>1, <2>2, <3>1, <3>2
      DEF HistoryPrevious, IInv, TypeOK, CursorInLine
  <2>3. CASE ~(PrevIdx < Len(history))
    BY <1>0, <1>14, <2>1, <2>3 DEF HistoryPrevious, IInv, TypeOK, CursorInLine
  <2>4. QED
    BY <2>2, <2>3
<1>15. CASE HistoryNext
  <2> DEFINE value == IF NextIdx < Len(history) THEN history[NextIdx + 1]
                      ELSE <<>>
  <2>1. NextIdx \in 0..Len(history)
    BY <1>0 DEF NextIdx
  <2>2. value \in Seq(Symbols)
    BY <1>0, <2>1, ElementOfSeq, EmptySeq
  <2>3. Len(value) \in Nat
    BY <2>2, LenProperties
  <2>4. QED
    BY <1>0, <1>15, <2>1, <2>2, <2>3
    DEF HistoryNext, IInv, TypeOK, CursorInLine
<1>16. CASE Enter
  <2>1. CASE IsIncompleteInput(input) /\ Len(input) < MaxLen
             /\ HandleCursorInsert(<<NL>>) /\ UNCHANGED <<history, hcur>>
    <3>1. <<NL>> \in Seq(Symbols)
      BY DEF Symbols, Blank
    <3>2. input' \in Seq(Symbols) /\ cursor' \in 0..Len(input')
      BY <2>1, <3>1, CursorInsertStep
    <3>3. QED
      BY <1>16, <2>1, <3>2, LineStep DEF Enter
  <2>2. CASE /\ ~IsIncompleteInput(input)
             /\ history' = Push(history, Trim(input))
             /\ hcur' = Len(history')
             /\ input' = <<>>
             /\ cursor' = 0
    <3>1. Trim(input) \in Seq(Symbols)
      BY <1>0, TrimIn
    <3>2. history' \in Seq(Seq(Symbols)) /\ Len(history') <= HistSize
      BY <1>0, <2>2, <3>1, PushIn
    <3>3. Len(history') \in Nat
      BY <3>2, LenProperties
    <3>4. QED
      BY <1>16, <2>2, <3>2, <3>3, EmptySeq
      DEF Enter, IInv, TypeOK, CursorInLine
  <2>3. QED
    BY <1>16, <2>1, <2>2 DEF Enter
<1>17. CASE Tab
  <2> DEFINE f == Before(input, cursor)
             cands == Candidates(f)
             n == Cardinality(cands)
  <2>1. cands \subseteq 1..Len(history)
    BY DEF Candidates
  <2>2. CASE n = 0 /\ HasTrailingWhitespace(f)
             /\ UNCHANGED <<input, cursor>>
    BY <1>0, <1>17, <2>2, LineStep DEF Tab
  <2>3. CASE n = 0 /\ Len(input) < MaxLen /\ HandleCursorInsert(<<Sp>>)
    <3>1. <<Sp>> \in Seq(Symbols)
      BY DEF Symbols, Blank
    <3>2. input' \in Seq(Symbols) /\ cursor' \in 0..Len(input')
      BY <2>3, <3>1, CursorInsertStep
    <3>3. QED
      BY <1>17, <2>3, <3>2, LineStep DEF Tab
  <2>4. CASE n = 1
             /\ \E i \in cands : /\ input' = history[i]
                                 /\ cursor' = SetCursor(Len(history[i]),
                                                        history[i])
    <3>1. PICK i \in cands : /\ input' = history[i]
                             /\ cursor' = SetCursor(Len(history[i]), history[i])
      BY <2>4
    <3>2. history[i] \in Seq(Symbols)
      BY <1>0, <2>1, ElementOfSeq
    <3>3. cursor' \in 0..Len(input')
      BY <3>1, <3>2, IdxRange, LenProperties DEF SetCursor
    <3>4. QED
      BY <1>17, <2>4, <3>1, <3>2, <3>3, LineStep DEF Tab
  <2>5. CASE n > 1 /\ cursor' = SetCursor(Len(input), input)
             /\ UNCHANGED input
    <3>1. cursor' \in 0..Len(input')
      BY <1>0, <2>5, IdxRange, LenProperties DEF SetCursor
    <3>2. QED
      BY <1>0, <1>17, <2>5, <3>1 DEF Tab, IInv, TypeOK, CursorInLine
  <2>6. QED
    BY <1>17, <2>2, <2>3, <2>4, <2>5 DEF Tab
<1>18. CASE UNCHANGED vars
  BY <1>18 DEF vars, IInv, TypeOK, CursorInLine
<1>19. QED
  BY <1>1, <1>2, <1>3, <1>4, <1>5, <1>6, <1>7, <1>8, <1>9, <1>10, <1>11,
     <1>12, <1>13, <1>14, <1>15, <1>16, <1>17, <1>18 DEF Next

\* Whatever keys are pressed, the line holds symbols, the history stays
\* within its capacity with its traversal cursor inside it, and the tty's
\* cursor stays within the line.
THEOREM CursorInLineHolds == Spec => [](TypeOK /\ CursorInLine)
<1>1. Init => IInv
  <2> SUFFICES ASSUME Init PROVE IInv
    OBVIOUS
  <2>1. <<>> \in Seq(Symbols) /\ <<>> \in Seq(Seq(Symbols)) /\ Len(<<>>) = 0
    BY EmptySeq
  <2>2. QED
    BY <2>1, HistSizeAssumption DEF Init, IInv, TypeOK, CursorInLine
<1>2. QED
  BY <1>1, IInvStep, PTL DEF Spec, IInv

\* Every variable of the line editor keeps its type, whatever the keys.
THEOREM TypeCorrect == Spec => []TypeOK
BY CursorInLineHolds, PTL

-----------------------------------------------------------------------------
(* The line editor implements HistoryRing.                                 *)

\* What appending to a sequence keeps and adds.
LEMMA AppendParts ==
    ASSUME NEW S, NEW s \in Seq(S), NEW e
    PROVE  /\ Len(Append(s, e)) = Len(s) + 1
           /\ SubSeq(Append(s, e), 1, Len(s)) = s
           /\ Append(s, e)[Len(Append(s, e))] = e
<1>1. Len(Append(s, e)) = Len(s) + 1 /\ Append(s, e)[Len(s) + 1] = e
  BY AppendProperties
<1>2. SubSeq(Append(s, e), 1, Len(s)) = s
  BY <1>1, AppendProperties
<1>3. QED
  BY <1>1, <1>2

\* A history push of a non-empty line is a Record step of the ring.
LEMMA PushRecord ==
    ASSUME TypeOK, NEW e, e # <<>>,
           history' = Push(history, e), hcur' = Len(history')
    PROVE  HR!Record
<1>1. HistSize \in Nat \ {0} /\ history \in Seq(Seq(Symbols))
  BY HistSizeAssumption DEF TypeOK
<1>2. HR!Kept \in Seq(Seq(Symbols))
  <2>1. CASE Len(history) < HistSize
    BY <1>1, <2>1 DEF HR!Kept
  <2>2. CASE ~(Len(history) < HistSize)
    <3>1. history # <<>>
      BY <1>1, <2>2
    <3>2. QED
      BY <1>1, <2>2, <3>1, HeadTailProperties DEF HR!Kept
  <2>3. QED
    BY <2>1, <2>2
<1>3. history' = Append(HR!Kept, e)
  BY DEF Push, HR!Kept
<1>4. QED
  BY <1>2, <1>3, AppendParts DEF HR!Record

\* Every step of the line editor is a step of the ring or leaves the
\* history and its traversal cursor alone.
LEMMA HistoryRingStep == IInv /\ [Next]_vars => [HR!Next]_HR!vars
<1> SUFFICES ASSUME IInv, [Next]_vars PROVE [HR!Next]_HR!vars
  OBVIOUS
<1>1. TypeOK /\ HistSize \in Nat \ {0}
  BY HistSizeAssumption DEF IInv
<1> DEFINE Keep == UNCHANGED <<history, hcur>>
<1>2. Keep => [HR!Next]_HR!vars
  BY DEF HR!vars
\* getPrevious: one entry up, or none at the top.
<1>3. hcur' = PrevIdx /\ UNCHANGED history => [HR!Next]_HR!vars
  <2> SUFFICES ASSUME hcur' = PrevIdx, UNCHANGED history
               PROVE  [HR!Next]_HR!vars
    OBVIOUS
  <2>1. CASE hcur > 0
    <3>1. HR!Move(-1)
      BY <1>1, <2>1 DEF TypeOK, PrevIdx, HR!Move
    <3>2. QED
      BY <3>1 DEF HR!Next
  <2>2. CASE ~(hcur > 0)
    BY <1>1, <2>2 DEF TypeOK, PrevIdx, HR!vars
  <2>3. QED
    BY <2>1, <2>2
<1>4. ASSUME \E c \in Chars : Insert(c) PROVE [HR!Next]_HR!vars
  BY <1>2, <1>4 DEF Insert
<1>5. ASSUME Left \/ Right \/ Home \/ End \/ Delete \/ Backspace
      PROVE  [HR!Next]_HR!vars
  BY <1>2, <1>5 DEF Left, Right, Home, End, Delete, Backspace
<1>6. ASSUME WordLeft \/ WordRight \/ WordErase \/ KillToEnd \/ KillToStart
      PROVE  [HR!Next]_HR!vars
  BY <1>2, <1>6 DEF WordLeft, WordRight, WordErase, KillToEnd, KillToStart
<1>7. ASSUME Abort \/ HistoryPrevious PROVE [HR!Next]_HR!vars
  BY <1>3, <1>7 DEF Abort, HistoryPrevious
<1>8. ASSUME HistoryNext PROVE [HR!Next]_HR!vars
  <2>1. CASE hcur < Len(history)
    <3>1. HR!Move(1)
      BY <1>1, <1>8, <2>1 DEF TypeOK, HistoryNext, NextIdx, HR!Move
    <3>2. QED
      BY <3>1 DEF HR!Next
  <2>2. CASE ~(hcur < Len(history))
    BY <1>1, <1>8, <2>2 DEF TypeOK, HistoryNext, NextIdx, HR!vars
  <2>3. QED
    BY <2>1, <2>2
<1>9. ASSUME Enter PROVE [HR!Next]_HR!vars
  <2>1. CASE IsIncompleteInput(input)
    BY <1>2, <1>9, <2>1 DEF Enter
  <2>2. CASE ~IsIncompleteInput(input) /\ Trim(input) = <<>>
    <3>1. HR!Rewind
      BY <1>9, <2>2 DEF Enter, Push, HR!Rewind
    <3>2. QED
      BY <3>1 DEF HR!Next
  <2>3. CASE ~IsIncompleteInput(input) /\ Trim(input) # <<>>
    <3>1. history' = Push(history, Trim(input)) /\ hcur' = Len(history')
      BY <1>9, <2>3 DEF Enter
    <3>2. HR!Record
      BY <1>1, <2>3, <3>1, PushRecord
    <3>3. QED
      BY <3>2 DEF HR!Next
  <2>4. QED
    BY <2>1, <2>2, <2>3
<1>10. ASSUME Tab PROVE [HR!Next]_HR!vars
  BY <1>2, <1>10 DEF Tab
<1>11. CASE UNCHANGED vars
  BY <1>2, <1>11 DEF vars
<1>12. QED
  BY <1>4, <1>5, <1>6, <1>7, <1>8, <1>9, <1>10, <1>11 DEF Next

\* The line editor uses the history only as PgShellHistory promises
\* (HistoryRingRefined): pushes of the trimmed line on ENTER, moves by one
\* entry on the history keys, nothing on any other key.
THEOREM LineEditorImplementsHistoryRing == Spec => HistoryRingRefined
<1>1. Init => HR!Init
  BY DEF Init, HR!Init
<1>2. QED
  BY <1>1, HistoryRingStep, CursorInLineHolds, PTL
     DEF Spec, HistoryRingRefined, HR!Spec, IInv

-----------------------------------------------------------------------------
(* Every history entry is a trimmed, non-empty line.                       *)

\* An entry as HistoryTrimmed wants it.
CleanEntry(e) == e # <<>> /\ e[1] \notin Blank /\ e[Len(e)] \notin Blank

\* PgShellHistory.push of a clean entry, or of an empty line, keeps every
\* entry of the history clean.
LEMMA PushClean ==
    ASSUME NEW S, NEW h \in Seq(Seq(S)), \A i \in 1..Len(h) : CleanEntry(h[i]),
           NEW e \in Seq(S), e = <<>> \/ CleanEntry(e)
    PROVE  \A i \in 1..Len(Push(h, e)) : CleanEntry(Push(h, e)[i])
<1>1. CASE e = <<>>
  BY <1>1 DEF Push
<1>2. CASE e # <<>> /\ Len(h) < HistSize
  <2>1. /\ Len(Append(h, e)) = Len(h) + 1
        /\ \A i \in 1..Len(h) : Append(h, e)[i] = h[i]
        /\ Append(h, e)[Len(h) + 1] = e
    BY AppendProperties
  <2>2. QED
    BY <1>2, <2>1 DEF Push
<1>3. CASE e # <<>> /\ ~(Len(h) < HistSize)
  <2>1. h # <<>>
    BY <1>3, HistSizeAssumption, EmptySeq
  <2>2. /\ Tail(h) \in Seq(Seq(S))
        /\ Len(Tail(h)) = Len(h) - 1
        /\ \A i \in 1..Len(Tail(h)) : Tail(h)[i] = h[i + 1]
    BY <2>1, HeadTailProperties
  <2>3. \A i \in 1..Len(Tail(h)) : CleanEntry(Tail(h)[i])
    BY <2>2
  <2>4. /\ Len(Append(Tail(h), e)) = Len(Tail(h)) + 1
        /\ \A i \in 1..Len(Tail(h)) : Append(Tail(h), e)[i] = Tail(h)[i]
        /\ Append(Tail(h), e)[Len(Tail(h)) + 1] = e
    BY <2>2, AppendProperties
  <2>5. QED
    BY <1>3, <2>3, <2>4 DEF Push
<1>4. QED
  BY <1>1, <1>2, <1>3

\* Only ENTER changes the history, and it pushes a trimmed line.
LEMMA HistoryTrimmedStep ==
    IInv /\ HistoryTrimmed /\ [Next]_vars => HistoryTrimmed'
<1> SUFFICES ASSUME IInv, HistoryTrimmed, [Next]_vars PROVE HistoryTrimmed'
  OBVIOUS
<1>1. TypeOK /\ \A i \in 1..Len(history) : CleanEntry(history[i])
  BY DEF IInv, HistoryTrimmed, CleanEntry
<1>2. UNCHANGED history => HistoryTrimmed'
  BY DEF HistoryTrimmed
<1>3. ASSUME Enter PROVE HistoryTrimmed'
  <2>1. CASE IsIncompleteInput(input)
    BY <1>2, <1>3, <2>1 DEF Enter
  <2>2. CASE ~IsIncompleteInput(input)
    <3>1. history' = Push(history, Trim(input))
      BY <1>3, <2>2 DEF Enter
    <3>2. input \in Seq(Symbols) /\ history \in Seq(Seq(Symbols))
      BY <1>1 DEF TypeOK
    <3>3. Trim(input) \in Seq(Symbols)
      BY <3>2, TrimIn
    <3>4. Trim(input) = <<>> \/ CleanEntry(Trim(input))
      BY <3>2, TrimEnds DEF CleanEntry
    <3>5. \A i \in 1..Len(history') : CleanEntry(history'[i])
      BY <1>1, <3>1, <3>2, <3>3, <3>4, PushClean
    <3>6. QED
      BY <3>5 DEF HistoryTrimmed, CleanEntry
  <2>3. QED
    BY <2>1, <2>2
<1>4. CASE ~Enter
  BY <1>2, <1>4 DEF Next, vars, Insert, Left, Right, Home, End, Delete,
     Backspace, WordLeft, WordRight, WordErase, KillToEnd, KillToStart, Abort,
     HistoryPrevious, HistoryNext, Tab
<1>5. QED
  BY <1>3, <1>4

\* Whatever keys are pressed, the history holds only non-empty lines with
\* no blank at either end: ENTER pushes the trimmed line, and the push of
\* PgShellHistory skips an empty one.
THEOREM HistoryTrimmedHolds == Spec => []HistoryTrimmed
<1>1. Init => HistoryTrimmed
  BY EmptySeq DEF Init, HistoryTrimmed
<1>2. QED
  BY <1>1, HistoryTrimmedStep, CursorInLineHolds, PTL DEF Spec, IInv

=============================================================================
