----------------------------- MODULE LineEditor -----------------------------
(***************************************************************************)
(* The line editor of PgShell (src/unnamed/part_004): what one piece of   *)
(* terminal data does to the tty's input line and cursor and to the      *)
(* history traversal, while the shell is active.  One step is one call of handleTermData with a single *)
(* logical unit (a pasted block is the sequence of its characters).       *)
(*                                                                         *)
(* The tty (PgTty), the history (PgShellHistory) and the helpers of       *)
(* shell-utils are not part of the sources; their operators are written   *)
(* from the specification.  A line is a sequence of one-character         *)
(* strings.                                                                *)
(***************************************************************************)
EXTENDS Integers, Sequences, FiniteSets

CONSTANTS
    Chars,                  \* the printable characters the user may type
    MaxLen,                 \* longest line the model lets the user build
    HistSize                \* ShellOptions.historySize

Sp == " "
NL == "\n"
Q == "'"
Blank == {Sp, NL}

\* What a line may hold: typed characters, and the blanks TAB and ENTER add.
Symbols == Chars \cup Blank

ASSUME CharsAssumption == Chars \subseteq STRING /\ NL \notin Chars
ASSUME MaxLenAssumption == MaxLen \in Nat
ASSUME HistSizeAssumption == HistSize \in Nat \ {0}

VARIABLES
    input,       \* the tty's input line
    cursor,      \* the tty's cursor offset into the line
    history,     \* the entries of _history, oldest first
    hcur         \* the traversal cursor of _history (Len(history) = bottom)

vars == <<input, cursor, history, hcur>>

-----------------------------------------------------------------------------
(* Strings and the helpers of the tty, the history and shell-utils.       *)

\* String.prototype.substring clamps an index into [0, length].
Idx(k, l) == IF k \in 0..Len(l) THEN k ELSE IF k < 0 THEN 0 ELSE Len(l)

\* s.substring(0, k) and s.substring(k).
Before(l, k) == SubSeq(l, 1, Idx(k, l))
After(l, k) == SubSeq(l, Idx(k, l) + 1, Len(l))

\* String.prototype.trim: drop the blanks that lead and those that trail.
Trim(l) ==
    LET lead == Cardinality({i \in 1..Len(l) : \A j \in 1..i : l[j] \in Blank})
        trail == Cardinality({i \in 1..Len(l) :
                                \A j \in i..Len(l) : l[j] \in Blank})
    IN  IF lead = Len(l) THEN <<>> ELSE SubSeq(l, lead + 1, Len(l) - trail)

\* PgTty.setInput adjusts a cursor that lies past the end of the new line.
Clip(c, l) == IF c > Len(l) THEN Len(l) ELSE c

\* PgTty.setCursor clamps its argument into [0, length].
SetCursor(c, l) == Idx(c, l)

\* Offsets where a word (maximal run of non-blanks) starts, and where it ends.
WordStarts(l) == {i \in 0..(Len(l) - 1) : l[i + 1] \notin Blank
                                          /\ (i = 0 \/ l[i] \in Blank)}
WordEnds(l) == {i \in 1..Len(l) : l[i] \notin Blank
                                  /\ (i = Len(l) \/ l[i + 1] \in Blank)}

\* closestLeftBoundary / closestRightBoundary: the nearest word start left
\* of the offset (0 when none), the nearest word end right of it (the
\* length when none).
ClosestLeftBoundary(l, ofs) ==
    LET s == {b \in WordStarts(l) : b < ofs}
    IN  IF s = {} THEN 0 ELSE CHOOSE b \in s : \A x \in s : x <= b
ClosestRightBoundary(l, ofs) ==
    LET s == {e \in WordEnds(l) : e > ofs}
    IN  IF s = {} THEN Len(l) ELSE CHOOSE e \in s : \A x \in s : e <= x

\* isIncompleteInput: a non-blank line with an unbalanced quote.
IsIncompleteInput(l) ==
    /\ Trim(l) # <<>>
    /\ Cardinality({i \in 1..Len(l) : l[i] = Q}) % 2 = 1

\* hasTrailingWhitespace.
HasTrailingWhitespace(f) == Len(f) > 0 /\ f[Len(f)] \in Blank

\* The token collectAutocompleteCandidates completes: none after a blank,
\* else the run of non-blanks that ends the fragment.
Expr(f) ==
    LET bs == {i \in 1..Len(f) : f[i] \in Blank}
        last == CHOOSE i \in bs : \A j \in bs : j <= i
    IN  IF Trim(f) = <<>> \/ HasTrailingWhitespace(f) THEN <<>>
        ELSE IF bs = {} THEN f ELSE SubSeq(f, last + 1, Len(f))

\* The candidates of the only handler, this._history.getEntries(), that
\* start with the token: one per history entry, duplicates included.
Candidates(f) ==
    {i \in 1..Len(history) :
        /\ Len(Expr(f)) <= Len(history[i])
        /\ SubSeq(history[i], 1, Len(Expr(f))) = Expr(f)}

\* Mutant of Push: the eviction test is off by one.
PushLate(h, l) ==
    IF l = <<>> THEN h
    ELSE IF Len(h) <= HistSize THEN Append(h, l) ELSE Append(Tail(h), l)

\* PgShellHistory.push: skip an empty line, evict the oldest entry beyond
\* the capacity.
Push(h, l) ==
    IF l = <<>> THEN h
    ELSE IF Len(h) < HistSize THEN Append(h, l) ELSE Append(Tail(h), l)

\* getPrevious / getNext move the traversal cursor, clamped to the ring.
PrevIdx == IF hcur > 0 THEN hcur - 1 ELSE 0
NextIdx == IF hcur < Len(history) THEN hcur + 1 ELSE Len(history)

-----------------------------------------------------------------------------
(* The cursor helpers of PgShell.                                          *)

\* _handleCursorMove(dir) for dir = -1 and dir = 1.
HandleCursorMove(dir) ==
    /\ cursor' = IF dir > 0
                    THEN cursor + (IF Len(input) - cursor < dir
                                      THEN Len(input) - cursor ELSE dir)
                    ELSE cursor + (IF dir < -cursor THEN -cursor ELSE dir)
    /\ UNCHANGED input

\* _handleCursorInsert(data).
HandleCursorInsert(data) ==
    LET new == Before(input, cursor) \o data \o After(input, cursor)
    IN  /\ input' = new
        /\ cursor' = Clip(cursor + Len(data), new)

\* Mutant of HandleCursorErase: backspace at the line start is not refused.
HandleCursorEraseAtZero(backspace) ==
    IF backspace
       THEN LET new == Before(input, cursor - 1) \o After(input, cursor)
            IN  input' = new /\ cursor' = Clip(cursor - 1, new)
       ELSE LET new == Before(input, cursor) \o After(input, cursor + 1)
            IN  input' = new /\ cursor' = Clip(cursor, new)

\* _handleCursorErase(backspace).
HandleCursorErase(backspace) ==
    IF backspace
       THEN IF cursor <= 0 THEN UNCHANGED <<input, cursor>>
            ELSE LET new == Before(input, cursor - 1) \o After(input, cursor)
                 IN  input' = new /\ cursor' = Clip(cursor - 1, new)
       ELSE LET new == Before(input, cursor) \o After(input, cursor + 1)
            IN  input' = new /\ cursor' = Clip(cursor, new)

-----------------------------------------------------------------------------
Init ==
    /\ input = <<>>
    /\ cursor = 0
    /\ history = <<>>
    /\ hcur = 0

\* A printable character: _handleCursorInsert(data).
Insert(c) ==
    /\ Len(input) < MaxLen
    /\ HandleCursorInsert(<<c>>)
    /\ UNCHANGED <<history, hcur>>

\* Left arrow or CTRL+B, right arrow or CTRL+F.
Left == HandleCursorMove(-1) /\ UNCHANGED <<history, hcur>>
Right == HandleCursorMove(1) /\ UNCHANGED <<history, hcur>>

\* Home or CTRL+A, End or CTRL+E.
Home ==
    /\ cursor' = SetCursor(0, input)
    /\ UNCHANGED <<input, history, hcur>>
End ==
    /\ cursor' = SetCursor(Len(input), input)
    /\ UNCHANGED <<input, history, hcur>>

\* Delete, and BACKSPACE / CTRL+H / CTRL+D.
Delete ==
    HandleCursorErase(FALSE) /\ UNCHANGED <<history, hcur>>
Backspace ==
    HandleCursorErase(TRUE) /\ UNCHANGED <<history, hcur>>

\* ALT+LEFT and ALT+RIGHT: move to the boundary `if (ofs)`.
WordLeft ==
    /\ LET ofs == ClosestLeftBoundary(input, cursor)
       IN  cursor' = IF ofs # 0 THEN SetCursor(ofs, input) ELSE cursor
    /\ UNCHANGED <<input, history, hcur>>
WordRight ==
    /\ LET ofs == ClosestRightBoundary(input, cursor)
       IN  cursor' = IF ofs # 0 THEN SetCursor(ofs, input) ELSE cursor
    /\ UNCHANGED <<input, history, hcur>>

\* CTRL+BACKSPACE: erase back to the boundary `if (ofs)`.
WordErase ==
    /\ LET ofs == ClosestLeftBoundary(input, cursor)
           new == Before(input, ofs) \o After(input, cursor)
       IN  IF ofs # 0
              THEN input' = new /\ cursor' = SetCursor(ofs, new)
              ELSE UNCHANGED <<input, cursor>>
    /\ UNCHANGED <<history, hcur>>

\* CTRL+K: kill to the end of the line; CTRL+U: kill to its start.
KillToEnd ==
    /\ input' = Before(input, cursor)
    /\ cursor' = Len(Before(input, cursor))
    /\ UNCHANGED <<history, hcur>>
KillToStart ==
    /\ input' = After(input, cursor)
    /\ cursor' = 0
    /\ UNCHANGED <<history, hcur>>

\* CTRL+G: history.getPrevious() and an empty line.
Abort ==
    /\ hcur' = PrevIdx
    /\ input' = <<>>
    /\ cursor' = 0
    /\ UNCHANGED history

\* Up arrow or CTRL+P: show the previous entry, if there is one.
HistoryPrevious ==
    /\ hcur' = PrevIdx
    /\ IF PrevIdx < Len(history)
          THEN input' = history[PrevIdx + 1]
               /\ cursor' = Len(history[PrevIdx + 1])
          ELSE UNCHANGED <<input, cursor>>
    /\ UNCHANGED history

\* Down arrow or CTRL+N: show the next entry, or an empty line.
HistoryNext ==
    /\ hcur' = NextIdx
    /\ LET value == IF NextIdx < Len(history) THEN history[NextIdx + 1]
                    ELSE <<>>
       IN  input' = value /\ cursor' = Len(value)
    /\ UNCHANGED history

\* Mutant of Enter: the history traversal restarts one past the newest entry.
EnterPastEnd ==
    \/ /\ IsIncompleteInput(input)
       /\ Len(input) < MaxLen
       /\ HandleCursorInsert(<<NL>>)
       /\ UNCHANGED <<history, hcur>>
    \/ /\ ~IsIncompleteInput(input)
       /\ history' = Push(history, Trim(input))
       /\ hcur' = Len(history') + 1
       /\ input' = <<>>
       /\ cursor' = 0

\* Mutant of Enter: the push leaves the history traversal where it was.
EnterNoRewind ==
    \/ /\ IsIncompleteInput(input)
       /\ Len(input) < MaxLen
       /\ HandleCursorInsert(<<NL>>)
       /\ UNCHANGED <<history, hcur>>
    \/ /\ ~IsIncompleteInput(input)
       /\ history' = Push(history, Trim(input))
       /\ hcur' = hcur
       /\ input' = <<>>
       /\ cursor' = 0

\* Mutant of Enter: the line is pushed without .trim().
EnterUntrimmed ==
    \/ /\ IsIncompleteInput(input)
       /\ Len(input) < MaxLen
       /\ HandleCursorInsert(<<NL>>)
       /\ UNCHANGED <<history, hcur>>
    \/ /\ ~IsIncompleteInput(input)
       /\ history' = Push(history, input)
       /\ hcur' = Len(history')
       /\ input' = <<>>
       /\ cursor' = 0

\* ENTER: a newline into an incomplete line; otherwise handleReadComplete,
\* after which prompt()'s continuation pushes the trimmed line and the
\* next prompt starts an empty line.
Enter ==
    \/ /\ IsIncompleteInput(input)
       /\ Len(input) < MaxLen
       /\ HandleCursorInsert(<<NL>>)
       /\ UNCHANGED <<history, hcur>>
    \/ /\ ~IsIncompleteInput(input)
       /\ history' = Push(history, Trim(input))
       /\ hcur' = Len(history')
       /\ input' = <<>>
       /\ cursor' = 0

\* TAB: complete the token before the cursor from the history entries.
\* Several candidates go through printAndRestartPrompt, which puts the
\* cursor at the end, whether it lists them or, past
\* maxAutocompleteEntries, asks "Display all ...?" with readChar: the two
\* branches differ only in what they print.  The answer of that readChar
\* never reaches handleTermData's priority check, since _activeCharPrompt
\* is never assigned, so the keys that follow edit the line as usual.
Tab ==
    /\ LET f == Before(input, cursor)
           cands == Candidates(f)
           n == Cardinality(cands)
       IN  \/ /\ n = 0
              /\ IF HasTrailingWhitespace(f)
                    THEN UNCHANGED <<input, cursor>>
                    ELSE Len(input) < MaxLen /\ HandleCursorInsert(<<Sp>>)
           \/ /\ n = 1
              /\ \E i \in cands : input' = history[i]
                                  /\ cursor' = SetCursor(Len(history[i]),
                                                         history[i])
           \/ /\ n > 1
              /\ cursor' = SetCursor(Len(input), input)
              /\ UNCHANGED input
    /\ UNCHANGED <<history, hcur>>

Next ==
    \/ \E c \in Chars : Insert(c)
    \/ Left \/ Right \/ Home \/ End \/ Delete \/ Backspace
    \/ WordLeft \/ WordRight \/ WordErase \/ KillToEnd \/ KillToStart
    \/ Abort \/ HistoryPrevious \/ HistoryNext \/ Enter \/ Tab

Spec == Init /\ [][Next]_vars

-----------------------------------------------------------------------------
(* Properties.                                                             *)

\* The type of every variable; the history within its capacity and its
\* traversal cursor within the ring.
TypeOK ==
    /\ input \in Seq(Symbols)
    /\ cursor \in Int
    /\ history \in Seq(Seq(Symbols))
    /\ Len(history) <= HistSize
    /\ hcur \in 0..Len(history)

\* Whatever keys are pressed, the tty's cursor stays within the line: no
\* erase, kill, word move, history recall or completion leaves it past the
\* end or before the start.
CursorInLine == cursor \in 0..Len(input)

\* Every history entry is a line that TAB completion and a recall can use
\* as it stands: not empty, and without a blank at either end, because
\* ENTER pushes the trimmed line and PgShellHistory skips an empty one.
HistoryTrimmed ==
    \A i \in 1..Len(history) :
        /\ history[i] # <<>>
        /\ history[i][1] \notin Blank
        /\ history[i][Len(history[i])] \notin Blank

\* The history as the editor sees it: _history's entries and its traversal
\* cursor are the ring and the position of HistoryRing.
HR == INSTANCE HistoryRing WITH ring <- history, pos <- hcur, Size <- HistSize

\* The line editor uses the history only as PgShellHistory promises: an
\* ENTER appends the one trimmed line (if not empty), evicting the oldest
\* entry at capacity, and sends the traversal to the bottom; the arrows,
\* CTRL+P/N and CTRL+G move it by one entry; no other key touches either.
HistoryRingRefined == HR!Spec

\* Whenever a word starts left of the cursor, ALT+LEFT (data ESC "b") can
\* take the cursor to the nearest such start, the first word's included.
WordLeftReachesStart ==
    ({b \in WordStarts(input) : b < cursor} # {})
        => ENABLED (WordLeft /\ cursor' = ClosestLeftBoundary(input, cursor))

\* TAB that lists several candidates gives the prompt back with the input
\* and the cursor intact.
TabListKeepsCursor ==
    [][(Tab /\ Cardinality(Candidates(Before(input, cursor))) > 1)
         => UNCHANGED <<input, cursor>>]_vars

=============================================================================
