---------------------------- MODULE HistoryRing ----------------------------
(***************************************************************************)
(* What the command history of the shell (PgShellHistory, spec.md §4.3)   *)
(* promises the line editor that browses it: a ring of at most Size       *)
(* entries, oldest first, and a traversal position in 0..Len(ring), where *)
(* Len(ring) is the bottom (the fresh line below the newest entry).       *)
(*                                                                         *)
(*   - push adds one non-empty entry at the end, evicting the oldest when *)
(*     the ring is full, and sends the traversal back to the bottom;      *)
(*   - a push of an empty line leaves the entries and rewinds;            *)
(*   - getPrevious and getNext move the position by one entry.            *)
(***************************************************************************)
EXTENDS Integers, Sequences

CONSTANT Size  \* the capacity, ShellOptions.historySize

VARIABLES
    ring,  \* the entries, oldest first
    pos    \* the traversal position

vars == <<ring, pos>>

Init == ring = <<>> /\ pos = 0

\* The ring the next entry is appended to: the oldest entry leaves a full one.
Kept == IF Len(ring) < Size THEN ring ELSE Tail(ring)

\* push(entry) of a non-empty entry: it becomes the newest, the position
\* goes to the bottom.
Record ==
    /\ Len(ring') = Len(Kept) + 1
    /\ SubSeq(ring', 1, Len(Kept)) = Kept
    /\ ring'[Len(ring')] # <<>>
    /\ pos' = Len(ring')

\* push of an empty line: nothing recorded, the position goes to the bottom.
Rewind ==
    /\ pos' = Len(ring)
    /\ UNCHANGED ring

\* getPrevious (d = -1) and getNext (d = 1) within the ring.
Move(d) ==
    /\ pos + d \in 0..Len(ring)
    /\ pos' = pos + d
    /\ UNCHANGED ring

Next == Record \/ Rewind \/ \E d \in {-1, 1} : Move(d)

Spec == Init /\ [][Next]_vars

=============================================================================
