---------------------------- MODULE ShellProofs ----------------------------
(***************************************************************************)
(* Proofs about the shell life cycle of module Shell, for every set of     *)
(* lines, every set of outside processes and every history capacity.      *)
(***************************************************************************)
EXTENDS Shell, SequenceTheorems, FiniteSetTheorems, TLAPS

\* PgShellHistory.push keeps the history a sequence of entries within its
\* capacity.
LEMMA PushType ==
    ASSUME NEW S, NEW h \in Seq(S), NEW e \in S, Len(h) <= HistSize
    PROVE  /\ Push(h, e) \in Seq(S)
           /\ Len(Push(h, e)) <= HistSize
<1>1. CASE e = <<>>
  BY <1>1 DEF Push
<1>2. CASE e # <<>> /\ Len(h) < HistSize
  <2>1. Append(h, e) \in Seq(S) /\ Len(Append(h, e)) = Len(h) + 1
    BY AppendProperties
  <2>2. Push(h, e) = Append(h, e)
    BY <1>2 DEF Push
  <2>3. QED
    BY <1>2, <2>1, <2>2, HistSizeAssumption, LenProperties
<1>3. CASE e # <<>> /\ ~(Len(h) < HistSize)
  <2>1. h # <<>>
    BY <1>3, HistSizeAssumption, EmptySeq
  <2>2. Tail(h) \in Seq(S) /\ Len(Tail(h)) = Len(h) - 1
    BY <2>1, HeadTailProperties
  <2>3. Append(Tail(h), e) \in Seq(S)
        /\ Len(Append(Tail(h), e)) = Len(Tail(h)) + 1
    BY <2>2, AppendProperties
  <2>4. Push(h, e) = Append(Tail(h), e)
    BY <1>3 DEF Push
  <2>5. QED
    BY <2>2, <2>3, <2>4, HistSizeAssumption, LenProperties
<1>4. QED
  BY <1>1, <1>2, <1>3

\* A step keeps the flags and the prompt kind in their types.
LEMMA ControlTypeStep == ControlTypeOK /\ [Next]_vars => ControlTypeOK'
<1> SUFFICES ASSUME ControlTypeOK, [Next]_vars PROVE ControlTypeOK'
  OBVIOUS
<1> USE DEF ControlTypeOK, PromptKinds
<1>1. CASE TimerFire
  BY <1>1 DEF TimerFire, ReadPrompt
<1>2. CASE \E l \in Lines : Type(l)
  BY <1>2 DEF Type
<1>3. CASE SubmitToWaiter
  BY <1>3 DEF SubmitToWaiter, Resolve
<1>4. CASE SubmitCommand
  <2>1. PICK connected \in BOOLEAN : ParseCommand(Effective(input), connected)
    BY <1>4 DEF SubmitCommand
  <2> DEFINE c == Effective(input)
  <2>2. (pendingPush \in BOOLEAN)'
    BY <1>4 DEF SubmitCommand, Resolve
  <2>3. CASE c = CLEAR
    BY <1>4, <2>1, <2>2, <2>3 DEF SubmitCommand, ParseCommand, ReadPrompt
  <2>4. CASE c # CLEAR
    BY <1>4, <2>1, <2>2, <2>4 DEF SubmitCommand, ParseCommand
  <2>5. QED
    BY <2>3, <2>4
<1>5. CASE HistoryPush
  BY <1>5 DEF HistoryPush
<1>6. CASE JobDone
  BY <1>6 DEF JobDone
<1>7. ASSUME NEW p \in Procs, Disable(p) PROVE ControlTypeOK'
  BY <1>7 DEF Disable
<1>8. ASSUME NEW p \in Procs, WaitForUserInput(p) PROVE ControlTypeOK'
  BY <1>8 DEF WaitForUserInput
<1>9. ASSUME NEW p \in Procs, WaitRejected(p) PROVE ControlTypeOK'
  BY <1>9 DEF WaitRejected
<1>10. ASSUME NEW p \in Procs, Finish(p) PROVE ControlTypeOK'
  BY <1>10 DEF Finish
<1>11. CASE UNCHANGED vars
  BY <1>11 DEF vars
<1>12. QED
  BY <1>1, <1>2, <1>3, <1>4, <1>5, <1>6, <1>7, <1>8, <1>9, <1>10, <1>11
     DEF Next

\* A step keeps the counters, the lines and the process states in their
\* types, and the history within its capacity.
LEMMA DataTypeStep == DataTypeOK /\ [Next]_vars => DataTypeOK'
<1> SUFFICES ASSUME DataTypeOK, [Next]_vars PROVE DataTypeOK'
  OBVIOUS
<1> USE DEF DataTypeOK, ProcStates
<1>1. CASE TimerFire
  <2>1. CASE processCount' = 0
    <3>1. PICK onPrompt \in BOOLEAN :
            IF activePrompt # "none" /\ onPrompt
               THEN /\ active' = TRUE
                    /\ input' = <<>>
                    /\ UNCHANGED activePrompt
               ELSE ReadPrompt
      BY <1>1, <2>1 DEF TimerFire
    <3>2. input' = <<>>
      BY <3>1 DEF ReadPrompt
    <3>3. QED
      BY <1>1, <3>2 DEF TimerFire
  <2>2. CASE processCount' # 0
    BY <1>1, <2>2 DEF TimerFire
  <2>3. QED
    BY <2>1, <2>2
<1>2. CASE \E l \in Lines : Type(l)
  BY <1>2 DEF Type
<1>3. CASE SubmitToWaiter
  BY <1>3 DEF SubmitToWaiter, Resolve
<1>4. CASE SubmitCommand
  <2>1. PICK connected \in BOOLEAN : ParseCommand(Effective(input), connected)
    BY <1>4 DEF SubmitCommand
  <2> DEFINE c == Effective(input)
  <2>2. (resolved \in Lines \cup {<<>>})'
    BY <1>4 DEF SubmitCommand, Resolve
  <2>3. CASE c = CLEAR
    BY <1>4, <2>1, <2>2, <2>3 DEF SubmitCommand, ParseCommand, ReadPrompt
  <2>4. CASE c # CLEAR /\ Launches(c, connected)
    BY <1>4, <2>1, <2>2, <2>4 DEF SubmitCommand, ParseCommand
  <2>5. CASE c # CLEAR /\ ~Launches(c, connected)
    BY <1>4, <2>1, <2>2, <2>5 DEF SubmitCommand, ParseCommand, Enable
  <2>6. QED
    BY <2>3, <2>4, <2>5
<1>5. CASE HistoryPush
  <2>1. Trim(input) \in Entries
    BY DEF Entries
  <2>2. Push(history, Trim(input)) \in Seq(Entries)
        /\ Len(Push(history, Trim(input))) <= HistSize
    BY <2>1, PushType
  <2>3. QED
    BY <1>5, <2>2 DEF HistoryPush
<1>6. CASE JobDone
  BY <1>6 DEF JobDone, Enable
<1>7. ASSUME NEW p \in Procs, Disable(p) PROVE DataTypeOK'
  BY <1>7 DEF Disable
<1>8. ASSUME NEW p \in Procs, WaitForUserInput(p) PROVE DataTypeOK'
  BY <1>8 DEF WaitForUserInput, Enable
<1>9. ASSUME NEW p \in Procs, WaitRejected(p) PROVE DataTypeOK'
  BY <1>9 DEF WaitRejected
<1>10. ASSUME NEW p \in Procs, Finish(p) PROVE DataTypeOK'
  BY <1>10 DEF Finish, Enable
<1>11. CASE UNCHANGED vars
  BY <1>11 DEF vars
<1>12. QED
  BY <1>1, <1>2, <1>3, <1>4, <1>5, <1>6, <1>7, <1>8, <1>9, <1>10, <1>11
     DEF Next

\* Every value the shell keeps stays within its type and the history within
\* its capacity: the type invariant TypeOK holds in every reachable state.
THEOREM TypeCorrect == Spec => []TypeOK
<1>1. Init => TypeOK
  <2> SUFFICES ASSUME Init PROVE TypeOK
    OBVIOUS
  <2>1. history \in Seq(Entries) /\ Len(history) <= HistSize
    BY EmptySeq, HistSizeAssumption DEF Init
  <2>2. ControlTypeOK
    BY DEF Init, ControlTypeOK, PromptKinds
  <2>3. DataTypeOK
    BY <2>1 DEF Init, DataTypeOK, ProcStates
  <2>4. QED
    BY <2>2, <2>3 DEF TypeOK
<1>2. TypeOK /\ [Next]_vars => TypeOK'
  BY ControlTypeStep, DataTypeStep DEF TypeOK
<1>3. QED
  BY <1>1, <1>2, PTL DEF Spec

-----------------------------------------------------------------------------
(* The single wait slot of waitForUserInput.                               *)

\* A step keeps the wait slot: the flag set exactly while one process
\* waits, with exactly one listener registered.
LEMMA WaitSlotStep == TypeOK /\ WaitSlot /\ [Next]_vars => WaitSlot'
<1> SUFFICES ASSUME TypeOK, WaitSlot, [Next]_vars PROVE WaitSlot'
  OBVIOUS
<1> USE DEF TypeOK, DataTypeOK, ControlTypeOK, WaitSlot, Waiters
<1>1. CASE TimerFire
  BY <1>1 DEF TimerFire
<1>2. CASE \E l \in Lines : Type(l)
  BY <1>2 DEF Type
<1>3. CASE SubmitToWaiter
  <2>1. Waiters' = {}
    BY <1>3 DEF SubmitToWaiter
  <2>2. QED
    BY <1>3, <2>1 DEF SubmitToWaiter
<1>4. CASE SubmitCommand
  BY <1>4 DEF SubmitCommand
<1>5. CASE HistoryPush
  BY <1>5 DEF HistoryPush
<1>6. CASE JobDone
  BY <1>6 DEF JobDone
<1>7. ASSUME NEW p \in Procs, Disable(p) PROVE WaitSlot'
  <2>1. Waiters' = Waiters
    BY <1>7 DEF Disable
  <2>2. QED
    BY <1>7, <2>1 DEF Disable
<1>8. ASSUME NEW p \in Procs, WaitForUserInput(p) PROVE WaitSlot'
  <2>1. Waiters = {} /\ listeners = 0
    BY <1>8 DEF WaitForUserInput
  <2>2. Waiters' = {p}
    BY <1>8, <2>1 DEF WaitForUserInput
  <2>3. QED
    BY <1>8, <2>1, <2>2 DEF WaitForUserInput, Enable
<1>9. ASSUME NEW p \in Procs, WaitRejected(p) PROVE WaitSlot'
  <2>1. Waiters' = Waiters
    BY <1>9 DEF WaitRejected
  <2>2. QED
    BY <1>9, <2>1 DEF WaitRejected
<1>10. ASSUME NEW p \in Procs, Finish(p) PROVE WaitSlot'
  <2>1. Waiters' = Waiters
    BY <1>10 DEF Finish
  <2>2. QED
    BY <1>10, <2>1 DEF Finish, Enable
<1>11. CASE UNCHANGED vars
  BY <1>11 DEF vars
<1>12. QED
  BY <1>1, <1>2, <1>3, <1>4, <1>5, <1>6, <1>7, <1>8, <1>9, <1>10, <1>11
     DEF Next

\* waitForUserInput is a single slot in every reachable state: a second
\* caller is rejected while one waits, so a submitted line never reaches two
\* waiters and no listener is left registered without a waiter.
THEOREM WaitSlotHolds == Spec => []WaitSlot
<1>1. Init => WaitSlot
  BY DEF Init, WaitSlot, Waiters
<1>2. TypeOK /\ WaitSlot /\ [Next]_vars => WaitSlot'
  BY WaitSlotStep
<1>3. QED
  BY <1>1, <1>2, TypeCorrect, PTL DEF Spec

-----------------------------------------------------------------------------
(* The nesting counter of disable() / enable().                            *)

\* The processes in given states form a finite set with a cardinality.
LEMMA HoldersFinite ==
    ASSUME NEW f, NEW St
    PROVE  LET H == {p \in Procs : f[p] \in St}
           IN  IsFiniteSet(H) /\ Cardinality(H) \in Nat
<1> DEFINE H == {p \in Procs : f[p] \in St}
<1>1. IsFiniteSet(H)
  BY ProcsAssumption, FS_Subset
<1>2. QED
  BY <1>1, FS_CardinalityType

\* A step keeps the count covered: every disable() not yet balanced by an
\* enable() belongs to a process that still holds the shell or to an
\* enable() timeout that has not run yet.
LEMMA CountCoveredStep ==
    TypeOK /\ CountCovered /\ [Next]_vars => CountCovered'
<1> SUFFICES ASSUME TypeOK, CountCovered, [Next]_vars PROVE CountCovered'
  OBVIOUS
<1> DEFINE HS == {"run", "wait", "rejected"}
<1>0. /\ IsFiniteSet(Holders) /\ Cardinality(Holders) \in Nat
      /\ IsFiniteSet(Holders') /\ Cardinality(Holders') \in Nat
  BY HoldersFinite DEF Holders
<1> USE DEF TypeOK, DataTypeOK, CountCovered
<1>1. CASE TimerFire
  BY <1>0, <1>1 DEF TimerFire, Holders
<1>2. CASE \E l \in Lines : Type(l)
  BY <1>2 DEF Type, Holders
<1>3. CASE SubmitToWaiter
  <2>1. Holders' = Holders
    BY <1>3 DEF SubmitToWaiter, Holders
  <2>2. QED
    BY <1>3, <2>1 DEF SubmitToWaiter
<1>4. CASE SubmitCommand
  <2>1. PICK connected \in BOOLEAN : ParseCommand(Effective(input), connected)
    BY <1>4 DEF SubmitCommand
  <2> DEFINE c == Effective(input)
  <2>2. timers' \in {timers, timers + 1}
    <3>1. CASE c = CLEAR
      BY <2>1, <3>1 DEF ParseCommand
    <3>2. CASE c # CLEAR
      BY <2>1, <3>2 DEF ParseCommand, Enable
    <3>3. QED
      BY <3>1, <3>2
  <2>3. Holders' = Holders
    BY <1>4 DEF SubmitCommand, Holders
  <2>4. QED
    BY <1>0, <1>4, <2>2, <2>3 DEF SubmitCommand
<1>5. CASE HistoryPush
  BY <1>5 DEF HistoryPush, Holders
<1>6. CASE JobDone
  BY <1>0, <1>6 DEF JobDone, Enable, Holders
<1>7. ASSUME NEW p \in Procs, Disable(p) PROVE CountCovered'
  <2>1. Holders' = Holders \cup {p} /\ p \notin Holders
    BY <1>7 DEF Disable, Holders
  <2>2. Cardinality(Holders') = Cardinality(Holders) + 1
    BY <1>0, <2>1, FS_AddElement
  <2>3. QED
    BY <1>0, <1>7, <2>2 DEF Disable
<1>8. ASSUME NEW p \in Procs, WaitForUserInput(p) PROVE CountCovered'
  <2>1. Holders' = Holders
    BY <1>8 DEF WaitForUserInput, Holders
  <2>2. QED
    BY <1>0, <1>8, <2>1 DEF WaitForUserInput, Enable
<1>9. ASSUME NEW p \in Procs, WaitRejected(p) PROVE CountCovered'
  <2>1. Holders' = Holders
    BY <1>9 DEF WaitRejected, Holders
  <2>2. QED
    BY <1>9, <2>1 DEF WaitRejected
<1>10. ASSUME NEW p \in Procs, Finish(p) PROVE CountCovered'
  <2>1. Holders' = Holders \ {p} /\ p \in Holders
    BY <1>10 DEF Finish, Holders
  <2>2. Cardinality(Holders') = Cardinality(Holders) - 1
    BY <1>0, <2>1, FS_RemoveElement
  <2>3. QED
    BY <1>0, <1>10, <2>2 DEF Finish, Enable
<1>11. CASE UNCHANGED vars
  BY <1>11 DEF vars, Holders
<1>12. QED
  BY <1>1, <1>2, <1>3, <1>4, <1>5, <1>6, <1>7, <1>8, <1>9, <1>10, <1>11
     DEF Next

\* The disable() nesting counter can always be brought back to zero by the
\* enable() calls still to come, in every reachable state and for every
\* finite set of processes.
THEOREM CountCoveredHolds == Spec => []CountCovered
<1>1. Init => CountCovered
  <2> SUFFICES ASSUME Init PROVE CountCovered
    OBVIOUS
  <2>1. Cardinality(Holders) \in Nat
    BY HoldersFinite DEF Holders
  <2>2. QED
    BY <2>1 DEF Init, CountCovered
<1>2. TypeOK /\ CountCovered /\ [Next]_vars => CountCovered'
  BY CountCoveredStep
<1>3. QED
  BY <1>1, <1>2, TypeCorrect, PTL DEF Spec

-----------------------------------------------------------------------------
(* The waiting-input prompt and _parseCommand.                             *)

\* The waiting-input prompt is on the screen only while a process waits in
\* waitForUserInput: prompt() picks WAITING_INPUT_PROMPT_PREFIX only when
\* the flag is set, and the one handler that clears it also settles the
\* read.
WaitPromptWaiting ==
    activePrompt = "wait" => waitingForInput

\* Every step keeps the waiting-input prompt tied to the flag.
LEMMA WaitPromptStep ==
    WaitPromptWaiting /\ [Next]_vars => WaitPromptWaiting'
<1> SUFFICES ASSUME WaitPromptWaiting, [Next]_vars PROVE WaitPromptWaiting'
  OBVIOUS
<1>1. CASE TimerFire
  BY <1>1 DEF TimerFire, ReadPrompt, WaitPromptWaiting
<1>2. CASE \E l \in Lines : Type(l)
  BY <1>2 DEF Type, WaitPromptWaiting
<1>3. CASE SubmitToWaiter
  BY <1>3 DEF SubmitToWaiter, WaitPromptWaiting
<1>4. CASE SubmitCommand
  <2>1. PICK connected \in BOOLEAN : ParseCommand(Effective(input), connected)
    BY <1>4 DEF SubmitCommand
  <2>2. ~waitingForInput /\ waitingForInput' = waitingForInput
    BY <1>4 DEF SubmitCommand
  <2>3. QED
    BY <2>1, <2>2 DEF ParseCommand, ReadPrompt, WaitPromptWaiting
<1>5. CASE HistoryPush
  BY <1>5 DEF HistoryPush, WaitPromptWaiting
<1>6. CASE JobDone
  BY <1>6 DEF JobDone, WaitPromptWaiting
<1>7. ASSUME NEW p \in Procs, Disable(p) PROVE WaitPromptWaiting'
  BY <1>7 DEF Disable, WaitPromptWaiting
<1>8. ASSUME NEW p \in Procs, WaitForUserInput(p) PROVE WaitPromptWaiting'
  BY <1>8 DEF WaitForUserInput, WaitPromptWaiting
<1>9. ASSUME NEW p \in Procs, WaitRejected(p) PROVE WaitPromptWaiting'
  BY <1>9 DEF WaitRejected, WaitPromptWaiting
<1>10. ASSUME NEW p \in Procs, Finish(p) PROVE WaitPromptWaiting'
  BY <1>10 DEF Finish, WaitPromptWaiting
<1>11. CASE UNCHANGED vars
  BY <1>11 DEF vars, WaitPromptWaiting
<1>12. QED
  BY <1>1, <1>2, <1>3, <1>4, <1>5, <1>6, <1>7, <1>8, <1>9, <1>10, <1>11
     DEF Next

\* No line typed at the waiting-input prompt is ever run as a command by
\* _parseCommand, in every behaviour and for every set of processes: the
\* action property AnswerNeverParsed, from the invariant WaitPromptWaiting.
THEOREM AnswerNeverParsedHolds == Spec => AnswerNeverParsed
<1>1. Init => WaitPromptWaiting
  BY DEF Init, WaitPromptWaiting
<1>2. WaitPromptWaiting => (SubmitCommand => activePrompt # "wait")
  BY DEF SubmitCommand, WaitPromptWaiting
<1>3. QED
  BY <1>1, <1>2, WaitPromptStep, PTL DEF Spec, AnswerNeverParsed

-----------------------------------------------------------------------------
(* Shell implements the single-slot channel WaitChannel.                   *)

\* Under the wait-slot invariant, the processes in the slot are exactly
\* those whose waitForUserInput is pending, and the slot is empty exactly
\* when the flag is clear.
LEMMA SlotIsFlag ==
    ASSUME TypeOK, WaitSlot
    PROVE  (Waiters = {}) <=> ~waitingForInput
BY DEF WaitSlot, TypeOK, ControlTypeOK

\* Every step of Shell is a step of WaitChannel or leaves its state alone.
LEMMA WaitChannelStep ==
    TypeOK /\ WaitSlot /\ [Next]_vars => [WC!Next]_WC!vars
<1> SUFFICES ASSUME TypeOK, WaitSlot, [Next]_vars PROVE [WC!Next]_WC!vars
  OBVIOUS
<1>0. (Waiters = {}) <=> ~waitingForInput
  BY SlotIsFlag
<1> USE DEF TypeOK, DataTypeOK, ControlTypeOK
<1>1. CASE TimerFire
  <2>1. pc' = pc /\ Waiters' = Waiters
    BY <1>1 DEF TimerFire, Waiters
  <2>2. CASE active' = active
    BY <2>1, <2>2 DEF WC!vars
  <2>3. CASE active' # active
    <3>1. active' = TRUE
      BY <1>1, <2>3 DEF TimerFire, ReadPrompt
    <3>2. WC!Activate
      BY <2>1, <2>3, <3>1 DEF WC!Activate
    <3>3. QED
      BY <3>2 DEF WC!Next
  <2>4. QED
    BY <2>2, <2>3
<1>2. CASE \E l \in Lines : Type(l)
  BY <1>2 DEF Type, WC!vars, Waiters
<1>3. CASE SubmitToWaiter
  <2>1. Waiters # {} /\ active /\ ~active'
    BY <1>0, <1>3 DEF SubmitToWaiter
  <2>2. pc' = [q \in Procs |-> IF q \in Waiters THEN "run" ELSE pc[q]]
    BY <1>3 DEF SubmitToWaiter, Waiters
  <2>3. Waiters' = {}
    BY <1>3 DEF SubmitToWaiter, Waiters
  <2>4. WC!Fulfil
    BY <2>1, <2>2, <2>3 DEF WC!Fulfil
  <2>5. QED
    BY <2>4 DEF WC!Next
<1>4. CASE SubmitCommand
  <2>1. PICK connected \in BOOLEAN : ParseCommand(Effective(input), connected)
    BY <1>4 DEF SubmitCommand
  <2> DEFINE c == Effective(input)
  <2>2. pc' = pc /\ Waiters' = Waiters /\ Waiters = {} /\ active
    BY <1>0, <1>4 DEF SubmitCommand, Waiters
  <2>3. CASE c = CLEAR
    <3>1. active' = active
      BY <2>1, <2>2, <2>3 DEF ParseCommand, ReadPrompt
    <3>2. QED
      BY <2>2, <3>1 DEF WC!vars
  <2>4. CASE c # CLEAR
    <3>1. active' = FALSE
      BY <2>1, <2>4 DEF ParseCommand
    <3>2. WC!Dispatch
      BY <2>2, <3>1 DEF WC!Dispatch
    <3>3. QED
      BY <3>2 DEF WC!Next
  <2>5. QED
    BY <2>3, <2>4
<1>5. CASE HistoryPush
  BY <1>5 DEF HistoryPush, WC!vars, Waiters
<1>6. CASE JobDone
  BY <1>6 DEF JobDone, WC!vars, Waiters
<1>7. ASSUME NEW p \in Procs, Disable(p) PROVE [WC!Next]_WC!vars
  <2>1. Waiters' = Waiters
    BY <1>7 DEF Disable, Waiters
  <2>2. WC!Start(p)
    BY <1>7, <2>1 DEF Disable, WC!Start
  <2>3. QED
    BY <2>2 DEF WC!Next
<1>8. ASSUME NEW p \in Procs, WaitForUserInput(p) PROVE [WC!Next]_WC!vars
  <2>1. Waiters = {}
    BY <1>0, <1>8 DEF WaitForUserInput
  <2>2. Waiters' = {p}
    BY <1>8, <2>1 DEF WaitForUserInput, Waiters
  <2>3. WC!Take(p)
    BY <1>8, <2>1, <2>2 DEF WaitForUserInput, WC!Take
  <2>4. QED
    BY <2>3 DEF WC!Next
<1>9. ASSUME NEW p \in Procs, WaitRejected(p) PROVE [WC!Next]_WC!vars
  <2>1. Waiters # {} /\ Waiters' = Waiters
    BY <1>0, <1>9 DEF WaitRejected, Waiters
  <2>2. WC!Reject(p)
    BY <1>9, <2>1 DEF WaitRejected, WC!Reject
  <2>3. QED
    BY <2>2 DEF WC!Next
<1>10. ASSUME NEW p \in Procs, Finish(p) PROVE [WC!Next]_WC!vars
  <2>1. Waiters' = Waiters
    BY <1>10 DEF Finish, Waiters
  <2>2. WC!End(p)
    BY <1>10, <2>1 DEF Finish, WC!End
  <2>3. QED
    BY <2>2 DEF WC!Next
<1>11. CASE UNCHANGED vars
  BY <1>11 DEF vars, WC!vars, Waiters
<1>12. QED
  BY <1>1, <1>2, <1>3, <1>4, <1>5, <1>6, <1>7, <1>8, <1>9, <1>10, <1>11
     DEF Next

\* PgShell implements the single-slot wait channel of the specification:
\* a submitted line goes to the waiting program exactly when one waits, a
\* second waitForUserInput is refused, and disable() / enable() are the
\* programs' taking and giving back of the shell.
THEOREM ShellImplementsWaitChannel == Spec => WaitChannelRefined
<1>1. Init => WC!Init
  BY DEF Init, WC!Init, Waiters
<1>2. TypeOK /\ WaitSlot /\ [Next]_vars => [WC!Next]_WC!vars
  BY WaitChannelStep
<1>3. QED
  BY <1>1, <1>2, TypeCorrect, WaitSlotHolds, PTL DEF Spec, WaitChannelRefined, WC!Spec

=============================================================================
