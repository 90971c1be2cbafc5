----------------------- MODULE ShellPkgFailureProofs -----------------------
(***************************************************************************)
(* A rejected PgPkg.loadPkg breaks only the progress of the shell: with   *)
(* load failures, PgShell keeps every safety property proved of it in     *)
(* ShellProofs and still implements the single-slot channel WaitChannel.  *)
(* The one new fact needed is that the package blocks in flight are among *)
(* the jobs, so that a failure never takes the job count below zero.      *)
(***************************************************************************)
EXTENDS ShellPkgFailure, ShellProofs

\* The invariants of Shell, and the package blocks counted among the jobs.
FInv ==
    /\ TypeOK
    /\ WaitSlot
    /\ CountCovered
    /\ pkgJobs \in Nat
    /\ pkgJobs <= jobs

\* _parseCommand starts at most one job.
LEMMA SubmitJobs ==
    ASSUME TypeOK, SubmitCommand
    PROVE  jobs' \in {jobs, jobs + 1}
<1>1. PICK connected \in BOOLEAN : ParseCommand(Effective(input), connected)
  BY DEF SubmitCommand
<1>2. QED
  BY <1>1 DEF ParseCommand, ReadPrompt, Enable

\* A step of Shell keeps its invariants.
LEMMA ShellStepKeeps ==
    ASSUME TypeOK, WaitSlot, CountCovered, Next
    PROVE  TypeOK' /\ WaitSlot' /\ CountCovered'
<1>1. TypeOK'
  BY ControlTypeStep, DataTypeStep DEF TypeOK
<1>2. WaitSlot'
  BY WaitSlotStep
<1>3. CountCovered'
  BY CountCoveredStep
<1>4. QED
  BY <1>1, <1>2, <1>3

\* The Shell steps of FNext that neither start nor end a job.
NoJobStep ==
    \/ TimerFire
    \/ \E l \in Lines : Type(l)
    \/ SubmitToWaiter
    \/ HistoryPush
    \/ \E p \in Procs : Disable(p) \/ WaitForUserInput(p)
                        \/ WaitRejected(p) \/ Finish(p)

\* They leave the job count alone.
LEMMA NoJobStepJobs ==
    ASSUME NoJobStep PROVE jobs' = jobs
BY DEF NoJobStep, TimerFire, Type, SubmitToWaiter, HistoryPush, Disable,
       WaitForUserInput, WaitRejected, Finish

\* Every step of ShellPkgFailure keeps FInv.
LEMMA FInvStep == FInv /\ [FNext]_fvars => FInv'
<1> SUFFICES ASSUME FInv, [FNext]_fvars PROVE FInv'
  OBVIOUS
<1> USE DEF FInv
<1>1. CASE FSubmitCommand
  <2>1. TypeOK' /\ WaitSlot' /\ CountCovered'
    BY <1>1, ShellStepKeeps DEF FSubmitCommand, Next
  <2>2. jobs' \in {jobs, jobs + 1} /\ jobs \in Nat
    BY <1>1, SubmitJobs DEF FSubmitCommand, TypeOK, DataTypeOK
  <2>3. pkgJobs' \in Nat /\ pkgJobs' <= jobs'
    BY <1>1, <2>2 DEF FSubmitCommand
  <2>4. QED
    BY <2>1, <2>3
<1>2. CASE FJobDone
  <2>1. TypeOK' /\ WaitSlot' /\ CountCovered'
    BY <1>2, ShellStepKeeps DEF FJobDone, Next
  <2>2. QED
    BY <1>2, <2>1 DEF FJobDone
<1>3. CASE PkgLoadFails
  <2>1. jobs \in Nat /\ jobs' = jobs - 1 /\ jobs > 0
    BY <1>3 DEF PkgLoadFails, TypeOK, DataTypeOK
  <2>2. TypeOK'
    BY <1>3, <2>1 DEF PkgLoadFails, TypeOK, ControlTypeOK, DataTypeOK
  <2>3. WaitSlot' /\ CountCovered'
    BY <1>3 DEF PkgLoadFails, WaitSlot, CountCovered, Waiters, Holders
  <2>4. QED
    BY <1>3, <2>1, <2>2, <2>3 DEF PkgLoadFails
<1>4. CASE NoJobStep /\ UNCHANGED pkgJobs
  <2>1. TypeOK' /\ WaitSlot' /\ CountCovered'
    BY <1>4, ShellStepKeeps DEF NoJobStep, Next
  <2>2. QED
    BY <1>4, <2>1, NoJobStepJobs
<1>5. CASE UNCHANGED fvars
  <2>1. TypeOK' /\ WaitSlot' /\ CountCovered'
    BY <1>5, ShellStepKeeps DEF fvars, vars,
       TypeOK, ControlTypeOK, DataTypeOK, WaitSlot, CountCovered,
       Waiters, Holders
  <2>2. QED
    BY <1>5, <2>1 DEF fvars, vars
<1>6. QED
  BY <1>1, <1>2, <1>3, <1>4, <1>5 DEF FNext, NoJobStep

\* The initial state satisfies FInv.
LEMMA FInitInv == FInit => FInv
<1> SUFFICES ASSUME FInit PROVE FInv
  OBVIOUS
<1>1. history \in Seq(Entries) /\ Len(history) <= HistSize
  BY EmptySeq, HistSizeAssumption DEF FInit, Init
<1>2. TypeOK
  BY <1>1 DEF FInit, Init, TypeOK, ControlTypeOK, DataTypeOK, PromptKinds,
     ProcStates
<1>3. WaitSlot
  BY DEF FInit, Init, WaitSlot, Waiters
<1>4. CountCovered
  <2>1. Cardinality(Holders) \in Nat
    BY HoldersFinite DEF Holders
  <2>2. QED
    BY <2>1 DEF FInit, Init, CountCovered
<1>5. pkgJobs \in Nat /\ pkgJobs <= jobs
  BY DEF FInit, Init
<1>6. QED
  BY <1>2, <1>3, <1>4, <1>5 DEF FInv

\* With the failure of a package load, every reachable state is still well
\* typed, waitForUserInput still a single slot and the disable() count
\* still covered by the holders and the pending enable() timeouts: the
\* unhandled rejection of the solana and spl-token blocks is a liveness
\* defect only.
THEOREM PkgFailureKeepsSafety == FSpec => [](TypeOK /\ WaitSlot /\ CountCovered)
<1>1. FSpec => []FInv
  BY FInitInv, FInvStep, PTL DEF FSpec
<1>2. QED
  BY <1>1, PTL DEF FInv

\* Every step of ShellPkgFailure is a step of WaitChannel or leaves its
\* state alone; a failed load touches none of active, the wait slot or
\* the processes.
LEMMA FWaitChannelStep == FInv /\ [FNext]_fvars => [WC!Next]_WC!vars
<1> SUFFICES ASSUME FInv, [FNext]_fvars PROVE [WC!Next]_WC!vars
  OBVIOUS
<1>1. CASE PkgLoadFails
  BY <1>1 DEF PkgLoadFails, WC!vars, Waiters
<1>2. CASE UNCHANGED fvars
  BY <1>2 DEF fvars, vars, WC!vars, Waiters
<1>3. CASE Next
  BY <1>3, WaitChannelStep DEF FInv
<1>4. QED
  BY <1>1, <1>2, <1>3 DEF FNext, FSubmitCommand, FJobDone, Next

\* With the failure of a package load, PgShell still implements the
\* single-slot wait channel: WaitChannelRefined holds of ShellPkgFailure.
THEOREM PkgFailureImplementsWaitChannel == FSpec => WaitChannelRefined
<1>1. FInit => WC!Init
  BY DEF FInit, Init, WC!Init, Waiters
<1>2. FSpec => []FInv
  BY FInitInv, FInvStep, PTL DEF FSpec
<1>3. QED
  BY <1>1, <1>2, FWaitChannelStep, PTL DEF FSpec, WaitChannelRefined, WC!Spec
====
