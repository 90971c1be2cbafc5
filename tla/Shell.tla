------------------------------- MODULE Shell -------------------------------
(***************************************************************************)
(* The prompt / read / dispatch life cycle of the terminal shell PgShell  *)
(* (src/unnamed/part_004).  One step of this specification is one task of *)
(* the browser's event loop: a keystroke handled by handleTermData, the   *)
(* firing of an enable() timeout, the end of a command's asynchronous     *)
(* work, or a step of an outside process that disables the shell, asks    *)
(* for input with waitForUserInput and enables the shell again.  The      *)
(* continuation of prompt() that runs after its read promise resolves is  *)
(* a microtask: it runs before any other task (guard NoMicrotask).        *)
(*                                                                         *)
(* Lines are sequences of symbols: a symbol is a whole word or the space  *)
(* Sp, so the word splitting of _parseCommand is kept while spelling is   *)
(* abstracted away.  Line editing itself is the business of LineEditor.   *)
(***************************************************************************)
EXTENDS Naturals, Sequences, FiniteSets

CONSTANTS
    Lines,      \* the (complete) lines the user may submit
    Procs,      \* outside processes that call disable() / enable()
    HistSize    \* capacity of the history (ShellOptions.historySize)

Sp == " "

\* The command names of PgCommand (src/unnamed/part_003).
BUILD == "build"
CLEAR == "clear"
CONNECT == "connect"
DEPLOY == "deploy"
HELP == "help"
SOLANA == "solana"
SPL_TOKEN == "spl-token"
RUN_LAST_CMD == "!!"

Pkgs == {SOLANA, SPL_TOKEN}

ASSUME LinesAssumption == Lines \subseteq Seq(STRING)
ASSUME HistSizeAssumption == HistSize \in Nat \ {0}
ASSUME ProcsAssumption == IsFiniteSet(Procs)

VARIABLES
    active,          \* _active
    waitingForInput, \* _waitingForInput
    processCount,    \* _processCount
    timers,          \* enable() timeouts scheduled and not yet run
    activePrompt,    \* _activePrompt: "none", or the prefix it was read with
    input,           \* the tty's current input line
    history,         \* the entries of _history, oldest first
    pendingPush,     \* prompt()'s continuation is queued as a microtask
    resolved,        \* the value the last line read resolved with
    jobs,            \* asynchronous command work that will call enable()
    loadedPkgs,      \* _loadedPkgs
    listeners,       \* TERMINAL_WAIT_FOR_INPUT listeners on document
    pc               \* where each outside process is

vars == <<active, waitingForInput, processCount, timers, activePrompt, input,
          history, pendingPush, resolved, jobs, loadedPkgs, listeners, pc>>

PromptKinds == {"none", "cmd", "wait"}
ProcStates == {"idle", "run", "wait", "rejected", "done"}

-----------------------------------------------------------------------------
(* Strings.                                                                *)

\* String.prototype.trim: drop the leading and trailing spaces.
Trim(l) ==
    LET keep == {i \in 1..Len(l) : l[i] # Sp}
        lo == CHOOSE i \in keep : \A j \in keep : i <= j
        hi == CHOOSE i \in keep : \A j \in keep : j <= i
    IN  IF keep = {} THEN <<>> ELSE SubSeq(l, lo, hi)

\* cmd.trim().split(" ").at(0): the symbols before the first space.
CmdName(l) ==
    LET t == Trim(l)
        sps == {i \in 1..Len(t) : t[i] = Sp}
        first == CHOOSE i \in sps : \A j \in sps : i <= j
    IN  IF sps = {} THEN t ELSE SubSeq(t, 1, first - 1)

\* The PgCommand constant a command name equals, "" for the empty name
\* and "unknown" for any other.
Command(l) ==
    LET n == CmdName(l) IN
    IF n = <<>> THEN ""
    ELSE IF Len(n) = 1 /\ n[1] \in {BUILD, CLEAR, CONNECT, DEPLOY, HELP,
                                     SOLANA, SPL_TOKEN, RUN_LAST_CMD}
         THEN n[1] ELSE "unknown"

\* Mutant of Push: the eviction test is off by one.
PushLate(h, l) ==
    IF l = <<>> THEN h
    ELSE IF Len(h) <= HistSize THEN Append(h, l) ELSE Append(Tail(h), l)

\* PgShellHistory.push: empty lines are skipped, the oldest entry is
\* evicted once the capacity is exceeded.
Push(h, l) ==
    IF l = <<>> THEN h
    ELSE IF Len(h) < HistSize THEN Append(h, l) ELSE Append(Tail(h), l)

\* The command _parseCommand really runs for a line: "!!" is replaced by the
\* last history entry, and when that entry is itself "!!" the recursion
\* never ends (the call stack overflows).
Effective(l) ==
    IF Command(l) # RUN_LAST_CMD THEN Command(l)
    ELSE IF history = <<>> THEN "noprevious"
    ELSE IF Command(history[Len(history)]) = RUN_LAST_CMD THEN "overflow"
    ELSE Command(history[Len(history)])

-----------------------------------------------------------------------------
Init ==
    /\ active = FALSE
    /\ waitingForInput = FALSE
    /\ processCount = 0
    /\ timers = 1          \* the terminal's start-up enable()
    /\ activePrompt = "none"
    /\ input = <<>>
    /\ history = <<>>
    /\ pendingPush = FALSE
    /\ resolved = <<>>
    /\ jobs = 0
    /\ loadedPkgs = [k \in Pkgs |-> FALSE]
    /\ listeners = 0
    /\ pc = [p \in Procs |-> "idle"]

\* No task runs while a microtask is queued.
NoMicrotask == pendingPush = FALSE

\* enable(): schedule the 10 ms timeout.
Enable == timers' = timers + 1

\* prompt() when no read is outstanding: this._pgTty.read(promptText) with
\* the prefix chosen by _waitingForInput starts an empty line, then
\* this._active = true.
ReadPrompt ==
    /\ activePrompt' = IF waitingForInput THEN "wait" ELSE "cmd"
    /\ active' = TRUE
    /\ input' = <<>>

\* The part of handleReadComplete that settles the outstanding read: its
\* resolver gets the input and prompt()'s continuation is queued.
Resolve ==
    /\ IF activePrompt # "none"
          THEN resolved' = input /\ pendingPush' = TRUE
          ELSE UNCHANGED <<resolved, pendingPush>>

\* Whether the dispatched command hands the shell to asynchronous work that
\* calls enable() when it ends, instead of calling enable() itself.  With
\* no wallet, PgWallet.checkIsPgConnected() is false and the command is
\* skipped, the prompt still being released.
Launches(c, connected) ==
    \/ c \in {BUILD, CONNECT}
    \/ connected /\ c \in {DEPLOY, SOLANA, SPL_TOKEN}

\* Mutant of ParseCommand: the help case forgets this.enable().
ParseCommandHelpNoEnable(c, connected) ==
    \/ /\ c = CLEAR
       /\ ReadPrompt
       /\ UNCHANGED <<timers, jobs, loadedPkgs>>
    \/ /\ c # CLEAR
       /\ active' = FALSE
       /\ activePrompt' = "none"
       /\ UNCHANGED input
       /\ IF Launches(c, connected)
             THEN /\ jobs' = jobs + 1
                  /\ loadedPkgs' = IF c \in Pkgs
                                      THEN [loadedPkgs EXCEPT ![c] = TRUE]
                                      ELSE loadedPkgs
                  /\ UNCHANGED timers
          ELSE IF c \in {"overflow", HELP}
             THEN UNCHANGED <<timers, jobs, loadedPkgs>>
          ELSE /\ Enable
               /\ UNCHANGED <<jobs, loadedPkgs>>

\* _parseCommand for the command c the line resolves to.
ParseCommand(c, connected) ==
    \/ /\ c = CLEAR                     \* clearTty(); clear(); prompt()
       /\ ReadPrompt
       /\ UNCHANGED <<timers, jobs, loadedPkgs>>
    \/ /\ c # CLEAR
       /\ active' = FALSE
       /\ activePrompt' = "none"
       /\ UNCHANGED input
       /\ IF Launches(c, connected)
             THEN /\ jobs' = jobs + 1
                  /\ loadedPkgs' = IF c \in Pkgs
                                      THEN [loadedPkgs EXCEPT ![c] = TRUE]
                                      ELSE loadedPkgs
                  /\ UNCHANGED timers
          ELSE IF c = "overflow"        \* RangeError: nothing more runs
             THEN UNCHANGED <<timers, jobs, loadedPkgs>>
          ELSE /\ Enable                \* help, "not found", empty line
               /\ UNCHANGED <<jobs, loadedPkgs>>

-----------------------------------------------------------------------------
(* Actions.                                                                *)

\* Mutant of TimerFire: the timeout forgets _decrementProcessCount.
TimerFireNoDecrement ==
    /\ NoMicrotask
    /\ timers > 0
    /\ timers' = timers - 1
    /\ processCount' = processCount
    /\ IF processCount' = 0
          THEN \E onPrompt \in BOOLEAN :
                 IF activePrompt # "none" /\ onPrompt
                    THEN /\ active' = TRUE
                         /\ input' = <<>>
                         /\ UNCHANGED activePrompt
                    ELSE ReadPrompt
          ELSE UNCHANGED <<active, activePrompt, input>>
    /\ UNCHANGED <<waitingForInput, history, pendingPush, resolved, jobs,
                   loadedPkgs, listeners, pc>>

\* The enable() timeout fires: _decrementProcessCount, and when the count
\* is zero, activate, prompt() and read("").  prompt() keeps an outstanding
\* read when getInputStartsWithPrompt() holds.
TimerFire ==
    /\ NoMicrotask
    /\ timers > 0
    /\ timers' = timers - 1
    /\ processCount' = IF processCount > 0 THEN processCount - 1 ELSE 0
    /\ IF processCount' = 0
          THEN \E onPrompt \in BOOLEAN :
                 IF activePrompt # "none" /\ onPrompt
                    THEN /\ active' = TRUE        \* read("") empties the line
                         /\ input' = <<>>
                         /\ UNCHANGED activePrompt
                    ELSE ReadPrompt
          ELSE UNCHANGED <<active, activePrompt, input>>
    /\ UNCHANGED <<waitingForInput, history, pendingPush, resolved, jobs,
                   loadedPkgs, listeners, pc>>

\* The user edits the line (handleTermData while the shell is active).
Type(l) ==
    /\ NoMicrotask
    /\ active
    /\ input' = l
    /\ UNCHANGED <<active, waitingForInput, processCount, timers,
                   activePrompt, history, pendingPush, resolved, jobs,
                   loadedPkgs, listeners, pc>>

\* Mutant of SubmitToWaiter: the listener forgets
\* `this._waitingForInput = false`.
SubmitToWaiterKeepsFlag ==
    /\ NoMicrotask
    /\ active
    /\ waitingForInput
    /\ Resolve
    /\ activePrompt' = "none"
    /\ active' = FALSE
    /\ listeners' = 0
    /\ pc' = [p \in Procs |-> IF pc[p] = "wait" THEN "run" ELSE pc[p]]
    /\ UNCHANGED <<waitingForInput, processCount, timers, input, history,
                   jobs, loadedPkgs>>

\* Mutant of SubmitToWaiter: the read is settled but _activePrompt is
\* left as it was.
SubmitToWaiterKeepsPrompt ==
    /\ NoMicrotask
    /\ active
    /\ waitingForInput
    /\ Resolve
    /\ active' = FALSE
    /\ waitingForInput' = FALSE
    /\ listeners' = 0
    /\ pc' = [p \in Procs |-> IF pc[p] = "wait" THEN "run" ELSE pc[p]]
    /\ UNCHANGED <<activePrompt, processCount, timers, input, history, jobs,
                   loadedPkgs>>

\* ENTER on a complete line while waitForUserInput is pending:
\* handleReadComplete dispatches TERMINAL_WAIT_FOR_INPUT and every listener
\* (handleInput) clears _waitingForInput, removes itself and resolves.
SubmitToWaiter ==
    /\ NoMicrotask
    /\ active
    /\ waitingForInput
    /\ Resolve
    /\ activePrompt' = "none"
    /\ active' = FALSE
    /\ waitingForInput' = FALSE
    /\ listeners' = 0
    /\ pc' = [p \in Procs |-> IF pc[p] = "wait" THEN "run" ELSE pc[p]]
    /\ UNCHANGED <<processCount, timers, input, history, jobs, loadedPkgs>>

\* ENTER on a complete line otherwise: handleReadComplete then
\* _parseCommand.  The wallet may or may not be connected.
SubmitCommand ==
    /\ NoMicrotask
    /\ active
    /\ ~waitingForInput
    /\ Resolve
    /\ \E connected \in BOOLEAN : ParseCommand(Effective(input), connected)
    /\ UNCHANGED <<waitingForInput, processCount, history, listeners, pc>>

\* Mutant of HistoryPush: the input is pushed without .trim().
HistoryPushUntrimmed ==
    /\ pendingPush
    /\ history' = Push(history, input)
    /\ pendingPush' = FALSE
    /\ UNCHANGED <<active, waitingForInput, processCount, timers,
                   activePrompt, input, resolved, jobs, loadedPkgs,
                   listeners, pc>>

\* The microtask after `await this._activePrompt.promise` in prompt():
\* push the trimmed current input of the tty into the history.
HistoryPush ==
    /\ pendingPush
    /\ history' = Push(history, Trim(input))
    /\ pendingPush' = FALSE
    /\ UNCHANGED <<active, waitingForInput, processCount, timers,
                   activePrompt, input, resolved, jobs, loadedPkgs,
                   listeners, pc>>

\* Asynchronous command work ends and calls enable().
JobDone ==
    /\ NoMicrotask
    /\ jobs > 0
    /\ jobs' = jobs - 1
    /\ Enable
    /\ UNCHANGED <<active, waitingForInput, processCount, activePrompt,
                   input, history, pendingPush, resolved, loadedPkgs,
                   listeners, pc>>

\* An outside process calls disable().
Disable(p) ==
    /\ NoMicrotask
    /\ pc[p] = "idle"
    /\ pc' = [pc EXCEPT ![p] = "run"]
    /\ processCount' = processCount + 1
    /\ active' = FALSE
    /\ UNCHANGED <<waitingForInput, timers, activePrompt, input, history,
                   pendingPush, resolved, jobs, loadedPkgs, listeners>>

\* Mutant of WaitForUserInput: a pending wait is not rejected.
WaitForUserInputNoReject(p) ==
    /\ NoMicrotask
    /\ pc[p] = "run"
    /\ waitingForInput' = TRUE
    /\ Enable
    /\ listeners' = listeners + 1
    /\ pc' = [pc EXCEPT ![p] = "wait"]
    /\ UNCHANGED <<active, processCount, activePrompt, input, history,
                   pendingPush, resolved, jobs, loadedPkgs>>

\* waitForUserInput(msg) when no wait is pending: set the flag, enable()
\* and register the listener.
WaitForUserInput(p) ==
    /\ NoMicrotask
    /\ pc[p] = "run"
    /\ ~waitingForInput
    /\ waitingForInput' = TRUE
    /\ Enable
    /\ listeners' = listeners + 1
    /\ pc' = [pc EXCEPT ![p] = "wait"]
    /\ UNCHANGED <<active, processCount, activePrompt, input, history,
                   pendingPush, resolved, jobs, loadedPkgs>>

\* waitForUserInput(msg) while a wait is pending is rejected at once.
WaitRejected(p) ==
    /\ NoMicrotask
    /\ pc[p] = "run"
    /\ waitingForInput
    /\ pc' = [pc EXCEPT ![p] = "rejected"]
    /\ UNCHANGED <<active, waitingForInput, processCount, timers,
                   activePrompt, input, history, pendingPush, resolved, jobs,
                   loadedPkgs, listeners>>

\* The outside process ends and calls enable().
Finish(p) ==
    /\ NoMicrotask
    /\ pc[p] \in {"run", "rejected"}
    /\ pc' = [pc EXCEPT ![p] = "done"]
    /\ Enable
    /\ UNCHANGED <<active, waitingForInput, processCount, activePrompt,
                   input, history, pendingPush, resolved, jobs, loadedPkgs,
                   listeners>>

Next ==
    \/ TimerFire
    \/ \E l \in Lines : Type(l)
    \/ SubmitToWaiter
    \/ SubmitCommand
    \/ HistoryPush
    \/ JobDone
    \/ \E p \in Procs : Disable(p) \/ WaitForUserInput(p)
                        \/ WaitRejected(p) \/ Finish(p)

\* Timers, microtasks and the work started by commands and processes always
\* run to their end; the user and the start of a process are not obliged.
Fairness ==
    /\ WF_vars(TimerFire)
    /\ WF_vars(HistoryPush)
    /\ WF_vars(JobDone)
    /\ \A p \in Procs : WF_vars(Finish(p))

Spec == Init /\ [][Next]_vars

FairSpec == Spec /\ Fairness

-----------------------------------------------------------------------------
(* Properties.                                                             *)

Holders == {p \in Procs : pc[p] \in {"run", "wait", "rejected"}}
Waiters == {p \in Procs : pc[p] = "wait"}

\* What a history entry can be: a trimmed line.
Entries == {Trim(l) : l \in Lines \cup {<<>>}}

\* The type of the flags of PgShell and of the kind of its outstanding read.
ControlTypeOK ==
    /\ active \in BOOLEAN
    /\ waitingForInput \in BOOLEAN
    /\ pendingPush \in BOOLEAN
    /\ activePrompt \in PromptKinds
    /\ loadedPkgs \in [Pkgs -> BOOLEAN]

\* The type of the counters, the lines, the history and the process states.
DataTypeOK ==
    /\ processCount \in Nat
    /\ timers \in Nat
    /\ jobs \in Nat
    /\ listeners \in Nat
    /\ input \in Lines \cup {<<>>}
    /\ resolved \in Lines \cup {<<>>}
    /\ history \in Seq(Entries)
    /\ Len(history) <= HistSize
    /\ pc \in [Procs -> ProcStates]

\* Every variable keeps its type; the history never outgrows its capacity.
TypeOK == ControlTypeOK /\ DataTypeOK

\* waitForUserInput is a single slot: the flag is set exactly while one
\* process waits, and exactly one TERMINAL_WAIT_FOR_INPUT listener is then
\* registered, so a submitted line is handed to one waiter only.
WaitSlot ==
    /\ waitingForInput <=> Waiters # {}
    /\ \A p, q \in Waiters : p = q
    /\ listeners = IF waitingForInput THEN 1 ELSE 0

\* The nesting counter never exceeds what the processes still holding the
\* shell and the enable() timeouts not yet run can bring back to zero, so
\* the shell is never locked out for good.
CountCovered ==
    processCount <= Cardinality(Holders) + timers

\* While an outside process holds the shell (between its disable() and its
\* enable()) the shell accepts no command: it is active only to answer
\* that process's waitForUserInput.
ShellHeldExclusive ==
    active => (waitingForInput \/ Holders = {})

\* The entry prompt()'s continuation pushes into the history is the
\* trimmed line the read resolved with.
HistoryRecordsSubmitted ==
    [][pendingPush /\ ~pendingPush' =>
         history' = Push(history, Trim(resolved))]_vars

\* A line typed at the waiting-input prompt is an answer: it is never
\* handed to _parseCommand.  handleReadComplete chooses between the
\* TERMINAL_WAIT_FOR_INPUT event and _parseCommand by _waitingForInput,
\* not by the prompt the line was read with, so this rests on the prefix
\* prompt() chose and on every path that clears the flag.
AnswerNeverParsed ==
    [][SubmitCommand => activePrompt # "wait"]_vars

\* The shell seen as the single-slot channel of WaitChannel: accepting is
\* _active, the slot holds the processes waiting in waitForUserInput.
WC == INSTANCE WaitChannel WITH accepting <- active, slot <- Waiters, ppc <- pc

\* Shell implements WaitChannel: every step of PgShell is a step of the
\* single-slot channel (a line goes to the waiter exactly when one waits,
\* a second waitForUserInput is refused) or leaves it unchanged.
WaitChannelRefined == WC!Spec

\* The read / prompt cycle is never left stuck: the shell always becomes
\* active again.
ShellReprompts == []<>active

=============================================================================
