# Formal models of the Solana Playground terminal shell and its helpers

This directory holds TLA+ models of the in-browser terminal shell `PgShell`
(`src/unnamed/part_004`, with the command names of `src/unnamed/part_003`).
It also models three smaller parts of the client:
- the custom send/receive event hook (`src/client/src/hooks/useSendAndReceiveCustomEvent.tsx`);
- the submit path of the `Modal` component (`src/client/src/components/Input/Input.tsx`);
- the sugar commands `guard remove` and `guard withdraw`
  (`src/client/src/utils/pg/extensions/sugar/commands/guard`).

It also holds the TLC configurations that check them and the TLAPS proofs
about them. `PROJECT.json` lists:
- every component of the repository, modelled or not;
- the runs and the mutants;
- the map from each definition to the source lines it translates;
- the findings, the hazards and the theorems.

## The system

`PgShell` has the following parts.

* **Prompt / read controller** (`enable`, `disable`, `prompt`,
  `handleReadComplete`, `waitForUserInput`, `_incrementProcessCount`,
  `_decrementProcessCount`).
  * `disable()` increments a nesting counter and deactivates the shell.
  * `enable()` schedules a 10 ms timeout. When it fires, the timeout
    decrements the counter (never below zero). If the counter is then zero,
    it activates the shell, calls `prompt()` and calls `read("")`.
  * `prompt()` does nothing when a read is outstanding and the line still
    starts with the prompt. Otherwise it starts a new read. When that read
    resolves, it pushes the trimmed tty input into the history. This push
    happens in a microtask after the `await`.
  * `waitForUserInput` is a single slot: a second call while one is pending
    is rejected. The line submitted next goes to the waiter, through a
    `TERMINAL_WAIT_FOR_INPUT` listener, instead of to the dispatcher.
* **Command dispatcher** (`_parseCommand`). It takes the first token of the
  trimmed line and acts on it:
  * `clear` calls `prompt()` synchronously.
  * `help` and unknown names call `enable()`.
  * `build`, `connect`, `deploy`, `solana` and `spl-token` hand the shell to
    asynchronous work, which calls `enable()` when it ends.
    * `deploy`, `solana` and `spl-token` need a connected wallet. Without
      one, `PgWallet.checkIsPgConnected()` releases the prompt (spec §7).
    * `solana` and `spl-token` also set a flag in `_loadedPkgs`.
  * `!!` re-dispatches the last history entry recursively.
  * The dispatcher also names `PRETTIER`, `RUN`, `TEST`, `RUSTFMT` and
    `SUGAR`, but `PgCommand` (part_003) does not define them. Those cases
    can never match, and such names end up as "not found".
* **Line editor / escape-sequence decoder** (`handleTermData`, `_handleData`,
  `_handleCursorMove`, `_handleCursorInsert`, `_handleCursorErase`). Each
  piece of terminal data edits the tty's input line and cursor, moves
  through the history, or triggers TAB completion. `handleTermData` first
  offers data to `_activeCharPrompt`, but nothing ever assigns that field,
  so the check is dead code.
* **Autocomplete** (the TAB case and `printAndRestartPrompt`). The only
  handler returns the history entries. The candidates are those that start
  with the token before the cursor. With none, TAB inserts a space. With
  one, it completes the line. With several, it lists them. Above
  `maxAutocompleteEntries` it asks a `readChar` confirmation first. Both
  branches go through `printAndRestartPrompt`, which puts the cursor at
  the end, and they differ only in what they print.
* **History** (`PgShellHistory`), **tty** (`PgTty`) and **shell-utils** are
  not under `src/`. Their operators are written from the specification
  (`spec.md` §4.3, §6, §4.1) and marked `spec_modelled` in the map.

The other modelled parts stand apart from the shell:
* **Custom events** (`useSendAndReceiveCustomEvent`). While a component is
  mounted, the hook listens for the send event of an event name. It runs
  `cb(e.detail)` and, when cb settles, dispatches the receive event with
  `{ data }` or `{ error }`. Requesters in other components send the
  detail and wait for one receive event, which carries no request id.
* **Modal submit** (`Modal` in `Input.tsx`). `handleSubmit` does nothing
  without `buttonProps`. Otherwise it calls `onSubmit()`, then `close()`
  when `closeOnSubmit` is set. Both the submit Button and the Enter key
  (`useOnKey`) reach it. The Button is disabled while
  `buttonProps.disabled` or `loading.state` holds.
* **Sugar guard commands.** `guard remove` resolves the candy machine and
  candy guard ids (the option, else the cache through `??`) and checks
  each. Then it sends `unwrapCandyGuard`, which hands the machine's mint
  authority to the wallet. `guard withdraw` resolves and checks the guard
  id, requires a `guards` section in the config, then sends
  `deleteCandyGuard`.

The shell's parts interact in a cycle. Keys edit the line. ENTER completes the
read. The dispatcher or the waiter takes the line. `enable()` timeouts
bring the prompt back. Outside programs (the build, the wallet connection,
the package runners, and callers of `waitForUserInput`) wrap their work in
`disable()` … `enable()`.

## Modules

| module | models | state | actions |
|---|---|---|---|
| `Shell` | prompt/read controller, dispatcher, job control | `active`, `waitingForInput`, `processCount`, pending enable timeouts `timers`, `activePrompt`, the tty `input`, `history`, the queued history microtask `pendingPush`, the value the read `resolved` with, asynchronous command `jobs`, `loadedPkgs`, wait `listeners`, and the program counter `pc` of each outside process | `TimerFire`, `Type`, `SubmitToWaiter`, `SubmitCommand`, `HistoryPush`, `JobDone`, `Disable`, `WaitForUserInput`, `WaitRejected`, `Finish` |
| `LineEditor` | line editor, escape decoder, autocomplete, history traversal | `input`, `cursor`, `history`, the traversal cursor `hcur` | one action per key group of `_handleData`: `Insert`, `Left`, `Right`, `Home`, `End`, `Delete`, `Backspace`, `WordLeft`, `WordRight`, `WordErase`, `KillToEnd`, `KillToStart`, `Abort` (CTRL+G), `HistoryPrevious`, `HistoryNext`, `Enter`, `Tab` |
| `WaitChannel` | what the prompt controller promises to a process that waits for input (spec §4.4, §9): a single-slot channel that is either accepting a line or not | `accepting`, the waiting `slot` (a set of at most one process), each process's `ppc` | `Start`, `Take`, `Reject`, `Fulfil`, `Dispatch`, `Activate`, `End` |
| `HistoryRing` | what the history (spec §4.3) promises the line editor: a ring of at most `Size` entries and a traversal position | `ring`, `pos` | `Record` (a push of a non-empty entry), `Rewind` (a push of an empty line), `Move(d)` (one entry back or forward) |
| `ShellPkgFailure` | `Shell` with the rejection of the lazy package load in the `solana` and `spl-token` blocks | `Shell`'s state and `pkgJobs`, the jobs that are such a block | `Shell`'s actions, plus `PkgLoadFails` |
| `SendReceiveEvent` | the custom event hook and its requesters | `mounted`, each requester's state `rpc`, the suspended `handleSend` runs `jobs`, the requests that found the listener `handled`, and `got`, whose cb run answered each requester | `Mount`, `Unmount` (the effect and its cleanup), `Request` (a requester's send, which runs `handleSend` up to its `await`), `Settle` (cb settles and the receive event goes out) |
| `ModalSubmit` | the Modal's submit path | `open`, the props `hasButtons`, `closeButton`, `closeOnSubmit`, `disabled`, `loading`, and the caller's `running` work and `calls` count | `ClickSubmit`, `PressEnter`, `Close`; the caller's `OpenModal`, `SetDisabled`, `WorkDone` |
| `SugarGuard` | `guard remove`, `guard withdraw` | the chain (`authority` of each machine, `live` guard accounts), the cache's two ids, whether the config has `guards`, the last command's `result` | `GuardRemove(cm, cg)`, `GuardWithdraw(cg)`, one whole command per step, over ids, an absent option, `""` and a junk string |
| `SendReceiveEventProofs` | TLAPS proof about `SendReceiveEvent` | | |
| `ShellProofs` | TLAPS proofs about `Shell`, including its refinement of `WaitChannel` | | |
| `ShellPkgFailureProofs` | TLAPS proofs that `ShellPkgFailure` keeps the safety of `Shell` | | |
| `LineEditorProofs` | TLAPS proofs about `LineEditor`, including its refinement of `HistoryRing` | | |
| `MCShell`, `MCLineEditor`, `MCShellPkgFailure`, `MCSendReceiveEvent`, `MCModalSubmit`, `MCSugarGuard` | the constants TLC uses | | |

### Shell

One step of `Shell` is one macrotask of the browser's event loop: one of
- a keystroke;
- an `enable()` timeout firing;
- the end of a command's asynchronous work;
- a step of an outside process.

The continuation of `prompt()` after its `await` is a microtask. Every
other action is guarded by `NoMicrotask`, so that microtask runs first.

Lines are sequences of symbols, where a symbol is a whole word or a space.
This keeps the `trim().split(" ")` of the dispatcher while leaving out
spelling. `TimerFire` picks the result of `getInputStartsWithPrompt()`
nondeterministically. That result depends on rendering, which the model
does not hold.

Each action models a whole handler:
* `SubmitCommand` is all of `handleReadComplete` followed by
  `_parseCommand`.
* `TimerFire` is the whole timeout: the decrement, `prompt()` and `read`.

Outside processes (`Procs`) follow the protocol of the code's callers:
`Disable`, then optionally `WaitForUserInput` (or `WaitRejected`), then
`Finish`, which calls `enable()`.

### LineEditor

One step of `LineEditor` is one logical unit of data handled while the
shell is active. A pasted block is the sequence of its characters, and
`Insert` steps already allow that sequence.

`Enter` on a complete line stands for the rest of the read cycle for an
ordinary command: `handleReadComplete`, the history push of the trimmed
line, and the next prompt's empty line. `Shell` models that cycle itself.

The definitions stay close to JavaScript semantics:
* `substring` clamps its index (`Idx`).
* `trim` removes both spaces and newlines.

### SendReceiveEvent, ModalSubmit, SugarGuard

In `SendReceiveEvent`, `dispatchEvent` runs listeners synchronously, so
`Request` includes `handleSend` up to its `await`. Without a mounted
listener the send reaches nobody. The cleanup removes the listener but
does not stop a `handleSend` already suspended on cb: its closure still
dispatches. `Settle` is the rest of `handleSend`. Every requester still
waiting takes its receive event.

`ModalSubmit` holds the props as state. The caller's onSubmit sets
`loading` while its work runs, which is what the props' loading state is
for.

`SugarGuard` takes one command per step. The terminal runs one command at
a time, so nothing else touches this state during the command's awaits.
The error a command throws is the first failing check, in the code's
order.

## Runs

| run | cfg | checks | result |
|---|---|---|---|
| `shell_safety` | `MCShell.cfg` | `TypeOK`, `WaitSlot`, `CountCovered`, `WaitChannelRefined`, `AnswerNeverParsed` | pass (about 250 000 states) |
| `shell_liveness` | `MCShellLive.cfg` | `ShellReprompts` under `FairSpec`, lines without `!!` | pass |
| `enable_steal` | `MCShellSteal.cfg` | `ShellHeldExclusive` | violation (finding) |
| `clear_history` | `MCShellHistory.cfg` | `HistoryRecordsSubmitted` | violation (finding) |
| `repeat_overflow` | `MCShellRepeat.cfg` | `ShellReprompts` with `!!` lines | violation (finding) |
| `editor_safety` | `MCLineEditor.cfg` | `TypeOK`, `CursorInLine`, `HistoryTrimmed`, `HistoryRingRefined` | pass (about 7 700 states) |
| `editor_word_left` | `MCEditorWordLeft.cfg` | `WordLeftReachesStart` | violation (finding) |
| `editor_tab_cursor` | `MCEditorTabCursor.cfg` | `TabListKeepsCursor` | violation (finding) |
| `pkg_load_failure` | `MCShellPkgFail.cfg` | `ShellReprompts` under `ShellPkgFailure`'s fairness | violation (finding) |
| `event_answers` | `MCEventLive.cfg` | `HandledPending`, `HandledAnswered` under `FairSpec` | pass (862 states) |
| `modal_enter_disabled` | `MCModalEnter.cfg` | `NoSubmitWhileDisabled` | violation (finding) |
| `guard_stale_cache` | `MCGuardStaleCache.cfg` | `CacheNamesLiveGuard` | violation (finding) |

What the properties say:
* **`WaitSlot`** says the wait flag is set exactly while one process waits,
  and that exactly one listener is then registered.
* **`CountCovered`** says the nesting counter never exceeds the processes
  still holding the shell plus the timeouts still to run. Otherwise the
  shell could be locked out for good.
* **`WaitChannelRefined`** says `Shell` implements `WaitChannel` under
  the mapping `accepting <- active`, `slot <- Waiters`, `ppc <- pc`. A
  line typed while a process waits goes to that process and to no
  command. A line dispatched as a command leaves the waiter slot empty.
  A second wait is rejected rather than queued.
* **`AnswerNeverParsed`** (an action property) says that no line typed at
  the waiting-input prompt is ever handed to `_parseCommand`.
  `handleReadComplete` routes by the current `_waitingForInput`, not by
  the prompt the line was read with. So the property depends on every
  path that clears the flag also settling the read.
* **`ShellReprompts`** (`[]<>active`) says the read/prompt cycle is never
  left stuck (spec §7).
* **`CursorInLine`** is spec §8.1: the cursor stays within the line.
* **`HistoryTrimmed`** says every history entry is a non-empty line with
  no blank at either end.
* **`HistoryRingRefined`** says `LineEditor` implements `HistoryRing`
  under `ring <- history`, `pos <- hcur`, `Size <- HistSize`:
  * ENTER appends the trimmed line, evicting the oldest entry at
    capacity, and rewinds the traversal;
  * the history keys move the traversal by one entry;
  * no other key touches the history.
* **`HandledPending`** says a request that reached `handleSend` and is
  still waiting has its cb run in flight. Neither an unmount nor another
  request's answer leaves it with no receive event to come.
* **`HandledAnswered`** says every request that found the listener is
  answered, with data or with the error: the catch of `handleSend` turns a
  rejection into a receive event.

Each property of a passing run has a mutant in `PROJECT.json`: a plausible
bug in the mapped code that TLC catches, for example:
* a dropped guard at backspace;
* a missing rejection of a second wait;
* a missing decrement in the timeout;
* `help` forgetting `enable()`.

### Findings

1. **Enable steal.** An `enable()` timeout scheduled before another
   program's `disable()` (the start-up one, `help`, or "not found") fires
   after it. It brings the counter back to zero, and the shell prompts while
   that program still holds it. TLC's trace has three steps. This
   contradicts §4.4: "re-entry must wait for the outermost one".
2. **`clear` is never recorded.** `clear` calls `prompt()` synchronously,
   which resets the line. The continuation of the earlier `prompt()` then
   pushes the trimmed empty line. §4.4 says the resolved trimmed line is
   pushed.
3. **`!!` after `!!`.** The history records `!!`, so a second `!!` recurses
   into itself until the stack overflows. No `enable()` is pending, so the
   shell stays inactive for good. §7 says the read/prompt cycle is never
   left stuck.
4. **ALT+LEFT inside the first word.** The move happens `if (ofs)`, and
   boundary 0 is falsy, so the cursor does not move. CTRL+BACKSPACE erases
   nothing for the same reason.
5. **TAB listing loses the cursor.** `printAndRestartPrompt` moves the
   cursor to the end, and `resume()` keeps it there. §4.2 promises input
   and cursor intact.
6. **A load failure leaves the shell inactive.** The `solana` and
   `spl-token` cases run `await PgPkg.loadPkg(...)` in an async block with
   no catch. When it rejects, the command does not run and `enable()` is
   never called. §4.5 requires that `enable()` be eventually called.
7. **Enter submits a disabled modal.** `useOnKey("Enter", handleSubmit)`
   calls `onSubmit` even while the Button is disabled or loading. So an
   invalid form is submitted, or a running one is submitted twice.
8. **`guard withdraw` leaves the cache stale.** It prints "[2/2] Updating
   configuration" but writes nothing. The cache keeps naming the deleted
   guard, and the next guard command without an id uses it.

Found, not kept as runs. TLC found these as well, but the project
keeps no run for them. They stay listed as hazards:
* **TAB with a duplicated history line.** `candidates.sort()` does not
  deduplicate, so two equal entries count as two candidates and TAB prints
  a list instead of completing.
* **A request sent before mount is lost.** The send listener exists
  only while the hook's component is mounted, and a DOM event is not
  queued. The requester waits for ever.
* **Crossed answers.** The receive event carries no request id and
  reaches every waiting requester. With two requests in flight, the first
  cb to settle answers both, and the second answer reaches nobody.
* **The char prompt is never served.** `spec.md` says a pending
  char-read takes incoming data before line editing. In the code,
  `handleTermData` checks `_activeCharPrompt` (part_004:208-213), but the
  field is declared at line 42 and never assigned. After an over-limit
  TAB asks "Display all ...? (y or n)", the next keys edit the line. The
  shell never hands the `readChar` its answer. `PgTty` is not in the
  sources, so whether the listing ever follows is outside the model.
  `LineEditor` models the code as it is, with no char-prompt state and no
  guard on the keys.

### Bounds

`MCShell` uses:
* two outside processes, the smallest number for which one process's
  enable can race another's disable or wait;
* a history of capacity 2, which reaches eviction;
* seven lines: `help`, ` clear` with a leading space (exercising trim),
  `!!`, `solana balance`, `build`, an unknown word, and the empty line.

This covers every dispatcher branch, the empty-history and overflow cases
of `!!`, both wallet outcomes, and the package flags.

`MCLineEditor` uses:
* the characters `a`, space and a quote; the quote makes a line incomplete,
  so ENTER inserts a newline;
* lines of at most two characters;
* a history of three entries, so TAB reaches zero, one and several
  candidates. The limit `maxAutocompleteEntries` only chooses what is
  printed, so the model has no constant for it.

`MCSendReceiveEvent` has three requesters: two in flight to cross
answers, and a third sent while unmounted.

Every action of `Shell`, `LineEditor` and `SendReceiveEvent` fires in the
passing runs. `ModalSubmit`, `SugarGuard` and `ShellPkgFailure` have
violation runs only. Their traces reach the actions they are about.

`CHECK_DEADLOCK FALSE` is set only in the Shell runs. There the system
really can stop: after the `!!` overflow, or once every outside process has
finished with the shell waiting for a key.

### Fairness

`FairSpec` is weakly fair to:
* timer callbacks (`TimerFire`);
* the history microtask (`HistoryPush`);
* command jobs (`JobDone`);
* outside processes' final `enable()` (`Finish`).

The event loop runs every queued timeout and microtask. The commands and
programs are assumed to end (spec §4.5). No fairness is assumed for the
user (typing, submitting) or for the start of an outside process. Even so,
the shell reaches `active` again, because the timeouts alone bring it back.

`SendReceiveEvent`'s `FairSpec` is weakly fair to each cb run settling.
The callbacks served this way are getters of the app's static objects,
which settle. Mounting, unmounting and requests get no fairness.
`ShellPkgFailure` never forces a load failure.

## Proofs (`ShellProofs`)

These theorems hold for every set of lines, every finite set of processes
and every history capacity.

* `TypeCorrect`: `Spec => []TypeOK`. The type is split into
  `ControlTypeOK` (flags) and `DataTypeOK` (counters, lines, history), each
  with a step lemma that has one case per action. The split keeps the SMT
  obligations small. The lemma `PushType` shows that the history push keeps
  a sequence of entries within capacity.
* `WaitSlotHolds`: `Spec => []WaitSlot`. `TypeOK /\ WaitSlot` is inductive:
  * `WaitForUserInput` needs `~waitingForInput`, so it finds no waiter and
    no listener;
  * `SubmitToWaiter` moves every waiter back to running and removes the
    listener.
* `CountCoveredHolds`: `Spec => []CountCovered`. `TypeOK /\ CountCovered`
  is inductive:
  * `Disable` adds one holder (`FS_AddElement`);
  * `Finish` removes one holder but schedules one timeout
    (`FS_RemoveElement`);
  * `TimerFire` uses one timeout and removes at most one count.

  The proof assumes `IsFiniteSet(Procs)`.

* `ShellImplementsWaitChannel`: `Spec => WaitChannelRefined`. The step
  lemma `WaitChannelStep` maps each `Shell` action to one `WaitChannel`
  action or to a stutter:
  * `TimerFire` maps to `Activate`, or to a stutter when the count stays
    positive;
  * `SubmitToWaiter` maps to `Fulfil`;
  * `SubmitCommand` maps to `Dispatch`, or to a stutter for `clear`;
  * `Disable`, `WaitForUserInput`, `WaitRejected` and `Finish` map to
    `Start`, `Take`, `Reject` and `End`.

  The step lemma needs `TypeOK` and `WaitSlot`, the two invariants proved
  above, so the abstract slot is empty exactly when the wait flag is
  clear (lemma `SlotIsFlag`).
* `AnswerNeverParsedHolds`: `Spec => AnswerNeverParsed`. It follows from
  the inductive invariant `WaitPromptWaiting`: the waiting-input prompt
  is shown only while the wait flag is set. The step lemma
  `WaitPromptStep` covers the three ways the invariant could break:
  * `prompt()` picks the prefix from the flag;
  * `SubmitToWaiter` clears the flag and also settles the read;
  * `clear` reads a command prompt with the flag clear.

  TLC checked `WaitPromptWaiting` as an invariant on `MCShell.cfg`'s
  instance before the proof was written.

## Proofs (`ShellPkgFailureProofs`)

A rejected `loadPkg` breaks only progress. Both theorems are about
`FSpec`, the `ShellPkgFailure` specification without fairness:
* `PkgFailureKeepsSafety`: `FSpec => [](TypeOK /\ WaitSlot /\ CountCovered)`.
* `PkgFailureImplementsWaitChannel`: `FSpec => WaitChannelRefined`.

The inductive invariant `FInv` is `Shell`'s three invariants plus
`pkgJobs <= jobs`. The package blocks in flight are counted among the
jobs, so `PkgLoadFails` never takes `jobs` below zero. How each kind of
step is handled:
* every other step of `ShellPkgFailure` is a step of `Shell`, so it
  reuses `ShellProofs`' step lemmas;
* a failed load changes neither the wait slot, the count, the holders nor
  the timers;
* under the refinement mapping, a failed load is a stutter of
  `WaitChannel`.

TLC checked `FInv` and the refinement on two processes before the proof
was written. The run that stays in the project is `pkg_load_failure`:
it shows that liveness is what fails.

## Proofs (`LineEditorProofs`)

These theorems hold for every alphabet, line bound and history capacity.

* `CursorInLineHolds`: `Spec => [](TypeOK /\ CursorInLine)`. The cursor
  bound alone is not inductive: an erase needs the line to be a sequence
  of symbols to know the length of what it leaves, and a history recall
  needs every entry to be one. So the invariant is `TypeOK /\ CursorInLine`.
  The step lemma has one case per key. It rests on these lemmas:
  * `BeforeAfter`: the two halves of a `substring` split, and their
    lengths;
  * `InsertIn`: insertion, and the cursor `_handleCursorInsert` leaves;
  * `ClipRange`: the cursor adjustment of `setInput`;
  * `TrimIn`: `trim` of a line is a line;
  * `PushIn`: the capacity of the history push.

  The word moves need no fact about where the nearest boundary is, because
  `setCursor` clamps whatever offset it gets.
* `TypeCorrect`: `Spec => []TypeOK`, a corollary of the invariant above.
* `HistoryTrimmedHolds`: `Spec => []HistoryTrimmed`. The central fact is
  the lemma `TrimEnds`: a non-empty result of `trim` starts and ends with
  a non-blank. Finding the first and the last non-blank would need
  induction, which the provers cannot instantiate. The proof avoids it
  with a cardinality argument instead:
  * the leading blanks form a set of positions closed downwards, so that
    set is an interval `1..k` (lemmas `PositionsFinite`, `IntervalBelow`,
    `DownClosed`);
  * the trailing blanks form a set closed upwards, so that set is an
    interval `(n-k+1)..n` (lemma `UpClosed`);
  * `SubSeqEnds` then reads off the two ends.

  The step lemma `HistoryTrimmedStep` needs only `Enter`, through
  `PushClean`.
* `LineEditorImplementsHistoryRing`: `Spec => HistoryRingRefined`. The
  step lemma `HistoryRingStep` maps each key to a `HistoryRing` step:
  * `Abort` and `HistoryPrevious` map to `Move(-1)`, or to a stutter at
    the top of the ring;
  * `HistoryNext` maps to `Move(1)`;
  * `Enter` maps to `Record` (lemma `PushRecord`), to `Rewind` for a
    blank line, or to a stutter;
  * every other key is a stutter.

What stays with TLC:
* **Liveness** (`ShellReprompts`). TLAPS does not handle fairness or
  `ENABLED`.
* **Where the word boundaries lie.** `WordLeftReachesStart` is about the
  value of the `CHOOSE`-maximum. Showing that the maximum exists needs
  induction over finite sets of naturals, and the installed provers cannot
  instantiate the induction theorems. That property is violated anyway.
* **The violated properties**, by their nature.

## Proofs (`SendReceiveEventProofs`)

* `HandledPendingHolds`: `Spec => [](TypeOK /\ HandledPending)`, for
  every finite set of requesters. `HandledPending` alone is not inductive.
  A request sent while unmounted waits without being handled. If it were
  handled from an earlier round, that could break the invariant. So the
  invariant adds `SentHandled`: a handled requester is never idle. The
  lemma `DeliverType` states what a receive event does: it keeps the
  types, answers every waiting requester, and leaves the others alone.

`HandledAnswered` is liveness and stays with TLC.

## Not modelled

* The Playnet RPC fetch override (`part_000`), the Bundlr balance/withdraw
  (`part_001`) and the validator predicates (`part_002`). These are
  straight-line network calls or data conversion.
* `share.ts`: two HTTP calls and a field copy. The server,
  `PgExplorer.getShareFiles` and `PgValidator.isHex` are not in the
  sources.
* `event.ts`: an enum of event names. `SendReceiveEvent` stands for one
  name.
* The styled `Input`, its focus class, the modal's focus effect and its
  button text: rendering only.
* Whether the candy guard program refuses to close a guard that still
  wraps a machine. That is on-chain behaviour outside the sources, so
  `SugarGuard` states no property about it (listed as a hazard).
* The work done inside the command packages. It is abstracted to a job
  that ends with `enable()`, or, in `ShellPkgFailure`, fails in
  `loadPkg`.
* The first-init prompt-prefix detection and all printing.
* The composition of `Shell` with `LineEditor`. It is needed for two
  hazards: `read("")` discarding typed text, and the tail of a paste
  dropped after an ENTER inside it.

## Plan for further work

1. Compose `Shell` and `LineEditor`, so that `Type` becomes the editor's
   keys and `Submit` becomes the read cycle. Then check the paste/ENTER and
   `read("")` hazards.
2. Refine `LineEditor`'s history traversal to the `PgShellHistory` ring
   alone, once the history class is part of the sources.
3. Prove `Spec => []TypeOK` for `SugarGuard` and `ModalSubmit`. Then
   give each a passing run once a property holds that the code can
   break.
