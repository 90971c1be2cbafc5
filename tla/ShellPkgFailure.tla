-------------------------- MODULE ShellPkgFailure --------------------------
(***************************************************************************)
(* Shell with the failure of a lazy package load.  The solana and         *)
(* spl-token cases of _parseCommand run their package in a fire-and-forget *)
(* async block, `(async () => { ... await PgPkg.loadPkg(...); run...(); })()`, *)
(* with no catch: when loadPkg rejects (the package's module cannot be     *)
(* fetched), the block ends without running the command, and nothing      *)
(* calls enable().  pkgJobs counts the jobs of Shell that are such blocks. *)
(***************************************************************************)
EXTENDS Shell

VARIABLE pkgJobs  \* the jobs that are a package's async block

fvars == <<vars, pkgJobs>>

FInit == Init /\ pkgJobs = 0

\* _parseCommand: a solana or spl-token line with a wallet starts the
\* async block; every other launched job is not one.
FSubmitCommand ==
    /\ SubmitCommand
    /\ pkgJobs' = IF jobs' = jobs + 1 /\ Effective(input) \in Pkgs
                     THEN pkgJobs + 1 ELSE pkgJobs

\* A job ends normally and calls enable(); it may be a package's block.
FJobDone ==
    /\ JobDone
    /\ \/ pkgJobs' = pkgJobs
       \/ pkgJobs > 0 /\ pkgJobs' = pkgJobs - 1
    /\ jobs' >= pkgJobs'

\* `await PgPkg.loadPkg(...)` rejects: the block ends with an unhandled
\* rejection, and the command and its enable() never run.
PkgLoadFails ==
    /\ NoMicrotask
    /\ pkgJobs > 0
    /\ pkgJobs' = pkgJobs - 1
    /\ jobs' = jobs - 1
    /\ UNCHANGED <<active, waitingForInput, processCount, timers,
                   activePrompt, input, history, pendingPush, resolved,
                   loadedPkgs, listeners, pc>>

FNext ==
    \/ FSubmitCommand
    \/ FJobDone
    \/ PkgLoadFails
    \/ /\ \/ TimerFire
          \/ \E l \in Lines : Type(l)
          \/ SubmitToWaiter
          \/ HistoryPush
          \/ \E p \in Procs : Disable(p) \/ WaitForUserInput(p)
                              \/ WaitRejected(p) \/ Finish(p)
       /\ UNCHANGED pkgJobs

FSpec == FInit /\ [][FNext]_fvars

\* The fairness of Shell; a load failure is never forced.
FFairSpec ==
    /\ FSpec
    /\ WF_fvars(TimerFire /\ UNCHANGED pkgJobs)
    /\ WF_fvars(HistoryPush /\ UNCHANGED pkgJobs)
    /\ WF_fvars(FJobDone)
    /\ \A p \in Procs : WF_fvars(Finish(p) /\ UNCHANGED pkgJobs)

=============================================================================
