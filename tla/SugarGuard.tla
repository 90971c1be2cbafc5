----------------------------- MODULE SugarGuard -----------------------------
(***************************************************************************)
(* The sugar commands `guard remove` and `guard withdraw`                  *)
(* (src/client/src/utils/pg/extensions/sugar/commands/guard): what each   *)
(* does to the chain and to the sugar cache, one whole command per step.  *)
(* The terminal runs one command at a time, so their awaits interleave    *)
(* with nothing that touches this state.                                   *)
(*                                                                         *)
(* An id is a model value.  NoId is an option left out (undefined), Empty *)
(* the empty string the cache holds for an id it does not know, Junk a    *)
(* string `new PublicKey` refuses.  On chain, each candy machine has a    *)
(* mint authority (a candy guard, or the wallet after unwrapping) and     *)
(* each candy guard account is open or closed.                             *)
(***************************************************************************)
CONSTANTS
    Machines,  \* candy machine ids
    Guards,    \* candy guard ids
    Wallet,    \* metaplex.identity(), the mint authority after `remove`
    NoId,      \* an option that was not given
    Empty,     \* ""
    Junk       \* a string that is not a public key

Ids == Machines \cup Guards

\* "none" before any command, "ok", or the error a command throws.
Results == {"none", "ok", "missingMachine", "badMachine", "missingGuard",
            "badGuard", "unwrapFailed", "missingGuards", "deleteFailed"}

\* The ids are distinct from each other and from Wallet, NoId, Empty and
\* Junk: MCSugarGuard gives them as distinct model values.

VARIABLES
    authority,  \* authority[m]: the mint authority of candy machine m
    live,       \* the candy guard accounts that are open
    cacheCM,    \* cache.program.candyMachine
    cacheCG,    \* cache.program.candyGuard
    guardsCfg,  \* the config data has a `guards` section
    result      \* how the last command ended: "ok" or the error it threw

vars == <<authority, live, cacheCM, cacheCG, guardsCfg, result>>

-----------------------------------------------------------------------------
(* Argument handling and the chain, shared by both commands.               *)

\* `arg ?? (await loadCache()).program.x`: the cache only stands in for an
\* option that is absent; an empty option is kept.
Resolve(arg, cached) == IF arg = NoId THEN cached ELSE arg

\* `if (!candyMachinePkStr) throw`, then `new PublicKey(...)` in try/catch.
MachineIdError(s) ==
    IF s = Empty THEN "missingMachine"
    ELSE IF s = Junk THEN "badMachine" ELSE "none"

\* The same two checks of the candy guard id.
GuardIdError(s) ==
    IF s = Empty THEN "missingGuard"
    ELSE IF s = Junk THEN "badGuard" ELSE "none"

\* unwrapCandyGuard: the program accepts an open guard that is the
\* machine's mint authority, and hands the authority to the wallet.
CanUnwrap(cm, cg) == authority[cm] = cg /\ cg \in live

\* deleteCandyGuard: the program closes an open guard account.
CanDelete(cg) == cg \in live

-----------------------------------------------------------------------------
\* Whatever earlier sugar commands left on chain and in the cache: every
\* guard open, each machine wrapped by a guard or already unwrapped.
Init ==
    /\ authority \in [Machines -> Guards \cup {Wallet}]
    /\ live = Guards
    /\ cacheCM \in Machines \cup {Empty}
    /\ cacheCG \in Guards \cup {Empty}
    /\ guardsCfg \in BOOLEAN
    /\ result = "none"

\* processGuardRemove(rpcUrl, candyMachine, candyGuard): the machine id is
\* resolved and checked, then the guard id, then the unwrap is sent; the
\* first failure is the error the command throws.
GuardRemove(cmArg, cgArg) ==
    LET cm == Resolve(cmArg, cacheCM)
        cg == Resolve(cgArg, cacheCG)
        err == IF MachineIdError(cm) # "none" THEN MachineIdError(cm)
               ELSE IF GuardIdError(cg) # "none" THEN GuardIdError(cg)
               ELSE IF ~CanUnwrap(cm, cg) THEN "unwrapFailed"
               ELSE "none"
    IN  /\ result' = IF err = "none" THEN "ok" ELSE err
        /\ authority' = IF err = "none" THEN [authority EXCEPT ![cm] = Wallet]
                        ELSE authority
        /\ UNCHANGED <<live, cacheCM, cacheCG, guardsCfg>>

\* processGuardWithdraw(rpcUrl, candyGuard): the guard id is resolved and
\* checked; "[2/2] Updating configuration" loads the config data and
\* requires its guards; then the guard account is deleted.
GuardWithdraw(cgArg) ==
    LET cg == Resolve(cgArg, cacheCG)
        err == IF GuardIdError(cg) # "none" THEN GuardIdError(cg)
               ELSE IF ~guardsCfg THEN "missingGuards"
               ELSE IF ~CanDelete(cg) THEN "deleteFailed"
               ELSE "none"
    IN  /\ result' = IF err = "none" THEN "ok" ELSE err
        /\ live' = IF err = "none" THEN live \ {cg} ELSE live
        /\ UNCHANGED <<authority, cacheCM, cacheCG, guardsCfg>>

Next ==
    \/ \E cm \in Machines \cup {NoId, Empty, Junk},
          cg \in Guards \cup {NoId, Empty, Junk} : GuardRemove(cm, cg)
    \/ \E cg \in Guards \cup {NoId, Empty, Junk} : GuardWithdraw(cg)

Spec == Init /\ [][Next]_vars

-----------------------------------------------------------------------------
(* Properties.                                                             *)

\* The type of every variable.
TypeOK ==
    /\ authority \in [Machines -> Guards \cup {Wallet}]
    /\ live \subseteq Guards
    /\ cacheCM \in Machines \cup {Empty}
    /\ cacheCG \in Guards \cup {Empty}
    /\ guardsCfg \in BOOLEAN
    /\ result \in Results

\* The candy guard the cache names is an open account: `guard withdraw`
\* announces "[2/2] Updating configuration", so after it closes the cached
\* guard the cache no longer offers that guard to the next command.
CacheNamesLiveGuard == cacheCG \in Guards => cacheCG \in live

=============================================================================
