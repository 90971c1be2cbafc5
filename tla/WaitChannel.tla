---------------------------- MODULE WaitChannel ----------------------------
(***************************************************************************)
(* What the shell promises the programs that use it (spec.md sections 4.4 *)
(* and 9): each program takes the shell (disable), may ask for one line   *)
(* through a single-slot channel (waitForUserInput), and gives the shell  *)
(* back (enable).  The shell, while accepting, hands a submitted line to  *)
(* the program in the slot if there is one, else to the dispatcher.  A    *)
(* request made while the slot is taken fails at once.                     *)
(***************************************************************************)
CONSTANT Procs

VARIABLES
    accepting,  \* the shell accepts line input
    slot,       \* the programs whose request holds the slot
    ppc         \* where each program is

vars == <<accepting, slot, ppc>>

Init ==
    /\ accepting = FALSE
    /\ slot = {}
    /\ ppc = [p \in Procs |-> "idle"]

\* A program takes the shell.
Start(p) ==
    /\ ppc[p] = "idle"
    /\ ppc' = [ppc EXCEPT ![p] = "run"]
    /\ accepting' = FALSE
    /\ UNCHANGED slot

\* A program's request takes the free slot.
Take(p) ==
    /\ ppc[p] = "run"
    /\ slot = {}
    /\ slot' = {p}
    /\ ppc' = [ppc EXCEPT ![p] = "wait"]
    /\ UNCHANGED accepting

\* A request made while the slot is taken fails.
Reject(p) ==
    /\ ppc[p] = "run"
    /\ slot # {}
    /\ ppc' = [ppc EXCEPT ![p] = "rejected"]
    /\ UNCHANGED <<accepting, slot>>

\* A submitted line fulfils the request in the slot, exactly once.
Fulfil ==
    /\ accepting
    /\ slot # {}
    /\ slot' = {}
    /\ ppc' = [q \in Procs |-> IF q \in slot THEN "run" ELSE ppc[q]]
    /\ accepting' = FALSE

\* A submitted line goes to the command dispatcher when no request waits.
Dispatch ==
    /\ accepting
    /\ slot = {}
    /\ accepting' = FALSE
    /\ UNCHANGED <<slot, ppc>>

\* The shell starts accepting input again.
Activate ==
    /\ ~accepting
    /\ accepting' = TRUE
    /\ UNCHANGED <<slot, ppc>>

\* A program gives the shell back.
End(p) ==
    /\ ppc[p] \in {"run", "rejected"}
    /\ ppc' = [ppc EXCEPT ![p] = "done"]
    /\ UNCHANGED <<accepting, slot>>

Next ==
    \/ Fulfil \/ Dispatch \/ Activate
    \/ \E p \in Procs : Start(p) \/ Take(p) \/ Reject(p) \/ End(p)

Spec == Init /\ [][Next]_vars

=============================================================================
