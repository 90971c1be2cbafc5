---------------------------- MODULE ModalSubmit ----------------------------
(***************************************************************************)
(* The submit path of the Modal component (src/client/src/components,     *)
(* file Input.tsx): handleSubmit, reached from the submit Button and from *)
(* the Enter key through useOnKey, and the Cancel and close buttons.       *)
(*                                                                         *)
(* The caller of the modal owns buttonProps.  As the props' loading state *)
(* is meant for, its onSubmit sets loading while the work it starts runs, *)
(* and clears it when the work ends; the caller may also disable the      *)
(* button (an invalid form).  A modal is mounted while `open`.            *)
(***************************************************************************)
EXTENDS Naturals

CONSTANT MaxCalls  \* bound on the onSubmit calls of a behaviour

VARIABLES
    open,           \* the modal is mounted
    hasButtons,     \* buttonProps was given
    closeButton,    \* the close button on the top right is shown
    closeOnSubmit,  \* buttonProps.closeOnSubmit
    disabled,       \* buttonProps.disabled
    loading,        \* buttonProps.loading.state
    running,        \* onSubmit's work still in flight
    calls           \* the onSubmit calls so far

vars == <<open, hasButtons, closeButton, closeOnSubmit, disabled, loading,
          running, calls>>

-----------------------------------------------------------------------------
Init ==
    /\ open = FALSE
    /\ hasButtons = FALSE
    /\ closeButton = FALSE
    /\ closeOnSubmit = FALSE
    /\ disabled = FALSE
    /\ loading = FALSE
    /\ running = 0
    /\ calls = 0

\* The caller opens a modal with its props.
OpenModal ==
    /\ ~open
    /\ open' = TRUE
    /\ \E b, c, s, d \in BOOLEAN :
          /\ hasButtons' = b
          /\ closeButton' = c
          /\ closeOnSubmit' = s
          /\ disabled' = d
    /\ loading' = FALSE
    /\ UNCHANGED <<running, calls>>

\* The caller enables or disables the submit button.
SetDisabled ==
    /\ open
    /\ disabled' = ~disabled
    /\ UNCHANGED <<open, hasButtons, closeButton, closeOnSubmit, loading,
                   running, calls>>

\* The work an onSubmit started ends; the caller clears the loading state.
WorkDone ==
    /\ running > 0
    /\ running' = running - 1
    /\ loading' = FALSE
    /\ UNCHANGED <<open, hasButtons, closeButton, closeOnSubmit, disabled,
                   calls>>

\* handleSubmit: nothing without buttonProps; otherwise onSubmit(), then
\* close() when closeOnSubmit.
HandleSubmit ==
    IF ~hasButtons THEN UNCHANGED vars
    ELSE /\ calls < MaxCalls
         /\ calls' = calls + 1
         /\ running' = running + 1
         /\ loading' = TRUE
         /\ open' = ~closeOnSubmit
         /\ UNCHANGED <<hasButtons, closeButton, closeOnSubmit, disabled>>

\* A click on the submit Button; a disabled button delivers no click.
ClickSubmit ==
    /\ open
    /\ hasButtons
    /\ ~(disabled \/ loading)
    /\ HandleSubmit

\* useOnKey("Enter", handleSubmit): the Enter key while the modal is mounted.
PressEnter ==
    /\ open
    /\ HandleSubmit

\* Cancel (shown with buttonProps) or the close button: close().
Close ==
    /\ open
    /\ hasButtons \/ closeButton
    /\ open' = FALSE
    /\ UNCHANGED <<hasButtons, closeButton, closeOnSubmit, disabled, loading,
                   running, calls>>

Next ==
    \/ OpenModal \/ SetDisabled \/ WorkDone
    \/ ClickSubmit \/ PressEnter \/ Close

Spec == Init /\ [][Next]_vars

-----------------------------------------------------------------------------
(* Properties.                                                             *)

\* The type of every variable.
TypeOK ==
    /\ {open, hasButtons, closeButton, closeOnSubmit, disabled, loading}
          \subseteq BOOLEAN
    /\ running \in 0..calls
    /\ calls \in 0..MaxCalls

\* onSubmit is never called while the submit button is disabled or in its
\* loading state: the button's `disabled={buttonProps.disabled ||
\* buttonProps.loading?.state}` is the modal's guard against a submission
\* of an invalid form and against a second submission of a running one.
NoSubmitWhileDisabled ==
    [][(disabled \/ loading) => calls' = calls]_vars

=============================================================================
