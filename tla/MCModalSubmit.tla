--------------------------- MODULE MCModalSubmit ---------------------------
(* Model-checking instance of ModalSubmit: three onSubmit calls, enough   *)
(* for a second call while the first one's work is still running.        *)
EXTENDS ModalSubmit

MCMaxCalls == 3
=============================================================================
