------------------------------ MODULE MCShell ------------------------------
(* Model-checking instance of Shell: a handful of lines covering every     *)
(* branch of _parseCommand, two outside processes, a history of two.      *)
EXTENDS Shell

MCLines ==
    { <<HELP>>, <<Sp, CLEAR>>, <<RUN_LAST_CMD>>, <<SOLANA, Sp, "balance">>,
      <<BUILD>>, <<"foo">>, <<>> }

\* The same lines without "!!", whose repeat of itself hangs the shell.
MCLinesNoRepeat == MCLines \ {<<RUN_LAST_CMD>>}
=============================================================================
