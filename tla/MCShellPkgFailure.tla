------------------------- MODULE MCShellPkgFailure -------------------------
(* Model-checking instance of ShellPkgFailure: the lines of MCShell        *)
(* without "!!", whose own hang is the subject of another run.             *)
EXTENDS ShellPkgFailure

MCLinesNoRepeat ==
    { <<HELP>>, <<Sp, CLEAR>>, <<SOLANA, Sp, "balance">>, <<BUILD>>,
      <<"foo">>, <<>> }
=============================================================================
