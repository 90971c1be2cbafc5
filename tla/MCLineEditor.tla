---------------------------- MODULE MCLineEditor ----------------------------
EXTENDS LineEditor

\* A letter, the space that separates words and the quote that makes a
\* line incomplete.
MCChars == {"a", Sp, Q}

=============================================================================
