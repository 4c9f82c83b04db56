--------------------------- MODULE MCLogindInhibit --------------------------
(* Small instances of LogindInhibit; the configurations choose what may go   *)
(* wrong.                                                                    *)
EXTENDS LogindInhibit

\* A sleep or shutdown, its end, and up to two more.
MCOperations == 3
=============================================================================
