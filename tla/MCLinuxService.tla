--------------------------- MODULE MCLinuxService ---------------------------
(* Small instances of LinuxService; the configurations choose what may go   *)
(* wrong.                                                                    *)
EXTENDS LinuxService

\* Success and two different failures.
MCCodes == {0, 1, -1}
=============================================================================
