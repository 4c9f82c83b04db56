-------------------------- MODULE MCWindowsService ---------------------------
(* Small instances of WindowsService.                                        *)
EXTENDS WindowsService

\* Success and two different failures.
MCCodes == {0, 1, 2}
=============================================================================
