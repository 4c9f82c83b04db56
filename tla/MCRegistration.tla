---------------------------- MODULE MCRegistration ---------------------------
(* Four commands: two to leave something behind, one to fail on it, one to   *)
(* repair it.                                                                *)
EXTENDS Registration

MCCommands == 4
=============================================================================
