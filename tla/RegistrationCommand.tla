--------------------------- MODULE RegistrationCommand -----------------------
(***************************************************************************)
(* The commands "install" and "uninstall" of service-sample, as far as     *)
(* they are the same on all systems: main hands one over, the process      *)
(* obtains the rights that it needs, a failure at any call ends it, and it *)
(* may be killed anywhere.                                                 *)
(***************************************************************************)
EXTENDS Naturals

CONSTANTS
    Faults,       \* calls and commands may fail, commands may be killed
    MaxCommands   \* bound on the commands given

VARIABLES
    command,    \* "none", "install" or "uninstall"
    step,       \* where the command is, "idle" between commands
    outcome,    \* "none", "success" or "failure": result of the last command
    commands,   \* commands given
    upsets      \* what disturbed the command: "failure" of a call, "flush"
                \* (the last buffered bytes did not reach the disk), "start"
                \* of the service

commandVars == <<command, step, outcome, commands, upsets>>

Return(r) ==
    /\ step' = "idle"
    /\ outcome' = r

Goto(s) ==
    /\ step' = s
    /\ UNCHANGED outcome

Disturbed(upset) == upsets' = upsets \cup {upset}

\* A call fails: the command reports it.
Fail ==
    /\ Faults
    /\ Disturbed("failure")
    /\ Return("failure")

\* A call fails, and that is only traced.
Warn == Faults /\ Disturbed("failure")

\* main dispatches the command.
Give(c) ==
    /\ step = "idle" /\ commands < MaxCommands
    /\ command' = c
    /\ step' = "elevate"
    /\ outcome' = "none"
    /\ commands' = commands + 1
    /\ upsets' = {}

\* Administrator rights, directly or through an elevated copy whose exit code
\* is passed on.
ensure_elevated_for_operation(install, uninstall) ==
    /\ step = "elevate"
    /\ \/ /\ Goto(IF command = "install" THEN install ELSE uninstall)
          /\ UNCHANGED upsets
       \/ Fail
    /\ UNCHANGED <<command, commands>>

Kill ==
    /\ Faults
    /\ step # "idle"
    /\ Return("failure")
    /\ Disturbed("failure")
    /\ UNCHANGED <<command, commands>>

AllGiven ==
    /\ step = "idle" /\ commands = MaxCommands
    /\ UNCHANGED commandVars

NoCommand ==
    /\ command = "none" /\ step = "idle" /\ outcome = "none"
    /\ commands = 0
    /\ upsets = {}

Finished(c, r) == step = "idle" /\ command = c /\ outcome = r
=============================================================================
