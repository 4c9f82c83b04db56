----------------------------- MODULE Registration ----------------------------
(***************************************************************************)
(* svc_os_install and svc_os_uninstall, as service-sample.h declares them  *)
(* for main: on Linux they are those of UnitFile, on Windows those of      *)
(* WindowsRegistration.                                                    *)
(***************************************************************************)
EXTENDS Naturals

CONSTANTS Faults, MaxCommands   \* see RegistrationCommand

ASSUME CommandAssumption == Faults \in BOOLEAN /\ MaxCommands \in Nat

VARIABLES
    platform,                                    \* what the program is built for
    command, step, outcome, commands, upsets,    \* see RegistrationCommand
    file, loaded, enabled, running,              \* see UnitFile
    service, settings, process, found, cleared   \* see WindowsRegistration

system == <<file, loaded, enabled, running>>
scm == <<service, settings, process, found, cleared>>
all == <<platform, command, step, outcome, commands, upsets, system, scm>>

Linux == INSTANCE UnitFile
Windows == INSTANCE WindowsRegistration

InitOnEither ==
    /\ platform \in {"Linux", "Windows"}
    /\ Linux!Init
    /\ Windows!Init

NextOnEither ==
    \/ platform = "Linux" /\ Linux!Next /\ UNCHANGED <<platform, scm>>
    \/ platform = "Windows" /\ Windows!Next /\ UNCHANGED <<platform, system>>

SpecOnEither == InitOnEither /\ [][NextOnEither]_all

\* svc_os_install returns 0 only if the service is registered, whatever was
\* left behind by earlier commands.
InstallSoundOnBoth ==
    IF platform = "Linux" THEN Linux!InstallSound ELSE Windows!InstallSound

\* What failed or killed commands have left is repaired by commands that nothing
\* disturbs: on Linux by the next one alone, whichever it is; on Windows by
\* uninstall and then install, which refuses what it meets.
RepeatRepairsOnBoth ==
    IF platform = "Linux" THEN Linux!RepeatRepairs ELSE Windows!RepeatRepairs
=============================================================================
