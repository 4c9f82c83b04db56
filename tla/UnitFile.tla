------------------------------ MODULE UnitFile -------------------------------
(***************************************************************************)
(* Registration of service-sample with systemd: svc_os_install writes the  *)
(* unit file, has systemd read it and enables it; svc_os_uninstall undoes  *)
(* this.  A command may fail at each call, and may be killed between any   *)
(* two; the next one starts from what it finds.                            *)
(*                                                                         *)
(* The text of the unit file is abstracted to whether it is complete.      *)
(* systemctl and the file system are external.                             *)
(***************************************************************************)
EXTENDS RegistrationCommand

VARIABLES
    file,       \* the unit file: "absent", "cut" or "whole"
    loaded,     \* the unit file as systemd last read it
    enabled,    \* the link that multi-user.target wants the unit
    running     \* the service runs

system == <<file, loaded, enabled, running>>
vars == <<commandVars, system>>

-----------------------------------------------------------------------------
(* svc_os_install                                                          *)

\* A plausible bug: a unit file that is already there is an error.
InstallOpen_Exclusive ==
    /\ step = "fopen"
    /\ \/ /\ file = "absent"
          /\ file' = "cut"
          /\ Goto("fputs")
       \/ /\ file # "absent"
          /\ Return("failure")
          /\ UNCHANGED file
    /\ UNCHANGED <<command, commands, loaded, enabled, running, upsets>>

\* The path of the executable and the content are known; fopen(path, "w")
\* empties a file that was there.  (A systemd version that cannot be read, or
\* is older than 248, only leaves one line out.)
InstallOpen ==
    /\ step = "fopen"
    /\ \/ /\ file' = "cut"
          /\ Goto("fputs")
          /\ UNCHANGED upsets
       \/ Fail /\ UNCHANGED file
    /\ UNCHANGED <<command, commands, loaded, enabled, running>>

\* A plausible bug: a failed write is not reported.
InstallWrite_Unchecked ==
    /\ step = "fputs"
    /\ \/ file' = "whole" /\ UNCHANGED upsets
       \/ Warn /\ UNCHANGED file
    /\ Goto("daemon_reload")
    /\ UNCHANGED <<command, commands, loaded, enabled, running>>

\* fputs, then fclose, whose result is not looked at.
InstallWrite ==
    /\ step = "fputs"
    /\ \/ /\ file' = "whole"
          /\ Goto("daemon_reload")
          /\ UNCHANGED upsets
       \/ /\ Faults
          /\ Goto("daemon_reload")
          /\ Disturbed("flush")
          /\ UNCHANGED file
       \/ Fail /\ UNCHANGED file
    /\ UNCHANGED <<command, commands, loaded, enabled, running>>

InstallReload ==
    /\ step = "daemon_reload" /\ command = "install"
    /\ \/ /\ loaded' = file
          /\ Goto("enable")
          /\ UNCHANGED upsets
       \/ /\ Fail
          /\ loaded' \in {loaded, file}
    /\ UNCHANGED <<command, commands, file, enabled, running>>

\* systemctl enable links the unit if it has an [Install] section (if not, it
\* says so and succeeds), and has systemd read the unit files.
InstallEnable ==
    /\ step = "enable"
    /\ \/ /\ enabled' = (enabled \/ file = "whole")
          /\ loaded' = file
          /\ Return("success")
          /\ UNCHANGED upsets
       \/ /\ Fail
          /\ enabled' \in {enabled, enabled \/ file = "whole"}
          /\ loaded' \in {loaded, file}
    /\ UNCHANGED <<command, commands, file, running>>

-----------------------------------------------------------------------------
(* svc_os_uninstall                                                        *)

\* systemctl stop; its result is ignored.
UninstallStop ==
    /\ step = "stop"
    /\ \/ /\ running' = FALSE
          /\ UNCHANGED upsets
       \/ /\ Warn
          /\ UNCHANGED running
    /\ Goto("disable")
    /\ UNCHANGED <<command, commands, file, loaded, enabled>>

\* systemctl disable; a failure is only traced.
UninstallDisable ==
    /\ step = "disable"
    /\ \/ /\ enabled' = FALSE
          /\ loaded' = file
          /\ UNCHANGED upsets
       \/ /\ Warn
          /\ UNCHANGED <<enabled, loaded>>
    /\ Goto("remove")
    /\ UNCHANGED <<command, commands, file, running>>

\* remove; a file that is not there is no error.
UninstallRemove ==
    /\ step = "remove"
    /\ \/ /\ file' = "absent"
          /\ Goto("daemon_reload")
          /\ UNCHANGED upsets
       \/ Fail /\ UNCHANGED file
    /\ UNCHANGED <<command, commands, loaded, enabled, running>>

\* daemon-reload; a failure is only traced.
UninstallReload ==
    /\ step = "daemon_reload" /\ command = "uninstall"
    /\ \/ /\ loaded' = file
          /\ UNCHANGED upsets
       \/ /\ Warn
          /\ UNCHANGED loaded
    /\ Return("success")
    /\ UNCHANGED <<command, commands, file, enabled, running>>

-----------------------------------------------------------------------------
(* The world around                                                        *)

\* systemctl start, or boot, at any time.
Start ==
    /\ loaded = "whole" /\ ~running
    /\ running' = TRUE
    /\ Disturbed("start")
    /\ UNCHANGED <<command, step, outcome, commands, file, loaded, enabled>>

Init ==
    /\ NoCommand
    /\ file = "absent" /\ loaded = "absent"
    /\ enabled = FALSE /\ running = FALSE

\* Steps that leave the system alone.
OnlyCommand ==
    \/ \E c \in {"install", "uninstall"} : Give(c)
    \/ ensure_elevated_for_operation("fopen", "stop")
    \/ Kill
    \/ AllGiven

Next ==
    \/ OnlyCommand /\ UNCHANGED system
    \/ InstallOpen \/ InstallWrite \/ InstallReload \/ InstallEnable
    \/ UninstallStop \/ UninstallDisable \/ UninstallRemove \/ UninstallReload
    \/ Start

Spec == Init /\ [][Next]_vars

-----------------------------------------------------------------------------
(* Properties                                                              *)

Installed == file = "whole" /\ loaded = "whole" /\ enabled

Removed == file = "absent" /\ loaded = "absent" /\ ~enabled

\* svc_os_install returns 0 only if the service is registered, whatever was
\* left behind by earlier commands: the complete unit file is there, systemd
\* has read it, and it is enabled.  A lost flush is the one exception.
InstallSound ==
    Finished("install", "success") /\ "flush" \notin upsets => Installed

\* A command that nothing disturbs does all of its work, from every state that
\* failed or killed commands before it can have left.
RepeatRepairs ==
    step = "idle" /\ upsets = {} =>
        /\ command = "install" => outcome = "success" /\ Installed
        /\ command = "uninstall" => outcome = "success" /\ Removed /\ ~running

=============================================================================
