-------------------------- MODULE WindowsRegistration ------------------------
(***************************************************************************)
(* Registration of service-sample with the Windows service control manager *)
(* (SCM): svc_os_install creates the service and then configures it call   *)
(* by call; svc_os_uninstall stops and deletes it.  The SCM keeps a        *)
(* deleted service as long as a handle to it is open or it runs.           *)
(***************************************************************************)
EXTENDS RegistrationCommand, Sequences

VARIABLES
    service,    \* in the SCM's database: "absent", "present" or "deleted"
    settings,   \* what has been configured
    process,    \* "stopped", "running" or "stopping"
    found,      \* "none", or service as CreateService or OpenService met it
    cleared     \* the command before was an uninstall that nothing disturbed

\* No action depends on the last two; they record what RepeatRepairs is about.
history == <<found, cleared>>
scm == <<service, settings, process, history>>
vars == <<commandVars, scm>>

\* What svc_os_install configures, in this order; without the first it only
\* lacks a text.  restart_on_error makes the SCM restart a service that
\* reports an error as it restarts one that dies.
Settings == <<"description", "preshutdown", "restart", "restart_on_error">>

-----------------------------------------------------------------------------
(* svc_os_install                                                          *)

\* A plausible bug: a service that is there already is taken for installed.
InstallCreate_Existing ==
    /\ step = "create"
    /\ \/ /\ service = "absent"
          /\ service' = "present"
          /\ settings' = {}
          /\ Goto(Settings[1])
       \/ /\ service # "absent"
          /\ Return("success")
          /\ UNCHANGED <<service, settings>>
    /\ found' = service
    /\ UNCHANGED <<command, commands, process, upsets, cleared>>

\* OpenSCManager and CreateService, which refuses a service that is there,
\* present or deleted.  The path of the executable is known.
InstallCreate ==
    /\ step = "create"
    /\ \/ /\ service = "absent"
          /\ service' = "present"
          /\ settings' = {}
          /\ found' = service
          /\ Goto(Settings[1])
          /\ UNCHANGED upsets
       \/ /\ service # "absent"
          /\ found' = service
          /\ Return("failure")
          /\ UNCHANGED <<service, settings, upsets>>
       \/ Fail /\ UNCHANGED <<service, settings, found>>
    /\ UNCHANGED <<command, commands, process, cleared>>

\* The first n calls of ChangeServiceConfig2 are done.
GoOn(n) ==
    IF n = Len(Settings) THEN Return("success") ELSE Goto(Settings[n + 1])

\* A plausible bug: the failure actions alone are thought to be enough.
InstallConfigure_NoFlag(n) ==
    /\ step = Settings[n]
    /\ settings' = settings \cup ({Settings[n]} \ {"restart_on_error"})
    /\ GoOn(n)
    /\ UNCHANGED <<command, commands, service, process, history, upsets>>

\* ChangeServiceConfig2 for a setting; a failure is only traced.
InstallConfigure(n) ==
    /\ step = Settings[n]
    /\ \/ /\ settings' = settings \cup {Settings[n]}
          /\ UNCHANGED upsets
       \/ Warn /\ UNCHANGED settings
    /\ GoOn(n)
    /\ UNCHANGED <<command, commands, service, process, history>>

-----------------------------------------------------------------------------
(* svc_os_uninstall                                                        *)

\* OpenSCManager and OpenService.
UninstallOpen ==
    /\ step = "open"
    /\ \/ /\ service # "absent"
          /\ found' = service
          /\ Goto("stop")
          /\ UNCHANGED upsets
       \/ /\ service = "absent"
          /\ found' = service
          /\ Return("failure")
          /\ UNCHANGED upsets
       \/ Fail /\ UNCHANGED found
    /\ UNCHANGED <<command, commands, service, settings, process, cleared>>

\* A plausible bug: a service that runs is left alone.
UninstallStop_Not ==
    /\ step = "stop"
    /\ Goto("delete")
    /\ UNCHANGED <<command, commands, scm, upsets>>

\* ControlService; if it fails the service is not running or goes on.
UninstallStop ==
    /\ step = "stop"
    /\ \/ /\ process' = IF process = "running" THEN "stopping" ELSE process
          /\ UNCHANGED upsets
       \/ Warn /\ UNCHANGED process
    /\ Goto("delete")
    /\ UNCHANGED <<command, commands, service, settings, history>>

\* DeleteService, whether the service has stopped meanwhile or not.
UninstallDelete ==
    /\ step = "delete"
    /\ \/ /\ service = "present"
          /\ service' = "deleted"
          /\ Return("success")
          /\ UNCHANGED upsets
       \/ /\ service = "deleted"
          /\ Return("failure")
          /\ UNCHANGED <<service, upsets>>
       \/ Fail /\ UNCHANGED service
    /\ UNCHANGED <<command, commands, settings, process, history>>

-----------------------------------------------------------------------------
(* The world around                                                        *)

HandleOpen == step \in {"stop", "delete"} \cup {Settings[n] : n \in 1..Len(Settings)}

\* The SCM removes a deleted service.
Remove ==
    /\ service = "deleted" /\ process = "stopped" /\ ~HandleOpen
    /\ service' = "absent"
    /\ settings' = {}
    /\ UNCHANGED <<commandVars, process, history>>

\* sc start, or boot.
StartService ==
    /\ service = "present" /\ process = "stopped"
    /\ process' = "running"
    /\ Disturbed("start")
    /\ UNCHANGED <<command, step, outcome, commands, service, settings, history>>

Stopped ==
    /\ process = "stopping"
    /\ process' = "stopped"
    /\ UNCHANGED <<commandVars, service, settings, history>>

Init ==
    /\ NoCommand
    /\ service = "absent" /\ settings = {} /\ process = "stopped"
    /\ found = "none" /\ cleared = FALSE

OnlyCommand ==
    \/ \E c \in {"install", "uninstall"} :
           /\ Give(c)
           /\ found' = "none"
           /\ cleared' = (command = "uninstall" /\ upsets = {})
    \/ /\ \/ ensure_elevated_for_operation("create", "open")
          \/ Kill
          \/ AllGiven
       /\ UNCHANGED history

Next ==
    \/ OnlyCommand /\ UNCHANGED <<service, settings, process>>
    \/ InstallCreate
    \/ \E n \in 1..Len(Settings) : InstallConfigure(n)
    \/ UninstallOpen \/ UninstallStop \/ UninstallDelete
    \/ Remove \/ StartService \/ Stopped

-----------------------------------------------------------------------------
(* Properties                                                              *)

Installed == service = "present" /\ settings = {Settings[n] : n \in 1..Len(Settings)}

\* svc_os_install returns 0 only for a service that it has created itself and
\* configured in full; if a setting was refused it says so in the trace only.
InstallSound ==
    Finished("install", "success") /\ "failure" \notin upsets => Installed

\* What a command that nothing disturbs does with the service that failed or
\* killed commands before it have left.  Install repairs nothing: it refuses,
\* with an error, a service that it meets, half configured or only waiting for
\* the end of its process.  Uninstall reports success exactly if it has deleted
\* one, and whatever it reports, none is present or runs thereafter.  So
\* uninstall and install together repair, if the process ended in between.
RepeatRepairs ==
    step = "idle" /\ upsets = {} =>
        /\ command = "install" =>
              /\ found = "absent" => outcome = "success" /\ Installed
              /\ found # "absent" => outcome = "failure"
              /\ cleared => found # "present"
        /\ command = "uninstall" =>
              /\ outcome = "success" <=> found = "present"
              /\ service # "present" /\ process # "running"
=============================================================================
