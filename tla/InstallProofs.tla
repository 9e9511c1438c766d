--------------------------- MODULE InstallProofs ---------------------------
(***************************************************************************)
(* Install keeps its promises for every set of scripts, with and without a *)
(* tool that rebuilds the boot menu.                                       *)
(***************************************************************************)
EXTENDS Install, TLAPS

GrubSteps == {"script", "mkconfig", "push"}
UnitSteps == {"unit", "reload", "enable"}

\* A command is at a step of its own, and at one about the hook only if its
\* configuration reports boot options.
StepInv ==
    cmd # Idle =>
        /\ cmd.op \in {"setup", "apply"} => cmd.step \in InstallSteps \cup {"done"}
        /\ cmd.op = "install" => cmd.step \in UnitSteps \cup {"done"}
        /\ cmd.op \in Removing => cmd.step \in RemoveSteps \cup {"done"}
        /\ cmd.step \in GrubSteps \cup {"rmscript", "rmhook"} => cmd.cfg.report

\* What an installation has done of the hook before it goes on.
HookInv ==
    cmd.op \in {"setup", "apply"} /\ cmd.cfg.report =>
        /\ cmd.step = "mkconfig" => script = cmd.cfg.hook
        /\ cmd.step \in {"push", "start", "done"} \cup UnitSteps =>
              script = cmd.cfg.hook /\ hook = cmd.cfg.hook

\* What a removal has undone before it goes on.
RemoveInv ==
    cmd.op \in Removing =>
        /\ cmd.step \in {"unload", "rmscript", "rmhook", "rmconfig", "done"} => unit = "absent"
        /\ cmd.step \in {"rmscript", "rmhook", "rmconfig", "done"} => loaded = "absent"
        /\ cmd.cfg.report =>
              /\ cmd.step \in {"rmhook", "rmconfig", "done"} => script = Absent
              /\ cmd.step \in {"rmconfig", "done"} => hook = Absent

\* A boot menu without a tool to rebuild it never had the hook.
ToolInv == ~GrubTool => hook = Absent

\* A configuration is there from when it is saved or loaded.
ConfigInv ==
    /\ UnitHasConfig
    /\ cmd.op \in Installing /\ cmd.step # "save" => config # Absent

InstallInv == TypeOK /\ StepInv /\ HookInv /\ RemoveInv /\ ToolInv /\ ConfigInv

----------------------------------------------------------------------------
LEMMA InstallInit == Init => InstallInv
<1> SUFFICES ASSUME Init PROVE InstallInv
  OBVIOUS
<1>1. TypeOK
  BY DEF Init, TypeOK, Units
<1>2. cmd = Idle /\ cmd.op = "none"
  BY DEF Init, Idle
<1>3. ToolInv /\ ConfigInv
  BY <1>2 DEF Init, ToolInv, ConfigInv, UnitHasConfig, Installing
<1> QED
  BY <1>1, <1>2, <1>3 DEF InstallInv, StepInv, HookInv, RemoveInv, Removing

\* The types of the files and of the units, without that of the command.
FilesOK ==
    /\ config \in Configs \cup {Absent, Truncated}
    /\ script \in Hooks \cup {Absent, Truncated}
    /\ hook \in Hooks \cup {Absent}
    /\ unit \in Units /\ loaded \in Units
    /\ enabled \in BOOLEAN /\ active \in BOOLEAN /\ known \in BOOLEAN
    /\ proc \in Configs \cup {Absent}

\* A command that ends, however it does, leaves only the invariants that do not
\* speak of it.
LEMMA Ended ==
    ASSUME FilesOK', ToolInv', UnitHasConfig', cmd' = Idle
    PROVE  InstallInv'
BY DEF FilesOK, InstallInv, TypeOK, StepInv, HookInv, RemoveInv, ConfigInv, Idle, Installing, Removing

\* A step of a command is taken by a command, which goes on to another.
LEMMA AtStep ==
    ASSUME TypeOK, cmd.step # "idle"
    PROVE  cmd \in Commands /\ cmd # Idle
BY DEF TypeOK, Idle

LEMMA Going ==
    ASSUME cmd \in Commands, NEW to \in InstallSteps \cup RemoveSteps \cup {"done"}, GoTo(to)
    PROVE  /\ cmd' \in Commands /\ cmd' # Idle
           /\ cmd'.op = cmd.op /\ cmd'.step = to /\ cmd'.cfg = cmd.cfg /\ cmd'.path = cmd.path
<1>1. /\ cmd'.op = cmd.op /\ cmd'.step = to /\ cmd'.cfg = cmd.cfg /\ cmd'.path = cmd.path
      /\ cmd' \in Commands
  BY DEF GoTo, Commands
<1>2. cmd'.step # "idle"
  BY <1>1 DEF InstallSteps, RemoveSteps
<1> QED
  BY <1>1, <1>2 DEF Idle

LEMMA Fields ==
    ASSUME cmd \in Commands
    PROVE  /\ cmd.op \in Installing \cup Removing /\ cmd.cfg \in Configs /\ cmd.path \in Startable
           /\ cmd.cfg.report \in BOOLEAN /\ cmd.cfg.hook \in Hooks
           /\ cmd.cfg # Absent /\ cmd.cfg.hook # Absent /\ cmd.cfg.hook # Truncated
BY FilesAssumption, ConfigsAssumption DEF Commands, Configs

----------------------------------------------------------------------------
LEMMA BeginKeeps ==
    ASSUME InstallInv,
           \/ \E c \in Configs : Setup(c)
           \/ \E path \in Startable :
                 Apply(path) \/ ServiceInstall(path) \/ \E op \in Removing : ServiceRemove(op, path)
    PROVE  InstallInv'
<1> USE DEF InstallInv, TypeOK, grubVars, unitVars, daemonVars, Begin, Commands, Startable,
            InstallSteps, RemoveSteps, Installing, Removing
<1>1. ASSUME NEW c \in Configs, Setup(c) PROVE InstallInv'
  BY <1>1 DEF Setup, StepInv, HookInv, RemoveInv, ToolInv, ConfigInv, UnitHasConfig, GrubSteps, UnitSteps
<1>2. ASSUME NEW path \in Startable, Apply(path) PROVE InstallInv'
  BY <1>2, ConfigsAssumption
     DEF Apply, First, StepInv, HookInv, RemoveInv, ToolInv, ConfigInv, UnitHasConfig, GrubSteps, UnitSteps
<1>3. ASSUME NEW path \in Startable, ServiceInstall(path) PROVE InstallInv'
  BY <1>3, ConfigsAssumption
     DEF ServiceInstall, StepInv, HookInv, RemoveInv, ToolInv, ConfigInv, UnitHasConfig, GrubSteps, UnitSteps
<1>4. ASSUME NEW path \in Startable, NEW op \in Removing, ServiceRemove(op, path) PROVE InstallInv'
  BY <1>4 DEF ServiceRemove, StepInv, HookInv, RemoveInv, ToolInv, ConfigInv, UnitHasConfig, GrubSteps, UnitSteps
<1> QED
  BY <1>1, <1>2, <1>3, <1>4

LEMMA SetupStepKeeps ==
    ASSUME InstallInv, SaveConfig \/ WriteScript \/ UpdateGrub \/ PushInitialState
    PROVE  InstallInv'
<1>1. cmd \in Commands /\ cmd # Idle
  BY AtStep DEF InstallInv, SaveConfig, WriteScript, UpdateGrub, PushInitialState, At
<1> USE <1>1, Fields, Ended, Going
        DEF At, grubVars, unitVars, daemonVars, InstallInv, TypeOK, FilesOK, First, InstallSteps, RemoveSteps
<1>2. CASE SaveConfig
  <2>1. CASE Fail
    BY <1>2, <2>1, FilesAssumption DEF SaveConfig, Saved, NotSaved, Fail, ToolInv, ConfigInv, UnitHasConfig
  <2>2. CASE Saved /\ GoTo(First(cmd.cfg))
    BY <1>2, <2>2
       DEF SaveConfig, Saved, NotSaved, StepInv, HookInv, RemoveInv, ToolInv, ConfigInv, UnitHasConfig,
           Installing, Removing, GrubSteps, UnitSteps
  <2> QED
    BY <1>2, <2>1, <2>2 DEF SaveConfig
<1>3. CASE WriteScript
  <2>1. CASE Fail
    BY <1>3, <2>1 DEF WriteScript, Fail, ToolInv, ConfigInv, UnitHasConfig
  <2>2. CASE script' = cmd.cfg.hook /\ GoTo("mkconfig")
    BY <1>3, <2>2
       DEF WriteScript, StepInv, HookInv, RemoveInv, ToolInv, ConfigInv, UnitHasConfig,
           Installing, Removing, GrubSteps, UnitSteps
  <2> QED
    BY <1>3, <2>1, <2>2 DEF WriteScript
<1>4. CASE UpdateGrub
  <2>1. CASE Fail
    BY <1>4, <2>1 DEF UpdateGrub, Output, Fail, ToolInv, ConfigInv, UnitHasConfig
  <2>2. CASE GrubTool /\ hook' = Output(script) /\ GoTo("push")
    BY <1>4, <2>2
       DEF UpdateGrub, Output, StepInv, HookInv, RemoveInv, ToolInv, ConfigInv, UnitHasConfig,
           Installing, Removing, GrubSteps, UnitSteps
  <2> QED
    BY <1>4, <2>1, <2>2 DEF UpdateGrub
<1>5. CASE PushInitialState
  <2>0. known' \in BOOLEAN
    BY <1>5 DEF PushInitialState
  <2>1. CASE Fail
    BY <1>5, <2>0, <2>1 DEF PushInitialState, Fail, ToolInv, ConfigInv, UnitHasConfig
  <2>2. CASE GoTo("unit")
    BY <1>5, <2>0, <2>2
       DEF PushInitialState, StepInv, HookInv, RemoveInv, ToolInv, ConfigInv, UnitHasConfig,
           Installing, Removing, GrubSteps, UnitSteps
  <2> QED
    BY <1>5, <2>1, <2>2 DEF PushInitialState
<1> QED
  BY <1>2, <1>3, <1>4, <1>5

LEMMA UnitStepKeeps ==
    ASSUME InstallInv, WriteUnit \/ Reload \/ Enable \/ StartService
    PROVE  InstallInv'
<1>1. cmd \in Commands /\ cmd # Idle
  BY AtStep DEF InstallInv, WriteUnit, Reload, Enable, StartService, At
<1>2. cmd.op \in Installing /\ config # Absent
  BY <1>1, Fields
     DEF InstallInv, StepInv, ConfigInv, WriteUnit, Reload, Enable, StartService, At, Installing, RemoveSteps
<1> USE <1>1, <1>2, Fields, Ended, Going
        DEF At, grubVars, unitVars, daemonVars, InstallInv, TypeOK, FilesOK, InstallSteps, RemoveSteps, Units
<1>3. CASE WriteUnit
  <2>1. CASE Fail
    BY <1>3, <2>1 DEF WriteUnit, Fail, ToolInv, ConfigInv, UnitHasConfig, Startable
  <2>2. CASE unit' = cmd.path /\ GoTo("reload")
    BY <1>3, <2>2
       DEF WriteUnit, StepInv, HookInv, RemoveInv, ToolInv, ConfigInv, UnitHasConfig, Startable,
           Installing, Removing, GrubSteps, UnitSteps
  <2> QED
    BY <1>3, <2>1, <2>2 DEF WriteUnit
<1>4. CASE Reload
  <2>1. CASE Fail
    BY <1>4, <2>1 DEF Reload, Fail, ToolInv, ConfigInv, UnitHasConfig
  <2>2. CASE loaded' = unit /\ GoTo("enable")
    BY <1>4, <2>2
       DEF Reload, StepInv, HookInv, RemoveInv, ToolInv, ConfigInv, UnitHasConfig,
           Installing, Removing, GrubSteps, UnitSteps
  <2> QED
    BY <1>4, <2>1, <2>2 DEF Reload
<1>5. CASE Enable
  <2>1. CASE Fail
    BY <1>5, <2>1 DEF Enable, Fail, ToolInv, ConfigInv, UnitHasConfig
  <2>2. ASSUME NEW to \in {"done", "start"}, to = "start" => cmd.op # "install", GoTo(to), enabled' = TRUE
        PROVE  InstallInv'
    BY <1>5, <2>2
       DEF Enable, StepInv, HookInv, RemoveInv, ToolInv, ConfigInv, UnitHasConfig,
           Installing, Removing, GrubSteps, UnitSteps
  <2> QED
    BY <1>5, <2>1, <2>2 DEF Enable
<1>6. CASE StartService
  <2>1. CASE Fail
    BY <1>6, <2>1 DEF StartService, StartUnit, Startable, Fail, ToolInv, ConfigInv, UnitHasConfig
  <2>2. CASE StartUnit /\ GoTo("done")
    BY <1>6, <2>2
       DEF StartUnit, Startable, StepInv, HookInv, RemoveInv, ToolInv, ConfigInv, UnitHasConfig,
           Installing, Removing, GrubSteps, UnitSteps
  <2> QED
    BY <1>6, <2>1, <2>2 DEF StartService
<1> QED
  BY <1>3, <1>4, <1>5, <1>6

LEMMA RemoveStepKeeps ==
    ASSUME InstallInv,
           \/ UnregisterHost \/ StopService \/ Disable \/ RemoveUnit \/ Unload
           \/ RemoveScript \/ RemoveHook \/ Purge
    PROVE  InstallInv'
<1>1. cmd \in Commands /\ cmd # Idle
  BY AtStep DEF InstallInv, UnregisterHost, StopService, Disable, RemoveUnit, Unload, RemoveScript,
                RemoveHook, Purge, At
<1>2. cmd.op \in Removing
  BY <1>1, Fields
     DEF InstallInv, StepInv, UnregisterHost, Unregistered, StopService, Disable, RemoveUnit, Unload, RemoveScript,
         RemoveHook, Purge, At, Installing, InstallSteps, UnitSteps
<1> USE <1>1, <1>2, Fields, Ended, Going
        DEF At, grubVars, unitVars, daemonVars, InstallInv, TypeOK, FilesOK, InstallSteps, RemoveSteps, Units
<1>3. CASE UnregisterHost \/ StopService \/ Disable
  <2>1. PICK to \in {"stop", "disable", "rmunit"} : GoTo(to)
    BY <1>3 DEF UnregisterHost, Unregistered, StopService, Disable
  <2>2. /\ UNCHANGED <<config, script, hook, unit>> /\ loaded' \in {loaded, unit}
        /\ enabled' \in BOOLEAN /\ active' \in BOOLEAN /\ known' \in BOOLEAN
        /\ proc' \in {proc, Absent}
    BY <1>3 DEF UnregisterHost, Unregistered, StopService, StopUnit, Disable
  <2> QED
    BY <2>1, <2>2
       DEF StepInv, HookInv, RemoveInv, ToolInv, ConfigInv, UnitHasConfig,
           Installing, Removing, GrubSteps, UnitSteps
<1>4. CASE RemoveUnit
  <2>1. CASE Fail
    BY <1>4, <2>1 DEF RemoveUnit, Fail, ToolInv, ConfigInv, UnitHasConfig
  <2>2. CASE unit' = "absent" /\ GoTo("unload")
    BY <1>4, <2>2
       DEF RemoveUnit, StepInv, HookInv, RemoveInv, ToolInv, ConfigInv, UnitHasConfig,
           Installing, Removing, GrubSteps, UnitSteps
  <2> QED
    BY <1>4, <2>1, <2>2 DEF RemoveUnit
<1>5. CASE Unload
  <2>1. CASE Fail
    BY <1>5, <2>1 DEF Unload, Fail, ToolInv, ConfigInv, UnitHasConfig
  <2>2. CASE cmd.cfg.report /\ loaded' = unit /\ GoTo("rmscript")
    BY <1>5, <2>2
       DEF Unload, StepInv, HookInv, RemoveInv, ToolInv, ConfigInv, UnitHasConfig,
           Installing, Removing, GrubSteps, UnitSteps
  <2>3. ASSUME NEW to \in {"rmconfig", "done"}, ~cmd.cfg.report, loaded' = unit, GoTo(to)
        PROVE  InstallInv'
    BY <1>5, <2>3
       DEF Unload, StepInv, HookInv, RemoveInv, ToolInv, ConfigInv, UnitHasConfig,
           Installing, Removing, GrubSteps, UnitSteps
  <2> QED
    BY <1>5, <2>1, <2>2, <2>3 DEF Unload, AfterHooks
<1>6. CASE RemoveScript
  <2>1. CASE Fail
    BY <1>6, <2>1 DEF RemoveScript, Fail, ToolInv, ConfigInv, UnitHasConfig
  <2>2. CASE script' = Absent /\ GoTo("rmhook")
    BY <1>6, <2>2
       DEF RemoveScript, StepInv, HookInv, RemoveInv, ToolInv, ConfigInv, UnitHasConfig,
           Installing, Removing, GrubSteps, UnitSteps
  <2> QED
    BY <1>6, <2>1, <2>2 DEF RemoveScript
<1>7. CASE RemoveHook
  <2>1. CASE Fail
    BY <1>7, <2>1, FilesAssumption DEF RemoveHook, Output, Fail, ToolInv, ConfigInv, UnitHasConfig
  <2>2. ASSUME NEW to \in {"rmconfig", "done"}, GoTo(to)
        PROVE  InstallInv'
    <3>1. script = Absent /\ (~GrubTool => hook = Absent)
      BY <1>7 DEF RemoveHook, RemoveInv, StepInv, ToolInv
    <3>2. ~Fail
      BY <2>2 DEF Fail
    <3>3. hook' = Absent
      BY <1>7, <3>1, <3>2, FilesAssumption DEF RemoveHook, Output
    <3> QED
      BY <1>7, <2>2, <3>1, <3>3
         DEF RemoveHook, StepInv, HookInv, RemoveInv, ToolInv, ConfigInv, UnitHasConfig,
             Installing, Removing, GrubSteps, UnitSteps
  <2> QED
    BY <1>7, <2>1, <2>2 DEF RemoveHook, AfterHooks
<1>8. CASE Purge
  <2>1. unit = "absent" /\ loaded = "absent"
    BY <1>8 DEF Purge, RemoveInv
  <2>2. CASE Fail
    BY <1>8, <2>1, <2>2 DEF Purge, Fail, ToolInv, ConfigInv, UnitHasConfig
  <2>3. CASE config' = Absent /\ GoTo("done")
    BY <1>8, <2>1, <2>3
       DEF Purge, StepInv, HookInv, RemoveInv, ToolInv, ConfigInv, UnitHasConfig,
           Installing, Removing, GrubSteps, UnitSteps
  <2> QED
    BY <1>8, <2>2, <2>3 DEF Purge
<1> QED
  BY <1>3, <1>4, <1>5, <1>6, <1>7, <1>8

LEMMA SurroundingsKeep ==
    ASSUME InstallInv,
           Surroundings \/ ServiceStart \/ ServiceStop \/ Done \/ Interrupted
    PROVE  InstallInv'
<1> USE DEF grubVars, unitVars, daemonVars, InstallInv, TypeOK, FilesOK
<1>1. CASE Serve \/ DaemonReports \/ DaemonEnds
  <2>1. /\ UNCHANGED <<config, script, hook, unit, loaded, enabled, active, cmd>>
        /\ known' \in BOOLEAN /\ proc' \in Configs \cup {Absent}
    BY <1>1 DEF Serve, DaemonReports, DaemonEnds
  <2> QED
    BY <2>1 DEF StepInv, HookInv, RemoveInv, ToolInv, ConfigInv, UnitHasConfig
<1>2. CASE EditConfig
  BY <1>2, ConfigsAssumption
     DEF EditConfig, StepInv, HookInv, RemoveInv, ToolInv, ConfigInv, UnitHasConfig
<1>3. CASE KernelUpdate
  <2>1. cmd = Idle \/ (cmd \in Commands /\ cmd.cfg.hook # Truncated)
    BY Fields
  <2>2. script # Truncated => hook' = script
    BY <1>3 DEF KernelUpdate, Output
  <2>3. hook' \in Hooks \cup {Absent}
    BY <1>3 DEF KernelUpdate, Output
  <2> QED
    BY <1>3, <2>1, <2>2, <2>3, FilesAssumption
       DEF KernelUpdate, StepInv, HookInv, RemoveInv, ToolInv, ConfigInv, UnitHasConfig, Idle
<1>4. CASE Reboot \/ Done \/ Interrupted
  BY <1>4, Ended DEF Reboot, Done, Interrupted, Fail, ToolInv, ConfigInv, UnitHasConfig
<1>5. CASE ServiceStart \/ ServiceStop
  BY <1>5, Ended DEF ServiceStart, ServiceStop, StartUnit, StopUnit, ToolInv, ConfigInv, UnitHasConfig
<1> QED
  BY <1>1, <1>2, <1>3, <1>4, <1>5 DEF Surroundings

LEMMA InstallNext == InstallInv /\ [Next]_vars => InstallInv'
<1> SUFFICES ASSUME InstallInv, [Next]_vars PROVE InstallInv'
  OBVIOUS
<1>1. CASE Next
  BY <1>1, BeginKeeps, SetupStepKeeps, UnitStepKeeps, RemoveStepKeeps, SurroundingsKeep
     DEF Next, Command
<1>2. CASE UNCHANGED vars
  BY <1>2 DEF vars, grubVars, unitVars, daemonVars, InstallInv, TypeOK, StepInv, HookInv, RemoveInv,
              ToolInv, ConfigInv, UnitHasConfig
<1> QED
  BY <1>1, <1>2

\* Type correctness of the installation and of the commands at work on it.
THEOREM InstallTypeCorrect == Spec => []TypeOK
<1>1. InstallInv => TypeOK
  BY DEF InstallInv
<1> QED
  BY <1>1, InstallInit, InstallNext, PTL DEF Spec

\* A setup that says it is complete has brought its hook into the boot menu,
\* from whatever state earlier attempts have left (setup.go, performInstall).
THEOREM HookIsApplied == Spec => []HookApplied
<1>1. InstallInv => HookApplied
  BY DEF InstallInv, HookInv, HookApplied, At
<1> QED
  BY <1>1, InstallInit, InstallNext, PTL DEF Spec

\* No failure and no kill leaves systemd with a unit whose configuration file
\* is missing (setup.go, doInstallation; service.go, remove).
THEOREM UnitAlwaysHasConfig == Spec => []UnitHasConfig
<1>1. InstallInv => UnitHasConfig
  BY DEF InstallInv, ConfigInv
<1> QED
  BY <1>1, InstallInit, InstallNext, PTL DEF Spec

\* A removal that says it is complete has left nothing that systemd or GRUB
\* would start (service.go, remove; systemd.go, Uninstall; grub/setup.go).
THEOREM RemovalIsForGood == Spec => []RemovedForGood
<1>1. InstallInv => RemovedForGood
  BY DEF InstallInv, RemoveInv, RemovedForGood, At
<1> QED
  BY <1>1, InstallInit, InstallNext, PTL DEF Spec

----------------------------------------------------------------------------
(* What has to be so for the two promises of the help texts that the runs   *)
(* see broken                                                               *)

\* Every command is told the configuration file with --config, or is setup.
FileIsGiven == cmd.path # "dir"

\* As long as the script or its output is there, the configuration says that boot
\* options are reported: nobody turns that off on a host that was set up with it.
ReportStays == (script # Absent \/ hook # Absent) /\ config \in Configs => config.report

\* The unit only ever names the directory after a command without --config.
THEOREM UnitNamesGivenFile == Spec /\ []FileIsGiven => []UnitNamesFile
<1>1. Init => UnitNamesFile
  BY DEF Init, UnitNamesFile
<1>2. UnitNamesFile /\ FileIsGiven /\ [Next]_vars => UnitNamesFile'
  <2> SUFFICES ASSUME UnitNamesFile, FileIsGiven, [Next]_vars PROVE UnitNamesFile'
    OBVIOUS
  <2>1. unit' \in {unit, cmd.path, "truncated", "absent"}
    BY DEF Next, Command, Setup, Apply, ServiceInstall, ServiceRemove, Begin, SaveConfig, WriteScript, UpdateGrub,
           PushInitialState, WriteUnit, Reload, Enable, StartService, StartUnit, UnregisterHost, StopService,
           StopUnit, Disable, RemoveUnit, Unload, RemoveScript, RemoveHook, Purge, ServiceStart, ServiceStop,
           Done, Interrupted, Surroundings, Serve, DaemonReports, DaemonEnds, EditConfig, KernelUpdate, Reboot,
           vars, unitVars
  <2> QED  BY <2>1 DEF UnitNamesFile, FileIsGiven
<1> QED  BY <1>1, <1>2, PTL DEF Spec

\* A removal whose configuration does not report found nothing to uninstall.
NothingThere == cmd.op \in Removing /\ ~cmd.cfg.report => script = Absent /\ hook = Absent

LEMMA NothingThereStep == InstallInv /\ NothingThere /\ ReportStays /\ [Next]_vars => NothingThere'
<1> SUFFICES ASSUME InstallInv, NothingThere, ReportStays, [Next]_vars, cmd'.op \in Removing, ~cmd'.cfg.report
             PROVE  script' = Absent /\ hook' = Absent
  BY DEF NothingThere
<1> USE DEF Removing, grubVars
<1>1. cmd' # Idle
  BY DEF Idle
<1>2. ASSUME NEW path \in Startable, NEW op \in Removing, ServiceRemove(op, path)
      PROVE  script' = Absent /\ hook' = Absent
  <2>1. config \in Configs /\ cmd'.cfg = config /\ UNCHANGED <<script, hook>>
    BY <1>2 DEF ServiceRemove, Begin
  <2> QED  BY <2>1 DEF ReportStays
<1>3. CASE (\E c \in Configs : Setup(c)) \/ \E path \in Startable : Apply(path) \/ ServiceInstall(path)
  BY <1>3 DEF Setup, Apply, ServiceInstall, Begin
<1>4. CASE cmd'.op = cmd.op /\ cmd'.cfg = cmd.cfg
  <2>1. script = Absent /\ hook = Absent /\ cmd.op \in Removing /\ ~cmd.cfg.report
    BY <1>4 DEF NothingThere
  <2>2. cmd # Idle /\ cmd.step \notin {"script", "mkconfig"}
    BY <2>1 DEF Idle, InstallInv, StepInv, GrubSteps
  <2>3. script' \in {script, Absent} /\ hook' \in {hook, Output(script)}
    BY <1>1, <2>2
       DEF Next, Command, Setup, Apply, ServiceInstall, ServiceRemove, Begin, SaveConfig, WriteScript, UpdateGrub, At,
           PushInitialState, WriteUnit, Reload, Enable, StartService, StartUnit, UnregisterHost, StopService,
           StopUnit, Disable, RemoveUnit, Unload, RemoveScript, RemoveHook, Purge, ServiceStart, ServiceStop,
           Done, Interrupted, Surroundings, Serve, DaemonReports, DaemonEnds, EditConfig, KernelUpdate, Reboot, vars
  <2> QED  BY <2>1, <2>3, FilesAssumption DEF Output
<1>5. CASE cmd.step # "idle" /\ \E to \in InstallSteps \cup RemoveSteps \cup {"done"} : GoTo(to)
  BY <1>4, <1>5, AtStep, Going DEF InstallInv
<1>6. CASE UNCHANGED cmd
  BY <1>4, <1>6
<1>7. CASE SaveConfig \/ WriteScript \/ UpdateGrub \/ PushInitialState \/ WriteUnit \/ Reload \/ Enable \/ StartService
  BY <1>1, <1>5, <1>7
     DEF SaveConfig, WriteScript, UpdateGrub, PushInitialState, WriteUnit, Reload, Enable, StartService, At, Fail,
         First, InstallSteps
<1>8. CASE \/ UnregisterHost \/ StopService \/ Disable \/ RemoveUnit \/ Unload
           \/ RemoveScript \/ RemoveHook \/ Purge
  BY <1>1, <1>5, <1>8
     DEF UnregisterHost, StopService, Disable, RemoveUnit, Unload, RemoveScript, RemoveHook, Purge, At, Fail,
         AfterHooks, RemoveSteps
<1>9. CASE \/ ServiceStart \/ ServiceStop \/ Done \/ Interrupted \/ Surroundings \/ UNCHANGED vars
  BY <1>1, <1>6, <1>9
     DEF ServiceStart, ServiceStop, Done, Interrupted, Fail, Surroundings, Serve, DaemonReports, DaemonEnds,
         EditConfig, KernelUpdate, Reboot, vars
<1> QED  BY <1>2, <1>3, <1>7, <1>8, <1>9 DEF Next, Command

\* service remove leaves a hook behind, in the boot menu or in /etc/grub.d, only on
\* a host whose configuration was changed to report no boot options after it was
\* installed.
ScriptRemoved == At("done") /\ cmd.op \in Removing => script = Absent

THEOREM HooksGoIfReported == Spec /\ []ReportStays => [](HooksUninstalled /\ ScriptRemoved)
<1>1. Init => NothingThere
  BY DEF Init, NothingThere, Idle, Removing
<1>2. InstallInv /\ NothingThere => HooksUninstalled /\ ScriptRemoved
  BY DEF InstallInv, RemoveInv, NothingThere, HooksUninstalled, ScriptRemoved, At
<1> QED  BY <1>1, <1>2, NothingThereStep, InstallInit, InstallNext, PTL DEF Spec
=============================================================================
