------------------------------ MODULE Install ------------------------------
(***************************************************************************)
(* The commands that install and remove the agent on a Linux host:         *)
(* `setup`, `setup --apply`, `service install|remove|start|stop`           *)
(* (internal/cli/setup.go, service.go), with what they change: config.yaml *)
(* (internal/config), the GRUB hook and the boot menu (internal/grub), the *)
(* unit (internal/servicemanager/systemd.go) and the host's entry in Home  *)
(* Assistant.                                                              *)
(*                                                                         *)
(* A command is a sequence of steps each of which can fail and leave the   *)
(* effects of the earlier ones in place; it can be killed between any two. *)
(* One command runs at a time, as root.  The daemon, systemd, the tools of *)
(* the operating system and the administrator's editor go on meanwhile.    *)
(*                                                                         *)
(* A configuration is reduced to report_boot_options and to the settings   *)
(* the GRUB script is generated from (MAC address, URL, webhook id, wait   *)
(* time), which Save writes and Unmarshal reads back unchanged: what the   *)
(* exporter leaves out is a default that Unmarshal puts back.              *)
(***************************************************************************)
EXTENDS Naturals

CONSTANTS
    Hooks,      \* scripts GenerateScript can return
    Absent,     \* no file
    Truncated,  \* a file os.WriteFile has opened but not written
    GrubTool    \* update-grub or grub2-mkconfig is in PATH

ASSUME FilesAssumption == Absent # Truncated /\ Absent \notin Hooks /\ Truncated \notin Hooks
ASSUME ToolAssumption == GrubTool \in BOOLEAN

VARIABLES
    config,     \* /etc/grubstation/config.yaml
    script,     \* /etc/grub.d/99_grubstation
    hook,       \* the script's output in grub.cfg
    unit,       \* grubstation.service: what its --config names
    loaded,     \* the unit systemd has in memory
    enabled,    \* the unit is wanted at boot
    active,     \* systemd keeps the unit running
    proc,       \* the configuration of the running daemon, or Absent
    known,      \* Home Assistant lists the host
    cmd         \* the command that runs

grubVars == <<script, hook>>
unitVars == <<unit, loaded, enabled>>
daemonVars == <<active, proc>>
vars == <<config, grubVars, unitVars, daemonVars, known, cmd>>

Configs == [report : BOOLEAN, hook : Hooks]
ASSUME ConfigsAssumption == Absent \notin Configs /\ Truncated \notin Configs

\* "file": the configuration file; "dir": the directory it is in.
Units == {"absent", "truncated", "file", "dir"}
Startable == {"file", "dir"}

Installing == {"setup", "apply", "install"}
Removing == {"remove", "purge"}
InstallSteps == {"save", "script", "mkconfig", "push", "unit", "reload", "enable", "start"}
RemoveSteps == {"unregister", "stop", "disable", "rmunit", "unload", "rmscript", "rmhook", "rmconfig"}
Idle == [op |-> "none", step |-> "idle", cfg |-> Absent, path |-> "absent"]
Commands == [op : Installing \cup Removing, step : InstallSteps \cup RemoveSteps \cup {"done"},
             cfg : Configs, path : Startable]

TypeOK ==
    /\ config \in Configs \cup {Absent, Truncated}
    /\ script \in Hooks \cup {Absent, Truncated}
    /\ hook \in Hooks \cup {Absent}
    /\ unit \in Units /\ loaded \in Units
    /\ enabled \in BOOLEAN /\ active \in BOOLEAN /\ known \in BOOLEAN
    /\ proc \in Configs \cup {Absent}
    /\ cmd \in Commands \cup {Idle}

\* The package is installed and nothing else.
Init ==
    /\ config = Absent /\ script = Absent /\ hook = Absent
    /\ unit = "absent" /\ loaded = "absent" /\ enabled = FALSE
    /\ active = FALSE /\ proc = Absent /\ known = FALSE
    /\ cmd = Idle

----------------------------------------------------------------------------
(* The steps of a command *)

Begin(op, first, c, path) ==
    /\ cmd = Idle
    /\ cmd' = [op |-> op, step |-> first, cfg |-> c, path |-> path]
    /\ UNCHANGED <<config, grubVars, unitVars, daemonVars, known>>

At(step) == cmd.step = step
GoTo(step) == cmd' = [cmd EXCEPT !.step = step]
Fail == cmd' = Idle

\* performInstall: GRUB is set up only if its boot options are to be reported.
First(c) == IF c.report THEN "script" ELSE "unit"

\* setup: the wizard has made configuration c.  Without --config, cfgPath is
\* the default one.
Setup(c) == Begin("setup", "save", c, "file")

\* The others load the configuration first and end at once if that fails.
\* With no --config they find config.yaml in the working directory, and
\* filepath.Abs("") names that directory.
Apply(path) == config \in Configs /\ Begin("apply", First(config), config, path)
ServiceInstall(path) == config \in Configs /\ Begin("install", "unit", config, path)
ServiceRemove(op, path) == config \in Configs /\ Begin(op, "unregister", config, path)

\* config.Save: os.WriteFile truncates the file before it writes.
Saved == config' = cmd.cfg
NotSaved == config' \in {config, Truncated}

\* doInstallation
SaveConfig ==
    /\ At("save")
    /\ \/ Saved /\ GoTo(First(cmd.cfg))
       \/ NotSaved /\ Fail
    /\ UNCHANGED <<grubVars, unitVars, daemonVars, known>>

\* Grub.Setup writes the script,
WriteScript ==
    /\ At("script")
    /\ \/ script' = cmd.cfg.hook /\ GoTo("mkconfig")
       \/ script' \in {script, Truncated} /\ Fail
    /\ UNCHANGED <<config, hook, unitVars, daemonVars, known>>

\* What grub-mkconfig puts into grub.cfg: an empty script prints nothing.
Output(s) == IF s = Truncated THEN Absent ELSE s

UpdateInPlace ==                    \* mutation: grub.cfg is written to, not replaced
    /\ At("mkconfig") /\ hook' \in {Output(script), Truncated}
    /\ IF hook' = Truncated THEN Fail ELSE GoTo("push")
    /\ UNCHANGED <<config, script, unitVars, daemonVars, known>>

IgnoredFailure ==                   \* mutation: an update-grub that fails is only logged
    /\ At("mkconfig") /\ hook' \in {hook, Output(script)} /\ GoTo("push")
    /\ UNCHANGED <<config, script, unitVars, daemonVars, known>>

\* and has the boot menu rebuilt; without a tool for that it fails.
UpdateGrub ==
    /\ At("mkconfig")
    /\ \/ GrubTool /\ hook' = Output(script) /\ GoTo("push")
       \/ UNCHANGED hook /\ Fail
    /\ UNCHANGED <<config, script, unitVars, daemonVars, known>>

\* GetBootOptions and UpdateBootOptions; Home Assistant may learn of the host
\* even from a push whose answer is lost.
PushInitialState ==
    /\ At("push")
    /\ known' \in {known, TRUE}
    /\ GoTo("unit") \/ Fail
    /\ UNCHANGED <<config, grubVars, unitVars, daemonVars>>

\* Systemd.Install
WriteUnit ==
    /\ At("unit")
    /\ \/ unit' = cmd.path /\ GoTo("reload")
       \/ unit' \in {unit, "truncated"} /\ Fail
    /\ UNCHANGED <<config, grubVars, loaded, enabled, daemonVars, known>>

Reload ==
    /\ At("reload")
    /\ \/ loaded' = unit /\ GoTo("enable")
       \/ UNCHANGED loaded /\ Fail
    /\ UNCHANGED <<config, grubVars, unit, enabled, daemonVars, known>>

Enable ==
    /\ At("enable")
    /\ \/ enabled' = TRUE /\ GoTo(IF cmd.op = "install" THEN "done" ELSE "start")
       \/ UNCHANGED enabled /\ Fail
    /\ UNCHANGED <<config, grubVars, unit, loaded, daemonVars, known>>

\* systemctl start leaves a running daemon alone; a unit nobody uses may be
\* read again from its file.
StartUnit ==
    /\ active' = TRUE
    /\ loaded' \in {loaded, unit} \cap Startable
    /\ active => loaded' = loaded
    /\ UNCHANGED <<config, grubVars, unit, enabled, proc, known>>

StartService ==
    /\ At("start")
    /\ \/ StartUnit /\ GoTo("done")
       \/ UNCHANGED <<config, grubVars, unitVars, daemonVars, known>> /\ Fail

\* systemctl stop: the daemon may report once more while it ends.
StopUnit ==
    /\ active' = FALSE /\ proc' = Absent
    /\ known' \in {known, known \/ proc # Absent}
    /\ UNCHANGED <<config, grubVars, unitVars>>

ServiceStart == cmd = Idle /\ StartUnit /\ UNCHANGED cmd
ServiceStop == cmd = Idle /\ StopUnit /\ UNCHANGED cmd

\* Client.UnregisterHost: Home Assistant may not have heard of it, and an error
\* may mean that only its answer was lost.
Unregistered == known' \in {known, FALSE}

\* service remove goes on either way.
UnregisterHost ==
    /\ At("unregister") /\ Unregistered /\ GoTo("stop")
    /\ UNCHANGED <<config, grubVars, unitVars, daemonVars>>

\* Systemd.Uninstall ignores the errors of stop and disable.
StopService ==
    /\ At("stop") /\ GoTo("disable")
    /\ StopUnit \/ UNCHANGED <<config, grubVars, unitVars, daemonVars, known>>

Disable ==
    /\ At("disable") /\ GoTo("rmunit")
    /\ enabled' \in {enabled, FALSE} /\ loaded' \in {loaded, unit}
    /\ UNCHANGED <<config, grubVars, unit, daemonVars, known>>

RemoveUnitIgnored ==                \* mutation: the error of os.Remove is ignored
    /\ At("rmunit") /\ GoTo("unload")
    /\ unit' \in {unit, "absent"}
    /\ UNCHANGED <<config, grubVars, loaded, enabled, daemonVars, known>>

RemoveUnit ==
    /\ At("rmunit")
    /\ \/ unit' = "absent" /\ GoTo("unload")
       \/ UNCHANGED unit /\ Fail
    /\ UNCHANGED <<config, grubVars, loaded, enabled, daemonVars, known>>

\* The step after the hooks are gone, or left alone.
AfterHooks == IF cmd.op = "purge" THEN "rmconfig" ELSE "done"

UnloadIgnored ==                    \* mutation: the error of daemon-reload is ignored, too
    /\ At("unload") /\ loaded' \in {loaded, unit}
    /\ GoTo(IF cmd.cfg.report THEN "rmscript" ELSE AfterHooks)
    /\ UNCHANGED <<config, grubVars, unit, enabled, daemonVars, known>>

Unload ==
    /\ At("unload")
    /\ \/ loaded' = unit /\ GoTo(IF cmd.cfg.report THEN "rmscript" ELSE AfterHooks)
       \/ UNCHANGED loaded /\ Fail
    /\ UNCHANGED <<config, grubVars, unit, enabled, daemonVars, known>>

\* Grub.Uninstall; without a tool it leaves the boot menu alone.
RemoveScript ==
    /\ At("rmscript")
    /\ \/ script' = Absent /\ GoTo("rmhook")
       \/ UNCHANGED script /\ Fail
    /\ UNCHANGED <<config, hook, unitVars, daemonVars, known>>

RemoveHook ==
    /\ At("rmhook")
    /\ \/ hook' = (IF GrubTool THEN Output(script) ELSE hook) /\ GoTo(AfterHooks)
       \/ GrubTool /\ UNCHANGED hook /\ Fail
    /\ UNCHANGED <<config, script, unitVars, daemonVars, known>>

\* --purge removes the directory of ConfigFile; os.RemoveAll refuses ".".
Purge ==
    /\ At("rmconfig")
    /\ \/ cmd.path = "file" /\ config' = Absent /\ GoTo("done")
       \/ config' \in {config} \cup (IF cmd.path = "file" THEN {Absent} ELSE {}) /\ Fail
    /\ UNCHANGED <<grubVars, unitVars, daemonVars, known>>

\* The command exits, having said that it was completed.
Done == At("done") /\ Fail /\ UNCHANGED <<config, grubVars, unitVars, daemonVars, known>>

\* It is killed.
Interrupted ==
    /\ cmd # Idle /\ ~At("done") /\ Fail
    /\ UNCHANGED <<config, grubVars, unitVars, daemonVars, known>>

Command ==
    \/ \E c \in Configs : Setup(c)
    \/ \E path \in Startable :
          Apply(path) \/ ServiceInstall(path) \/ \E op \in Removing : ServiceRemove(op, path)
    \/ SaveConfig \/ WriteScript \/ UpdateGrub \/ PushInitialState
    \/ WriteUnit \/ Reload \/ Enable \/ StartService
    \/ UnregisterHost \/ StopService \/ Disable \/ RemoveUnit \/ Unload
    \/ RemoveScript \/ RemoveHook \/ Purge
    \/ ServiceStart \/ ServiceStop \/ Done \/ Interrupted

----------------------------------------------------------------------------
(* Everything else *)

\* systemd starts the daemon, again and again: serve ends at once unless it can
\* read its configuration.
Serve ==
    /\ active /\ proc = Absent /\ loaded = "file" /\ config \in Configs
    /\ proc' = config
    /\ UNCHANGED <<config, grubVars, unitVars, active, known, cmd>>

\* The daemon registers the host or pushes its boot options (module Daemon).
DaemonReports ==
    /\ proc # Absent /\ known' = TRUE
    /\ UNCHANGED <<config, grubVars, unitVars, daemonVars, cmd>>

DaemonEnds ==
    /\ proc # Absent /\ proc' = Absent
    /\ UNCHANGED <<config, grubVars, unitVars, active, known, cmd>>

\* The administrator deploys a configuration (docs/configuration/setup.md).
EditConfig ==
    /\ config' \in Configs
    /\ UNCHANGED <<grubVars, unitVars, daemonVars, known, cmd>>

\* A package manager rebuilds the boot menu.
KernelUpdate ==
    /\ GrubTool /\ hook' = Output(script)
    /\ UNCHANGED <<config, script, unitVars, daemonVars, known, cmd>>

Reboot ==
    /\ cmd' = Idle /\ proc' = Absent
    /\ loaded' = unit /\ active' = (enabled /\ unit \in Startable)
    /\ UNCHANGED <<config, grubVars, unit, enabled, known>>

Surroundings ==
    Serve \/ DaemonReports \/ DaemonEnds \/ EditConfig \/ KernelUpdate \/ Reboot

Next == Command \/ Surroundings

Spec == Init /\ [][Next]_vars

----------------------------------------------------------------------------
(* Properties *)

\* When setup says it is complete, GRUB runs the hook of this configuration,
\* whatever earlier attempts, half done or killed, have left behind.
HookApplied ==
    At("done") /\ cmd.op \in {"setup", "apply"} /\ cmd.cfg.report
        => script = cmd.cfg.hook /\ hook = cmd.cfg.hook

\* However installations and removals fail or are killed, systemd never holds
\* a unit for a configuration file that is not there: setup saves the file
\* before it installs the unit, and --purge deletes it after.
UnitHasConfig == unit = "file" \/ loaded = "file" => config # Absent

\* When service remove says it is complete, neither systemd nor the next boot
\* can start the daemon, and the hooks its configuration speaks of are gone.
RemovedForGood ==
    At("done") /\ cmd.op \in Removing =>
        /\ unit = "absent" /\ loaded = "absent"
        /\ cmd.cfg.report => script = Absent /\ hook = Absent

\* What the help text of service remove says: the GRUB hooks are uninstalled, so
\* that the boot menu no longer runs one.
HooksUninstalled == At("done") /\ cmd.op \in Removing => hook = Absent

\* What the help text of --config says: it defaults to the file in
\* /etc/grubstation, so that the unit names a file.
UnitNamesFile == unit # "dir"
=============================================================================
