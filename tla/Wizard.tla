------------------------------- MODULE Wizard -------------------------------
(***************************************************************************)
(* `grubstation setup` as its user meets it (internal/cli/setup.go and     *)
(* cli/wizard): the survey, with Home Assistant being discovered and the   *)
(* host's name resolved in the background, the file it saves, the GRUB     *)
(* script it writes, and the daemon that serve later starts from that      *)
(* file.  Module Install has the rest of the installation, and what        *)
(* happens when its steps fail.                                            *)
(***************************************************************************)
EXTENDS Settings

CONSTANTS
    Absent,         \* no file, no script
    Truncated,      \* what a write that failed leaves of one
    Hostnames,      \* what os.Hostname returns; Empty if it fails
    CNames,         \* canonical names the resolver may know
    Interfaces,     \* [mac, up, loopback, physical, ips, broadcasts]
    Entries,        \* mDNS answers: [internal, base, ips]
    Typed,          \* URLs a user types
    PortInputs, WaitInputs,     \* numbers a user types, at a prompt or into the file
    EditedWaits,    \* wait times an administrator writes into the file
    MaxVisits       \* bound: surveys, and changes to the file by hand

\* The URLs of an answer
Supported(u) == u.scheme \in Schemes
ExtractURLs(e) == {u \in {e.internal, e.base} : Supported(u)} \cup {[scheme |-> "http", host |-> ip] : ip \in e.ips}

ASSUME HostAssumption ==
    /\ Hostnames \subseteq Hosts \cup OddHosts \cup {Empty} /\ CNames \subseteq Hosts \cup OddHosts
    /\ \A i \in Interfaces : i.ips \subseteq Hosts /\ i.broadcasts \subseteq Broadcasts
    /\ \A e \in Entries : ExtractURLs(e) \subseteq URLs
    /\ \A u \in Typed : u.scheme # Empty /\ u.host # Empty => u \in URLs
    /\ PortInputs \subseteq Int /\ WaitInputs \subseteq Int /\ EditedWaits \subseteq Int
    /\ MaxVisits \in Nat

VARIABLES
    step,           \* where the survey is
    ans,            \* the answers so far
    fqdn,           \* the goroutine that resolves the name: [at, name]
    disc,           \* the goroutine of Discover
    found,          \* the instances that were discovered
    file,           \* config.yaml
    script,         \* /etc/grub.d/99_grubstation
    synced,         \* history: what made script and file what they are
    running,        \* the port a daemon listens on; 0: there is none
    visits          \* counts against MaxVisits

surveyVars == <<step, ans, fqdn, disc, found>>
hostVars == <<file, script, synced, running>>
vars == <<surveyVars, hostVars, visits>>

Steps == {"idle", "confirm", "mode", "iface", "resolve", "address", "port", "wol", "wait",
          "discover", "instance", "agent", "grub", "manual", "webhook", "save", "script"}

NoAnswers ==
    [hostname |-> Empty, path |-> Empty, dry |-> FALSE, report |-> FALSE, daemon |-> FALSE,
     iface |-> Absent, address |-> Empty, port |-> 0, wol |-> Empty, wait |-> 0,
     inst |-> {}, url |-> NoURL, grubURL |-> NoURL, webhook |-> Empty]

TypeOK ==
    /\ step \in Steps
    /\ ans.port \in Ports /\ ans.wait \in 0..300
    /\ ans.url \in URLs \cup {NoURL} /\ ans.grubURL \in URLs \cup {NoURL}
    /\ fqdn.at \in {"none", "running", "sent"} /\ disc \in {"none", "running", "sent"}
    /\ found \in SUBSET Entries
    /\ file \in Config \cup {Absent, Truncated}
    /\ synced \in {"no", "survey", "apply"}
    /\ running \in Ports /\ visits \in 0..MaxVisits

Init ==
    /\ step = "idle" /\ ans = NoAnswers
    /\ fqdn = [at |-> "none", name |-> Empty] /\ disc = "none" /\ found = {}
    /\ file = Absent /\ script = Absent /\ synced = "no" /\ running = 0 /\ visits = 0

----------------------------------------------------------------------------
(* The host, as it is found out (internal/host) *)

UsableInterface(i) == i.mac \in Macs /\ i.up /\ ~i.loopback /\ i.physical
WOLInterfaces == {i \in Interfaces : UsableInterface(i)}

\* The canonical name of the host, or the host name itself.
FQDNs(hostname) == CNames \cup {hostname}

HostOptions(iface, hostname, global, local) == ({local, global, hostname} \cup iface.ips) \ {Empty}
WolOptions(iface) == {DefaultWolBroadcastAddress} \cup iface.broadcasts

----------------------------------------------------------------------------
(* The background tasks.  Each sends its result into a channel of one     *)
(* place, so that it ends even if the survey never receives it.            *)

StartBackground ==
    /\ disc' = "running" /\ found' = {}
    /\ fqdn' = [at |-> "running", name |-> Empty]

NameResolved ==
    /\ fqdn.at = "running"
    /\ \E n \in FQDNs(ans.hostname) : fqdn' = [at |-> "sent", name |-> n]
    /\ UNCHANGED <<step, ans, disc, found, hostVars, visits>>

\* The collector: an instance without a URL is left out.
InstanceFound ==
    /\ disc = "running"
    /\ \E e \in Entries \ found : ExtractURLs(e) # {} /\ found' = found \cup {e}
    /\ UNCHANGED <<step, ans, fqdn, disc, hostVars, visits>>

\* After 5 seconds, and after the collector has taken the last entry.
DiscoveryEnds ==
    /\ disc = "running" /\ disc' = "sent"
    /\ UNCHANGED <<step, ans, fqdn, found, hostVars, visits>>

SilentFailure ==                    \* mutation: an error is only logged
    /\ disc = "running" /\ found = {} /\ disc' = "none"
    /\ UNCHANGED <<step, ans, fqdn, found, hostVars, visits>>

\* No resolver, or Browse fails: nothing is returned but an error, which the
\* survey does not look at.
DiscoveryFails ==
    /\ disc = "running" /\ found = {}
    /\ disc' = "sent"
    /\ UNCHANGED <<step, ans, fqdn, found, hostVars, visits>>

Background == NameResolved \/ InstanceFound \/ DiscoveryEnds \/ DiscoveryFails

----------------------------------------------------------------------------
(* The survey.  A prompt takes no answer its Validate function refuses.     *)

At(s) == step = s
Past(next) == found' = IF next \in {"agent", "grub", "manual", "webhook"} THEN {} ELSE found
Answer(next, answers) ==
    /\ step' = next /\ ans' = answers /\ Past(next)
    /\ UNCHANGED <<fqdn, disc, hostVars, visits>>

\* The end of the process: its goroutines go with it.
Leave ==
    /\ step' = "idle" /\ ans' = NoAnswers
    /\ fqdn' = [at |-> "none", name |-> Empty] /\ disc' = "none" /\ found' = {}

\* A configuration can be read.  Nothing is to be had from a truncated file,
\* which is taken to be empty: the agent refuses it for want of a MAC address.
Written == file \notin {Absent, Truncated}

Visit == visits < MaxVisits /\ visits' = visits + 1

\* setup, with the state of the system doWizard finds; it goes on without an
\* interface, a host name or a grub.cfg, since the errors are dropped.
Begin(hostname, path, dry) ==
    /\ At("idle") /\ Visit
    /\ ans' = [NoAnswers EXCEPT !.hostname = hostname, !.path = path, !.dry = dry]
    /\ IF file # Absent /\ ~dry
       THEN step' = "confirm" /\ UNCHANGED <<fqdn, disc, found>>
       ELSE step' = "mode" /\ StartBackground
    /\ UNCHANGED hostVars

Overwrite ==
    /\ At("confirm") /\ step' = "mode" /\ StartBackground
    /\ UNCHANGED <<ans, hostVars, visits>>

\* The user declines, or interrupts the survey.  The prompt for the interface
\* also ends it, with a panic, if there is none to choose.
Abort == step \notin {"idle", "save", "script"} /\ Leave /\ UNCHANGED <<hostVars, visits>>

Modes(path) == IF path = Empty THEN {"shutdown"} ELSE {"both", "shutdown", "hook"}

SelectMode ==
    /\ At("mode")
    /\ \E m \in Modes(ans.path) :
          Answer("iface", [ans EXCEPT !.report = m \in {"both", "hook"}, !.daemon = m \in {"both", "shutdown"}])

SelectInterface ==
    /\ At("iface")
    /\ \E i \in WOLInterfaces : Answer("resolve", [ans EXCEPT !.iface = i])

\* The survey waits for the name,
ReceiveName ==
    /\ At("resolve") /\ fqdn.at = "sent"
    /\ step' = "address"
    /\ fqdn' = [fqdn EXCEPT !.at = "none"]
    /\ UNCHANGED <<ans, disc, found, hostVars, visits>>

SelectAddress ==
    /\ At("address")
    /\ \E local \in FQDNs(ans.hostname) :
       \E a \in HostOptions(ans.iface, ans.hostname, fqdn.name, local) :
          Answer(IF ans.daemon THEN "port" ELSE "wol", [ans EXCEPT !.address = a])

\* setup reads the port of the file as it is written there.
CurrentPort == IF Written THEN file.port ELSE 0

\* The port of the file is accepted whoever listens on it.
AcceptsPort(p) == ValidPort(p) /\ ((file # Absent /\ p = CurrentPort) \/ p # running)

SelectPort ==
    /\ At("port")
    /\ \E p \in PortInputs : AcceptsPort(p) /\ Answer("wol", [ans EXCEPT !.port = p])

SelectWOLAddress ==
    /\ At("wol")
    /\ \E b \in WolOptions(ans.iface) :
          Answer(IF ans.report THEN "wait" ELSE "discover", [ans EXCEPT !.wol = b])

SelectWaitTime ==
    /\ At("wait")
    /\ \E w \in WaitInputs : ValidWait(w) /\ Answer("discover", [ans EXCEPT !.wait = w])

\* The URL of the only instance, if it has only one.
OnlyURLs == UNION {ExtractURLs(e) : e \in {f \in found : found = {f} /\ Cardinality(ExtractURLs(f)) = 1}}

\* and for Home Assistant to be discovered.
ReceiveDiscovery ==
    /\ At("discover") /\ disc = "sent"
    /\ disc' = "none"
    /\ \/ OnlyURLs # {} /\ step' = "webhook"
          /\ \E u \in OnlyURLs : ans' = [ans EXCEPT !.url = u]
       \/ OnlyURLs = {} /\ found # {} /\ step' = "instance" /\ UNCHANGED ans
       \/ found = {} /\ step' = "manual" /\ UNCHANGED ans
    /\ Past(step')
    /\ UNCHANGED <<fqdn, hostVars, visits>>

SelectInstance ==
    /\ At("instance")
    /\ \/ \E e \in found : Answer("agent", [ans EXCEPT !.inst = ExtractURLs(e)])
       \/ Answer("manual", ans)

\* strings.HasPrefix(u, "https://")
Prefixed(u) == u.scheme = "https"
GrubOptions == {u \in ans.inst : ~Prefixed(u)}

SelectAgentURL ==
    /\ At("agent")
    /\ \E u \in ans.inst :
          IF Prefixed(u) /\ GrubOptions # {}
          THEN Answer("grub", [ans EXCEPT !.url = u])
          ELSE Answer("webhook", [ans EXCEPT !.url = u, !.inst = {}])

SelectGrubURL ==
    /\ At("grub")
    /\ \E u \in GrubOptions : Answer("webhook", [ans EXCEPT !.grubURL = u, !.inst = {}])

\* ValidateHAURL; Home Assistant may not answer, and then the user tries again.
EnterURL ==
    /\ At("manual")
    /\ \E u \in Typed : ValidURL(u) /\ Answer("webhook", [ans EXCEPT !.url = u])

EnterWebhookID ==
    /\ At("webhook")
    /\ \E w \in WebhookIDs :
          IF ans.dry THEN Leave
          ELSE ans' = [ans EXCEPT !.webhook = w] /\ step' = "save" /\ UNCHANGED <<fqdn, disc, found>>
    /\ UNCHANGED <<hostVars, visits>>

Survey ==
    \/ Overwrite \/ Abort \/ SelectMode \/ SelectInterface \/ ReceiveName \/ SelectAddress \/ SelectPort
    \/ SelectWOLAddress \/ SelectWaitTime \/ ReceiveDiscovery \/ SelectInstance \/ SelectAgentURL
    \/ SelectGrubURL \/ EnterURL \/ EnterWebhookID

----------------------------------------------------------------------------
(* The installation *)

WithoutPath ==                      \* mutation: the path of grub.cfg is not handed on
    [mac |-> ans.iface.mac, address |-> ans.address, wol |-> [address |-> ans.wol, port |-> 0],
     url |-> ans.url, webhook |-> ans.webhook, port |-> ans.port, key |-> Empty, report |-> ans.report,
     grub |-> [path |-> Empty, wait |-> ans.wait, url |-> ans.grubURL]]

AssembleConfig ==
    [mac |-> ans.iface.mac, address |-> ans.address, wol |-> [address |-> ans.wol, port |-> 0],
     url |-> ans.url, webhook |-> ans.webhook, port |-> ans.port, key |-> Empty, report |-> ans.report,
     grub |-> [path |-> IF ans.report THEN ans.path ELSE Empty, wait |-> ans.wait, url |-> ans.grubURL]]

\* doInstallation saves what the survey returned, without validating it.  If it
\* fails, os.WriteFile may have truncated the file before.
SaveConfig ==
    /\ At("save")
    /\ \/ file' = Exported(AssembleConfig) /\ synced' = "no" /\ step' = "script"
          /\ UNCHANGED <<ans, fqdn, disc, found>>
       \/ file' = Truncated /\ synced' = "no" /\ Leave
       \/ UNCHANGED <<file, synced>> /\ Leave
    /\ UNCHANGED <<script, running, visits>>

\* Grub.Setup is called if the agent reports boot options, and may fail in the
\* middle as well.
HookWritten(c, by) ==
    \/ script' = (IF c.report THEN SetupScript(c) ELSE script) /\ synced' = by
    \/ c.report /\ script' = Truncated /\ synced' = "no"

\* performInstall makes the script from the answers, not from the file.
InstallHook ==
    /\ At("script")
    /\ \/ HookWritten(AssembleConfig, "survey")
       \/ UNCHANGED <<script, synced>>
    /\ Leave /\ UNCHANGED <<file, running, visits>>

\* setup --apply
Apply ==
    /\ At("idle") /\ Written /\ Validate(Unmarshal(file))
    /\ HookWritten(Unmarshal(file), "apply")
    /\ UNCHANGED <<surveyVars, file, running, visits>>

\* config init
ConfigInit ==
    /\ At("idle") /\ Visit
    /\ file = Absent /\ file' \in {Sample, Truncated} /\ synced' = "no"
    /\ UNCHANGED <<surveyVars, script, running>>

\* The administrator edits the file.
Edit ==
    /\ At("idle") /\ Written /\ Visit
    /\ \/ \E p \in PortInputs : file' = [file EXCEPT !.port = p]
       \/ \E w \in EditedWaits : file' = [file EXCEPT !.grub.wait = w]
       \/ \E w \in WebhookIDs : file' = [file EXCEPT !.webhook = w]
       \/ \E p \in Paths \ {Empty} : file' = [file EXCEPT !.grub.path = p]
    /\ file' # file /\ synced' = "no"
    /\ UNCHANGED <<surveyVars, script, running>>

\* The service starts, if the file is in order, and stops.  It cannot listen on
\* a port out of range, which Validate lets pass.
Serve ==
    /\ Written /\ running = 0 /\ Validate(Unmarshal(file))
    /\ ValidPort(Unmarshal(file).port) /\ running' = Unmarshal(file).port
    /\ UNCHANGED <<surveyVars, file, script, synced, visits>>

ServeEnds ==
    /\ running # 0 /\ running' = 0
    /\ UNCHANGED <<surveyVars, file, script, synced, visits>>

Next ==
    \/ \E h \in Hostnames, p \in KnownPaths \cup {Empty}, dry \in BOOLEAN : Begin(h, p, dry)
    \/ Survey \/ Background
    \/ SaveConfig \/ InstallHook \/ Apply \/ ConfigInit \/ Edit \/ Serve \/ ServeEnds

\* The resolver and the browsing of the network end (both have a timeout), and
\* the survey goes on with what they found.  Nobody has to answer a prompt.
Spec ==
    /\ Init /\ [][Next]_vars
    /\ WF_vars(NameResolved) /\ WF_vars(DiscoveryEnds \/ DiscoveryFails)
    /\ WF_vars(ReceiveName \/ ReceiveDiscovery)

----------------------------------------------------------------------------
(* Properties *)

\* What setup saved, the agent can load: the service does not fail over the file
\* it was installed with, nor does setup --apply, whatever Save leaves out and
\* Unmarshal puts in.  Two files are not covered, which the survey does write: a
\* host name with characters ValidateHost does not know, and a URL for GRUB that
\* is spelled HTTPS.
SavedLoads ==
    Written /\ file.address \in Hosts /\ file.grub.url.scheme # "HTTPS" /\ file.webhook # "CHANGE_ME"
        => Validate(Unmarshal(file))

\* The file says what the user answered, once it is read again: an answer that
\* happens to be a default is not lost with what Save leaves out.
AsAsked ==
    At("script") => LET c == Unmarshal(file) IN
        /\ c.mac = ans.iface.mac /\ c.address = ans.address /\ c.webhook = ans.webhook
        /\ c.url = ans.url /\ c.grub.url = ans.grubURL /\ c.report = ans.report
        /\ Effective(c).broadcast = ans.wol /\ Effective(c).wolPort = DefaultWolBroadcastPort
        /\ ans.daemon => c.port = ans.port
        /\ ans.report => c.grub.wait = ans.wait /\ c.grub.path = ans.path

\* A script that setup or setup --apply has written is the one serve expects from
\* the file, as long as nobody edits it: the warning about drift is never a false
\* one, although setup works from the answers and serve from the file.
NoDrift ==
    synced # "no" /\ file.report => script = ExpectedScript(Unmarshal(file))

\* Where the survey waits for a background task, that task still runs or its
\* result is in the channel: it was started on every way to that prompt, its
\* result was not received before, and a failure sends one as well.
ResultComes ==
    /\ At("resolve") => fqdn.at # "none"
    /\ At("discover") => disc # "none"

\* The survey never waits forever for what runs in the background, also when the
\* discovery fails or finds nothing.
Waiting == step \in {"resolve", "discover"}
SurveyGoesOn == Waiting ~> ~Waiting

\* config.sample.yaml: with https for Home Assistant, GRUB gets an http address.
HookSpeaksHTTP ==
    synced = "survey" /\ file.report => Scheme(TargetURL(file)) = "http"

\* docs/configuration/setup.md, config.sample.yaml: grub.config_path says which
\* grub.cfg a command that loads the file reads the menu from, whatever findConfig
\* finds.
ConfiguredMenuIsRead ==
    Written /\ file.report /\ Validate(Unmarshal(file))
        => \A p \in KnownPaths : MenuFile(p) = file.grub.path
=============================================================================
