---------------------------- MODULE WizardProofs ----------------------------
(***************************************************************************)
(* That setup, setup --apply and serve agree on the file and on the GRUB   *)
(* script, for all interfaces, names, discovered instances and inputs, and *)
(* any number of surveys and edits.  First what becomes of a configuration *)
(* on its way through the file, for every one of them.                     *)
(***************************************************************************)
EXTENDS Wizard, FiniteSetTheorems, TLAPS

(* Configurations on their way through the file, and the script made of them *)

\* Each part of an element of Config has its type.
LEMMA ConfigParts ==
    ASSUME NEW c \in Config
    PROVE  /\ c.mac \in Macs /\ c.address \in Addresses /\ c.url \in URLs /\ c.webhook \in Tokens
           /\ c.wol.address \in BroadcastAddresses /\ c.wol.port \in Ports
           /\ c.grub.path \in Paths /\ c.grub.wait \in Int /\ c.grub.url \in GrubURLs
           /\ c.port \in Int /\ c.key \in Keys /\ c.report \in BOOLEAN
BY DEF Config, WakeOnLan, Grub

\* No port is a setting of a port, and so are the defaults.
LEMMA PortValues == 0 \in Ports /\ DefaultWolBroadcastPort \in Ports /\ DefaultAgentPort \in Ports
BY DEF Ports, ValidPort, DefaultWolBroadcastPort, DefaultAgentPort

\* Save changes nothing but the three settings that may be at their default.
LEMMA ExportedParts ==
    ASSUME NEW c \in Config
    PROVE  /\ Exported(c) \in Config
           /\ Exported(c).mac = c.mac /\ Exported(c).address = c.address /\ Exported(c).url = c.url
           /\ Exported(c).webhook = c.webhook /\ Exported(c).port = c.port
           /\ Exported(c).report = c.report
           /\ Exported(c).grub.path = c.grub.path /\ Exported(c).grub.url = c.grub.url
           /\ Exported(c).grub.wait = Unless(c.grub.wait, DefaultGrubWaitSeconds, 0)
           /\ Exported(c).wol.address = Unless(c.wol.address, DefaultWolBroadcastAddress, Empty)
           /\ Exported(c).wol.port = Unless(c.wol.port, DefaultWolBroadcastPort, 0)
<1>1. Unless(c.wol.address, DefaultWolBroadcastAddress, Empty) \in BroadcastAddresses
  BY ConfigParts DEF Unless, BroadcastAddresses
<1>2. Unless(c.wol.port, DefaultWolBroadcastPort, 0) \in Ports
  BY ConfigParts, PortValues DEF Unless
<1>3. Unless(c.grub.wait, DefaultGrubWaitSeconds, 0) \in Int
  BY ConfigParts DEF Unless
<1>4. Exported(c) \in Config
  BY <1>1, <1>2, <1>3, Zenon DEF Exported, Config, WakeOnLan, Grub
<1> QED  BY <1>4, Zenon DEF Exported, Config, WakeOnLan, Grub

\* Unmarshal changes nothing but the three settings that may be missing.
LEMMA UnmarshalParts ==
    ASSUME NEW f \in Config
    PROVE  /\ Unmarshal(f) \in Config
           /\ Unmarshal(f).mac = f.mac /\ Unmarshal(f).address = f.address /\ Unmarshal(f).url = f.url
           /\ Unmarshal(f).webhook = f.webhook /\ Unmarshal(f).report = f.report
           /\ Unmarshal(f).grub.path = f.grub.path /\ Unmarshal(f).grub.url = f.grub.url
           /\ Unmarshal(f).wol.address = f.wol.address
           /\ Unmarshal(f).port = Unless(f.port, 0, DefaultAgentPort)
           /\ Unmarshal(f).grub.wait = Unless(f.grub.wait, 0, DefaultGrubWaitSeconds)
           /\ Unmarshal(f).wol.port = Unless(f.wol.port, 0, DefaultWolBroadcastPort)
<1>1. Unless(f.wol.port, 0, DefaultWolBroadcastPort) \in Ports
  BY ConfigParts, PortValues DEF Unless
<1>2. Unless(f.port, 0, DefaultAgentPort) \in Int
  BY ConfigParts DEF Unless, DefaultAgentPort
<1>3. Unless(f.grub.wait, 0, DefaultGrubWaitSeconds) \in Int
  BY ConfigParts DEF Unless, DefaultGrubWaitSeconds
<1>4. Unmarshal(f) \in Config
  BY <1>1, <1>2, <1>3, Zenon DEF Unmarshal, Config, WakeOnLan, Grub
<1> QED  BY <1>4, Zenon DEF Unmarshal, Config, WakeOnLan, Grub

\* The daemon runs by the same settings, whether it is given the configuration
\* or the file that was saved of it.
THEOREM RoundTrip ==
    ASSUME NEW c \in Config
    PROVE  Effective(Unmarshal(Exported(c))) = Effective(c)
<1>1. Exported(c) \in Config
  BY ExportedParts
<1> QED
  BY <1>1, ExportedParts, UnmarshalParts, ConfigParts
  DEF Effective, Unless, DefaultWolBroadcastPort, DefaultWolBroadcastAddress

\* The script setup writes from a configuration is the one serve expects from the
\* file that was saved of it, unless the wait time is 0, which a file cannot say.
THEOREM NoFalseDrift ==
    ASSUME NEW c \in Config, c.grub.wait # 0
    PROVE  SetupScript(c) = ExpectedScript(Unmarshal(Exported(c)))
<1>1. Exported(c) \in Config
  BY ExportedParts
<1>2. /\ Unmarshal(Exported(c)).mac = c.mac /\ Unmarshal(Exported(c)).webhook = c.webhook
      /\ Unmarshal(Exported(c)).url = c.url /\ Unmarshal(Exported(c)).grub.url = c.grub.url
  BY <1>1, ExportedParts, UnmarshalParts
<1>3. Unmarshal(Exported(c)).grub.wait = c.grub.wait
  BY <1>1, ExportedParts, UnmarshalParts, ConfigParts DEF Unless, DefaultGrubWaitSeconds
<1> QED  BY <1>2, <1>3 DEF SetupScript, ExpectedScript, TargetURL, Unless

\* Saving neither breaks a configuration nor repairs one: the agent accepts the
\* file that was saved of it exactly if it would have accepted the configuration.
\* setup itself does not ask before it saves.
THEOREM SavedStaysValid ==
    ASSUME NEW c \in Config
    PROVE  Validate(Unmarshal(Exported(c))) <=> Validate(c)
<1> DEFINE e == Exported(c)
           u == Unmarshal(e)
<1>1. e \in Config
  BY ExportedParts
<1>2. /\ u.mac = c.mac /\ u.address = c.address /\ u.url = c.url /\ u.webhook = c.webhook
      /\ u.report = c.report /\ u.grub.path = c.grub.path /\ u.grub.url = c.grub.url
  BY <1>1, ExportedParts, UnmarshalParts
<1>3. u.wol.address \in BroadcastAddresses /\ c.wol.address \in BroadcastAddresses
  BY <1>1, UnmarshalParts, ConfigParts
<1>4. (u.wol.port # 0 => ValidPort(u.wol.port)) /\ (c.wol.port # 0 => ValidPort(c.wol.port))
  BY <1>1, UnmarshalParts, ConfigParts DEF Ports, ValidPort
<1> HIDE DEF e, u
<1>5. Validate(u) <=> Validate(c)
  BY <1>2, <1>3, <1>4 DEF Validate
<1> QED  BY <1>5 DEF e, u

\* setup --apply reads the file as serve does, and the two agree as well.
LEMMA AppliedAgrees ==
    ASSUME NEW f \in Config
    PROVE  SetupScript(Unmarshal(f)) = ExpectedScript(Unmarshal(f))
<1>1. Unmarshal(f).grub.wait # 0
  BY UnmarshalParts, ConfigParts DEF Unless, DefaultGrubWaitSeconds
<1> QED  BY <1>1 DEF SetupScript, ExpectedScript, Unless

----------------------------------------------------------------------------
(* What the survey knows at each of its steps *)

Names == Addresses \cup {Empty}
Waits == 0..300
PlainURLs == {NoURL} \cup {u \in URLs : ~Prefixed(u)}
IDs == WebhookIDs \cup {Empty}
Cards == Interfaces \cup {Absent}
Instances == SUBSET URLs
WolAddresses == Broadcasts \cup {DefaultWolBroadcastAddress}

Answers ==
    [hostname : Names, path : Paths, dry : BOOLEAN, report : BOOLEAN, daemon : BOOLEAN, iface : Cards,
     address : Names, port : Ports, wol : BroadcastAddresses, wait : Waits,
     inst : Instances, url : GrubURLs, grubURL : PlainURLs, webhook : IDs]

Chosen == {"resolve", "address", "port", "wol", "wait", "discover", "instance", "agent", "grub",
           "manual", "webhook", "save", "script"}
Located == Chosen \ {"resolve", "address"}
Numbered == Located \ {"port"}
Awake == Numbered \ {"wol"}
Waited == Awake \ {"wait"}
Reached == {"grub", "webhook", "save", "script"}

\* The answers that the later steps rely on have been given.
AnswersInv ==
    /\ step \in Steps /\ ans \in Answers
    /\ ans.report => ans.path # Empty
    /\ step \in Chosen => ans.iface \in Interfaces /\ ans.iface.mac \in Macs
    /\ step \in Located => ans.address \in Addresses
    /\ step \in Numbered /\ ans.daemon => ans.port # 0
    /\ step \in Awake => ans.wol \in WolAddresses
    /\ step \in Waited /\ ans.report => ans.wait # 0
    /\ step \in Reached => ans.url \in URLs
    /\ step \in {"save", "script"} => ans.webhook \in WebhookIDs

Tasks == {"none", "running", "sent"}
Resolutions == [at : Tasks, name : Names]

BackgroundInv ==
    fqdn \in Resolutions /\ disc \in Tasks /\ found \subseteq Entries

\* The file is one that setup, config init or an edit can leave.
FileInv ==
    /\ Written => /\ file \in Config
                  /\ file.report => file.grub.path # Empty
                  /\ file.grub.url \in PlainURLs
    /\ running \in Ports /\ synced \in {"no", "survey", "apply"} /\ visits \in 0..MaxVisits

\* The script is written next to a file that holds the same answers.
StoredInv == step = "script" => file = Exported(AssembleConfig)

WizardInv == AnswersInv /\ BackgroundInv /\ FileInv /\ StoredInv /\ NoDrift

----------------------------------------------------------------------------
(* The configuration that is assembled from the answers *)

LEMMA Strings ==
    /\ Empty # DefaultWolBroadcastAddress /\ Empty # "grub.cfg" /\ Empty # "http" /\ Empty # "https"
    /\ Empty # "HTTPS"
BY Zenon DEF Empty, DefaultWolBroadcastAddress

LEMMA AssembledParts ==
    ASSUME AnswersInv, step \in {"save", "script"}
    PROVE  LET c == AssembleConfig IN
           /\ c \in Config
           /\ c.mac = ans.iface.mac /\ c.address = ans.address /\ c.url = ans.url /\ c.webhook = ans.webhook
           /\ c.port = ans.port /\ c.report = ans.report
           /\ c.wol.address = ans.wol /\ c.wol.port = 0
           /\ c.grub.wait = ans.wait /\ c.grub.url = ans.grubURL
           /\ ans.report => c.grub.path = ans.path
<1>1. /\ ans.iface.mac \in Macs /\ ans.address \in Addresses /\ ans.wol \in WolAddresses
      /\ ans.url \in URLs /\ ans.webhook \in WebhookIDs
  BY DEF AnswersInv, Chosen, Located, Numbered, Awake, Reached
<1>2. /\ ans.path \in Paths /\ ans.report \in BOOLEAN /\ ans.port \in Ports /\ ans.wait \in Waits
      /\ ans.grubURL \in PlainURLs
  BY DEF AnswersInv, Answers
<1>3. /\ ans.wol \in BroadcastAddresses /\ ans.webhook \in Tokens /\ ans.grubURL \in GrubURLs
      /\ 0 \in Ports /\ Empty \in Keys /\ Empty \in Paths /\ ans.wait \in Int
  BY <1>1, <1>2, PortValues DEF WolAddresses, BroadcastAddresses, Tokens, PlainURLs, GrubURLs, Keys, Paths, Waits
<1>4. (IF ans.report THEN ans.path ELSE Empty) \in Paths
  BY <1>2, <1>3
<1>5. [address |-> ans.wol, port |-> 0] \in WakeOnLan
  BY <1>3 DEF WakeOnLan
<1>6. [path |-> IF ans.report THEN ans.path ELSE Empty, wait |-> ans.wait, url |-> ans.grubURL] \in Grub
  BY <1>3, <1>4, Zenon DEF Grub
<1>7. ans.port \in Int
  BY <1>2 DEF Ports
<1>8. AssembleConfig \in Config
  BY <1>1, <1>2, <1>3, <1>5, <1>6, <1>7, Zenon DEF AssembleConfig, Config
<1> QED  BY <1>8 DEF AssembleConfig

\* What the file says of the answers when it is read.
LEMMA ReadBack ==
    ASSUME AnswersInv, StoredInv, step = "script"
    PROVE  LET c == Unmarshal(file) IN
           /\ file \in Config
           /\ c.mac = ans.iface.mac /\ c.address = ans.address /\ c.url = ans.url /\ c.webhook = ans.webhook
           /\ c.report = ans.report /\ c.grub.url = ans.grubURL
           /\ c.port = Unless(ans.port, 0, DefaultAgentPort)
           /\ ans.wait # 0 => c.grub.wait = ans.wait
           /\ ans.report => c.grub.path = ans.path
           /\ c.wol.address = Unless(ans.wol, DefaultWolBroadcastAddress, Empty)
           /\ c.wol.port = DefaultWolBroadcastPort
<1> DEFINE a == AssembleConfig
<1>1. file = Exported(a)
  BY DEF StoredInv
<1>2. /\ a \in Config
      /\ a.mac = ans.iface.mac /\ a.address = ans.address /\ a.url = ans.url /\ a.webhook = ans.webhook
      /\ a.port = ans.port /\ a.report = ans.report
      /\ a.wol.address = ans.wol /\ a.wol.port = 0
      /\ a.grub.wait = ans.wait /\ a.grub.url = ans.grubURL
      /\ ans.report => a.grub.path = ans.path
  BY AssembledParts
<1> HIDE DEF a
<1>3. Exported(a) \in Config
  BY <1>2, ExportedParts
<1>4. Unmarshal(file).wol.port = DefaultWolBroadcastPort
  BY <1>1, <1>2, <1>3, ExportedParts, UnmarshalParts DEF Unless
<1>5. ans.wait # 0 => Unmarshal(file).grub.wait = ans.wait
  BY <1>1, <1>2, <1>3, ExportedParts, UnmarshalParts DEF Unless
<1> QED
  BY <1>1, <1>2, <1>3, <1>4, <1>5, ExportedParts, UnmarshalParts

----------------------------------------------------------------------------
(* The answers and the background tasks *)

\* What the constants give.
LEMMA HostFacts ==
    /\ \A h \in Hostnames : h \in Names
    /\ \A i \in WOLInterfaces : i \in Interfaces /\ i.mac \in Macs
    /\ \A h \in Names : FQDNs(h) \subseteq Names
    /\ \A i \in WOLInterfaces, h \in Names, g \in Names, l \in Names : HostOptions(i, h, g, l) \subseteq Addresses
    /\ \A i \in WOLInterfaces : \A b \in WolOptions(i) : b \in WolAddresses
    /\ \A e \in Entries : ExtractURLs(e) \subseteq URLs
    /\ \A u \in Typed : ValidURL(u) => u \in URLs
    /\ \A p \in PortInputs : ValidPort(p) => p \in Ports /\ p # 0
    /\ \A w \in WaitInputs : ValidWait(w) => w \in Waits /\ w # 0
<1>1. /\ \A h \in Hostnames : h \in Names
      /\ \A i \in WOLInterfaces : i \in Interfaces /\ i.mac \in Macs
  BY HostAssumption DEF Names, Addresses, WOLInterfaces, UsableInterface
<1>2. /\ \A h \in Names : FQDNs(h) \subseteq Names
      /\ \A i \in WOLInterfaces, h \in Names, g \in Names, l \in Names : HostOptions(i, h, g, l) \subseteq Addresses
  BY <1>1, HostAssumption DEF FQDNs, HostOptions, Names, Addresses
<1>3. \A i \in WOLInterfaces : \A b \in WolOptions(i) : b \in WolAddresses
  BY <1>1, HostAssumption DEF WolOptions, WolAddresses
<1>4. /\ \A e \in Entries : ExtractURLs(e) \subseteq URLs
      /\ \A u \in Typed : ValidURL(u) => u \in URLs
  BY HostAssumption DEF ValidURL
<1>5. ASSUME NEW p \in PortInputs, ValidPort(p)
      PROVE  p \in Ports /\ p # 0
  <2>1. p \in Int
    BY HostAssumption
  <2> QED  BY <1>5, <2>1 DEF ValidPort, Ports
<1>6. ASSUME NEW w \in WaitInputs, ValidWait(w)
      PROVE  w \in Waits /\ w # 0
  <2>1. w \in Int
    BY HostAssumption
  <2> QED  BY <1>6, <2>1 DEF ValidWait, Waits
<1> QED  BY <1>1, <1>2, <1>3, <1>4, <1>5, <1>6

LEMMA NoAnswersTyped == NoAnswers \in Answers
<1>1. /\ Empty \in Names /\ Empty \in Paths /\ Absent \in Cards /\ Empty \in BroadcastAddresses
      /\ 0 \in Ports /\ 0 \in Waits /\ {} \in Instances /\ NoURL \in GrubURLs /\ NoURL \in PlainURLs
      /\ Empty \in IDs /\ FALSE \in BOOLEAN
  BY PortValues DEF Names, Paths, Cards, BroadcastAddresses, Waits, Instances, GrubURLs, PlainURLs, IDs
<1> QED  BY <1>1, Zenon DEF NoAnswers, Answers

\* The survey starts with nothing known, and ends so.
LEMMA LeaveInv ==
    ASSUME Leave
    PROVE  AnswersInv' /\ BackgroundInv'
<1>1. ans'.report = FALSE
  BY DEF Leave, NoAnswers
<1>2. fqdn' \in Resolutions
  BY Zenon DEF Leave, Resolutions, Tasks, Names
<1>3. ans' \in Answers
  BY NoAnswersTyped DEF Leave
<1> QED
  BY <1>1, <1>2, <1>3 DEF Leave, AnswersInv, BackgroundInv, Steps, Tasks, Chosen, Located, Numbered, Awake, Waited, Reached

LEMMA StartTyped ==
    ASSUME StartBackground
    PROVE  BackgroundInv'
<1>1. fqdn' \in Resolutions
  BY Zenon DEF StartBackground, Resolutions, Tasks, Names
<1> QED  BY <1>1 DEF StartBackground, BackgroundInv, Tasks

LEMMA BackgroundStep ==
    ASSUME AnswersInv, BackgroundInv, Background
    PROVE  AnswersInv' /\ BackgroundInv'
<1>1. step' = step /\ ans' = ans
  BY DEF Background, NameResolved, InstanceFound, DiscoveryEnds, DiscoveryFails
<1>2. AnswersInv'
  BY <1>1 DEF AnswersInv
<1>3. fqdn' \in Resolutions
  <2>1. CASE NameResolved
    <3>1. ans.hostname \in Names
      BY DEF AnswersInv, Answers
    <3>2. FQDNs(ans.hostname) \subseteq Names
      BY <3>1, HostFacts
    <3> QED  BY <2>1, <3>2 DEF NameResolved, Resolutions, Tasks
  <2> QED  BY <2>1 DEF Background, InstanceFound, DiscoveryEnds, DiscoveryFails, BackgroundInv
<1>4. disc' \in Tasks /\ found' \subseteq Entries
  BY DEF Background, NameResolved, InstanceFound, DiscoveryEnds, DiscoveryFails, BackgroundInv, Tasks
<1> QED  BY <1>2, <1>3, <1>4 DEF BackgroundInv

\* An answer goes to the next prompt; found is forgotten when it is no longer
\* needed.
LEMMA AnswerStep ==
    ASSUME NEW next, NEW a, BackgroundInv, Answer(next, a)
    PROVE  step' = next /\ ans' = a /\ BackgroundInv'
BY DEF Answer, Past, BackgroundInv

\* Which answers have been given at a step.
USE DEF Chosen, Located, Numbered, Awake, Waited, Reached, Steps

LEMMA SurveyStep ==
    ASSUME AnswersInv, BackgroundInv, Survey
    PROVE  AnswersInv' /\ BackgroundInv'
<1> USE DEF AnswersInv, At
<1>1. CASE Overwrite
  BY <1>1, StartTyped DEF Overwrite
<1>2. CASE Abort
  BY <1>2, LeaveInv DEF Abort
<1>3. CASE SelectMode
  <2>1. PICK m \in Modes(ans.path) :
          Answer("iface", [ans EXCEPT !.report = m \in {"both", "hook"}, !.daemon = m \in {"both", "shutdown"}])
    BY <1>3 DEF SelectMode
  <2>2. step' = "iface" /\ BackgroundInv'
        /\ ans' = [ans EXCEPT !.report = m \in {"both", "hook"}, !.daemon = m \in {"both", "shutdown"}]
    BY <2>1, AnswerStep
  <2>3. ans' \in Answers
    <3>1. (m \in {"both", "hook"}) \in BOOLEAN /\ (m \in {"both", "shutdown"}) \in BOOLEAN
      OBVIOUS
    <3> QED  BY <2>2, <3>1, Zenon DEF Answers
  <2>4. ans'.path = ans.path /\ (ans'.report => m # "shutdown")
    BY <2>2 DEF Answers
  <2>5. ans.path = Empty => m = "shutdown"
    BY <2>1 DEF Modes
  <2> QED  BY <2>2, <2>3, <2>4, <2>5
<1>4. CASE SelectInterface
  <2>1. PICK i \in WOLInterfaces : Answer("resolve", [ans EXCEPT !.iface = i])
    BY <1>4 DEF SelectInterface
  <2>2. step' = "resolve" /\ BackgroundInv' /\ ans' = [ans EXCEPT !.iface = i]
    BY <2>1, AnswerStep
  <2>3. i \in Cards /\ i \in Interfaces /\ i.mac \in Macs
    BY HostFacts DEF Cards
  <2>4. ans' \in Answers
    BY <2>2, <2>3, Zenon DEF Answers
  <2>5. ans'.report = ans.report /\ ans'.path = ans.path /\ ans'.iface = i
    BY <2>2 DEF Answers
  <2> QED  BY <2>2, <2>3, <2>4, <2>5
<1>5. CASE ReceiveName
  <2>1. step' = "address" /\ ans' = ans /\ disc' = disc /\ found' = found
    BY <1>5 DEF ReceiveName
  <2>2. fqdn' \in Resolutions
    BY <1>5, Zenon DEF ReceiveName, BackgroundInv, Resolutions, Tasks
  <2>3. AnswersInv'
    BY <1>5, <2>1 DEF ReceiveName
  <2> QED  BY <2>1, <2>2, <2>3 DEF BackgroundInv
<1>6. CASE SelectAddress
  <2>1. PICK local \in FQDNs(ans.hostname) :
        \E a \in HostOptions(ans.iface, ans.hostname, fqdn.name, local) :
          Answer(IF ans.daemon THEN "port" ELSE "wol", [ans EXCEPT !.address = a])
    BY <1>6 DEF SelectAddress
  <2>2. PICK a \in HostOptions(ans.iface, ans.hostname, fqdn.name, local) :
          Answer(IF ans.daemon THEN "port" ELSE "wol", [ans EXCEPT !.address = a])
    BY <2>1
  <2>3. step' \in {"port", "wol"} /\ (step' = "wol" => ~ans.daemon) /\ BackgroundInv'
        /\ ans' = [ans EXCEPT !.address = a]
    BY <2>2, AnswerStep
  <2>4. a \in Addresses
    <3>1. ans.hostname \in Names /\ fqdn.name \in Names /\ ans.iface \in Interfaces
      BY <1>6 DEF SelectAddress, Answers, BackgroundInv, Resolutions
    <3>2. local \in Names
      BY <3>1, HostFacts
    <3>3. ans.iface.ips \subseteq Addresses
      BY <3>1, HostAssumption DEF Addresses
    <3> QED  BY <2>2, <3>1, <3>2, <3>3 DEF HostOptions, Names
  <2>5. ans' \in Answers
    <3>1. a \in Names
      BY <2>4 DEF Names
    <3> QED  BY <2>3, <3>1, Zenon DEF Answers
  <2>6. /\ ans'.report = ans.report /\ ans'.path = ans.path /\ ans'.iface = ans.iface
        /\ ans'.daemon = ans.daemon /\ ans'.address = a
    BY <2>3 DEF Answers
  <2> QED  BY <1>6, <2>3, <2>4, <2>5, <2>6 DEF SelectAddress
<1>7. CASE SelectPort
  <2>1. PICK p \in PortInputs : AcceptsPort(p) /\ Answer("wol", [ans EXCEPT !.port = p])
    BY <1>7 DEF SelectPort
  <2>2. step' = "wol" /\ BackgroundInv' /\ ans' = [ans EXCEPT !.port = p]
    BY <2>1, AnswerStep
  <2>3. p \in Ports /\ p # 0
    BY <2>1, HostFacts DEF AcceptsPort
  <2>4. ans' \in Answers
    BY <2>2, <2>3, Zenon DEF Answers
  <2>5. /\ ans'.report = ans.report /\ ans'.path = ans.path /\ ans'.iface = ans.iface
        /\ ans'.address = ans.address /\ ans'.port = p
    BY <2>2 DEF Answers
  <2> QED  BY <1>7, <2>2, <2>3, <2>4, <2>5 DEF SelectPort
<1>8. CASE SelectWOLAddress
  <2>1. PICK b \in WolOptions(ans.iface) :
          Answer(IF ans.report THEN "wait" ELSE "discover", [ans EXCEPT !.wol = b])
    BY <1>8 DEF SelectWOLAddress
  <2>2. step' \in {"wait", "discover"} /\ (step' = "discover" => ~ans.report) /\ BackgroundInv'
        /\ ans' = [ans EXCEPT !.wol = b]
    BY <2>1, AnswerStep
  <2>3. b \in WolAddresses /\ b \in BroadcastAddresses
    <3>1. ans.iface \in Interfaces
      BY <1>8 DEF SelectWOLAddress
    <3>2. ans.iface.broadcasts \subseteq Broadcasts
      BY <3>1, HostAssumption
    <3> QED  BY <2>1, <3>2 DEF WolOptions, WolAddresses, BroadcastAddresses
  <2>4. ans' \in Answers
    BY <2>2, <2>3, Zenon DEF Answers
  <2>5. /\ ans'.report = ans.report /\ ans'.path = ans.path /\ ans'.iface = ans.iface
        /\ ans'.address = ans.address /\ ans'.port = ans.port /\ ans'.daemon = ans.daemon /\ ans'.wol = b
    BY <2>2 DEF Answers
  <2> QED  BY <1>8, <2>2, <2>3, <2>4, <2>5 DEF SelectWOLAddress
<1>9. CASE SelectWaitTime
  <2>1. PICK w \in WaitInputs : ValidWait(w) /\ Answer("discover", [ans EXCEPT !.wait = w])
    BY <1>9 DEF SelectWaitTime
  <2>2. step' = "discover" /\ BackgroundInv' /\ ans' = [ans EXCEPT !.wait = w]
    BY <2>1, AnswerStep
  <2>3. w \in Waits /\ w # 0
    BY <2>1, HostFacts
  <2>4. ans' \in Answers
    BY <2>2, <2>3, Zenon DEF Answers
  <2>5. /\ ans'.report = ans.report /\ ans'.path = ans.path /\ ans'.iface = ans.iface
        /\ ans'.address = ans.address /\ ans'.port = ans.port /\ ans'.daemon = ans.daemon
        /\ ans'.wol = ans.wol /\ ans'.wait = w
    BY <2>2 DEF Answers
  <2> QED  BY <1>9, <2>2, <2>3, <2>4, <2>5 DEF SelectWaitTime
<1>10. CASE ReceiveDiscovery
  <2>1. BackgroundInv'
    BY <1>10 DEF ReceiveDiscovery, Past, BackgroundInv, Tasks
  <2>2. CASE OnlyURLs # {}
    <3>1. found # {}
      BY <2>2 DEF OnlyURLs
    <3>2. PICK u \in OnlyURLs : ans' = [ans EXCEPT !.url = u] /\ step' = "webhook"
      BY <1>10, <2>2, <3>1 DEF ReceiveDiscovery
    <3>3. u \in URLs /\ u \in GrubURLs
      BY <3>2, HostFacts DEF OnlyURLs, BackgroundInv, GrubURLs
    <3>4. ans' \in Answers
      BY <3>2, <3>3, Zenon DEF Answers
    <3>5. /\ ans'.report = ans.report /\ ans'.path = ans.path /\ ans'.iface = ans.iface
          /\ ans'.address = ans.address /\ ans'.port = ans.port /\ ans'.daemon = ans.daemon
          /\ ans'.wol = ans.wol /\ ans'.wait = ans.wait /\ ans'.url = u
      BY <3>2 DEF Answers
    <3> QED  BY <1>10, <2>1, <3>2, <3>3, <3>4, <3>5 DEF ReceiveDiscovery
  <2>3. CASE OnlyURLs = {}
    <3>1. step' \in {"instance", "manual"} /\ ans' = ans
      BY <1>10, <2>3 DEF ReceiveDiscovery
    <3> QED  BY <1>10, <2>1, <3>1 DEF ReceiveDiscovery
  <2> QED  BY <2>2, <2>3
<1>11. CASE SelectInstance
  <2>1. CASE Answer("manual", ans)
    <3>1. step' = "manual" /\ BackgroundInv' /\ ans' = ans
      BY <2>1, AnswerStep
    <3> QED  BY <1>11, <3>1 DEF SelectInstance
  <2>2. ASSUME NEW e \in found, Answer("agent", [ans EXCEPT !.inst = ExtractURLs(e)])
        PROVE  AnswersInv' /\ BackgroundInv'
    <3>1. step' = "agent" /\ BackgroundInv' /\ ans' = [ans EXCEPT !.inst = ExtractURLs(e)]
      BY <2>2, AnswerStep
    <3>2. ExtractURLs(e) \in Instances
      BY HostFacts DEF BackgroundInv, Instances
    <3>3. ans' \in Answers
      BY <3>1, <3>2, Zenon DEF Answers
    <3>4. /\ ans'.report = ans.report /\ ans'.path = ans.path /\ ans'.iface = ans.iface
          /\ ans'.address = ans.address /\ ans'.port = ans.port /\ ans'.daemon = ans.daemon
          /\ ans'.wol = ans.wol /\ ans'.wait = ans.wait
      BY <3>1 DEF Answers
    <3> QED  BY <1>11, <3>1, <3>3, <3>4 DEF SelectInstance
  <2> QED  BY <1>11, <2>1, <2>2 DEF SelectInstance
<1>12. CASE SelectAgentURL
  <2>1. PICK u \in ans.inst :
          IF Prefixed(u) /\ GrubOptions # {}
          THEN Answer("grub", [ans EXCEPT !.url = u])
          ELSE Answer("webhook", [ans EXCEPT !.url = u, !.inst = {}])
    BY <1>12 DEF SelectAgentURL
  <2>2. step' \in {"grub", "webhook"} /\ BackgroundInv'
        /\ (ans' = [ans EXCEPT !.url = u] \/ ans' = [ans EXCEPT !.url = u, !.inst = {}])
    BY <2>1, AnswerStep
  <2>3. u \in URLs /\ u \in GrubURLs /\ {} \in Instances
    BY DEF Answers, Instances, GrubURLs
  <2>4. ans' \in Answers
    BY <2>2, <2>3, Zenon DEF Answers
  <2>5. /\ ans'.report = ans.report /\ ans'.path = ans.path /\ ans'.iface = ans.iface
        /\ ans'.address = ans.address /\ ans'.port = ans.port /\ ans'.daemon = ans.daemon
        /\ ans'.wol = ans.wol /\ ans'.wait = ans.wait /\ ans'.url = u
    BY <2>2 DEF Answers
  <2> QED  BY <1>12, <2>2, <2>3, <2>4, <2>5 DEF SelectAgentURL
<1>13. CASE SelectGrubURL
  <2>1. PICK u \in GrubOptions : Answer("webhook", [ans EXCEPT !.grubURL = u, !.inst = {}])
    BY <1>13 DEF SelectGrubURL
  <2>2. step' = "webhook" /\ BackgroundInv' /\ ans' = [ans EXCEPT !.grubURL = u, !.inst = {}]
    BY <2>1, AnswerStep
  <2>3. u \in PlainURLs /\ {} \in Instances
    BY DEF GrubOptions, Answers, Instances, PlainURLs
  <2>4. ans' \in Answers
    BY <2>2, <2>3, Zenon DEF Answers
  <2>5. /\ ans'.report = ans.report /\ ans'.path = ans.path /\ ans'.iface = ans.iface
        /\ ans'.address = ans.address /\ ans'.port = ans.port /\ ans'.daemon = ans.daemon
        /\ ans'.wol = ans.wol /\ ans'.wait = ans.wait /\ ans'.url = ans.url
    BY <2>2 DEF Answers
  <2> QED  BY <1>13, <2>2, <2>4, <2>5 DEF SelectGrubURL
<1>14. CASE EnterURL
  <2>1. PICK u \in Typed : ValidURL(u) /\ Answer("webhook", [ans EXCEPT !.url = u])
    BY <1>14 DEF EnterURL
  <2>2. step' = "webhook" /\ BackgroundInv' /\ ans' = [ans EXCEPT !.url = u]
    BY <2>1, AnswerStep
  <2>3. u \in URLs /\ u \in GrubURLs
    BY <2>1, HostFacts DEF GrubURLs
  <2>4. ans' \in Answers
    BY <2>2, <2>3, Zenon DEF Answers
  <2>5. /\ ans'.report = ans.report /\ ans'.path = ans.path /\ ans'.iface = ans.iface
        /\ ans'.address = ans.address /\ ans'.port = ans.port /\ ans'.daemon = ans.daemon
        /\ ans'.wol = ans.wol /\ ans'.wait = ans.wait /\ ans'.url = u
    BY <2>2 DEF Answers
  <2> QED  BY <1>14, <2>2, <2>3, <2>4, <2>5 DEF EnterURL
<1>15. CASE EnterWebhookID
  <2>1. PICK w \in WebhookIDs :
          IF ans.dry THEN Leave
          ELSE ans' = [ans EXCEPT !.webhook = w] /\ step' = "save" /\ UNCHANGED <<fqdn, disc, found>>
    BY <1>15 DEF EnterWebhookID
  <2>2. CASE ans.dry
    BY <2>1, <2>2, LeaveInv
  <2>3. CASE ~ans.dry
    <3>1. step' = "save" /\ ans' = [ans EXCEPT !.webhook = w] /\ BackgroundInv'
      BY <2>1, <2>3 DEF BackgroundInv
    <3>2. w \in IDs
      BY DEF IDs
    <3>3. ans' \in Answers
      BY <3>1, <3>2, Zenon DEF Answers
    <3>4. /\ ans'.report = ans.report /\ ans'.path = ans.path /\ ans'.iface = ans.iface
          /\ ans'.address = ans.address /\ ans'.port = ans.port /\ ans'.daemon = ans.daemon
          /\ ans'.wol = ans.wol /\ ans'.wait = ans.wait /\ ans'.url = ans.url /\ ans'.webhook = w
      BY <3>1 DEF Answers
    <3> QED  BY <1>15, <3>1, <3>3, <3>4 DEF EnterWebhookID
  <2> QED  BY <2>2, <2>3
<1> QED
  BY <1>1, <1>2, <1>3, <1>4, <1>5, <1>6, <1>7, <1>8, <1>9, <1>10, <1>11, <1>12, <1>13, <1>14, <1>15
  DEF Survey

\* setup begins.
LEMMA BeginStep ==
    ASSUME AnswersInv, BackgroundInv,
           NEW h \in Hostnames, NEW p \in KnownPaths \cup {Empty}, NEW dry \in BOOLEAN, Begin(h, p, dry)
    PROVE  AnswersInv' /\ BackgroundInv'
<1>1. ans' = [NoAnswers EXCEPT !.hostname = h, !.path = p, !.dry = dry] /\ step' \in {"confirm", "mode"}
  BY DEF Begin
<1>2. h \in Names /\ p \in Paths
  BY HostFacts DEF KnownPaths, Paths
<1>3. ans' \in Answers
  BY <1>1, <1>2, NoAnswersTyped, Zenon DEF Answers
<1>4. ans'.report = FALSE
  BY <1>1 DEF NoAnswers
<1>5. BackgroundInv'
  BY StartTyped DEF Begin, BackgroundInv
<1> QED  BY <1>1, <1>3, <1>4, <1>5 DEF AnswersInv

----------------------------------------------------------------------------
(* The file and the script *)

\* A step that does not save keeps file, script and what made them.
LEMMA Kept ==
    ASSUME FileInv, NoDrift, UNCHANGED hostVars, visits' \in 0..MaxVisits
    PROVE  FileInv' /\ NoDrift'
BY DEF hostVars, FileInv, NoDrift, Written

\* The sample is a configuration that names its grub.cfg.
LEMMA SampleTyped ==
    Sample \in Config /\ Sample.grub.path # Empty /\ Sample.grub.url \in PlainURLs
<1> DEFINE m == CHOOSE x \in Macs : TRUE
           h == CHOOSE x \in Hosts : TRUE
           s == CHOOSE x \in Servers : TRUE
           u == [scheme |-> "http", host |-> s]
<1>1. m \in Macs /\ h \in Addresses /\ s \in Servers
  BY NamesAssumption DEF Addresses
<1>2. u \in URLs /\ ~Prefixed(u)
  BY <1>1 DEF URLs, Schemes, Prefixed
<1>3. u \in GrubURLs /\ u \in PlainURLs
  BY <1>2 DEF GrubURLs, PlainURLs
<1>4. DefaultWolBroadcastAddress \in BroadcastAddresses /\ "CHANGE_ME" \in Tokens /\ "grub.cfg" \in Paths
      /\ "key" \in Keys /\ 15 \in Int /\ DefaultAgentPort \in Int /\ TRUE \in BOOLEAN
  BY DEF BroadcastAddresses, Tokens, KnownPaths, Paths, Keys, DefaultAgentPort
<1>5. Sample.grub.path = "grub.cfg" /\ Sample.grub.url = u
  BY DEF Sample
<1> HIDE DEF m, h, s, u
<1>6. [address |-> DefaultWolBroadcastAddress, port |-> DefaultWolBroadcastPort] \in WakeOnLan
  BY <1>4, PortValues, Zenon DEF WakeOnLan
<1>7. [path |-> "grub.cfg", wait |-> 15, url |-> u] \in Grub
  BY <1>3, <1>4, Zenon DEF Grub
<1>8. Sample \in Config
  BY <1>1, <1>2, <1>4, <1>6, <1>7, PortValues, Zenon DEF Sample, Config, m, h, s, u
<1> QED  BY <1>3, <1>5, <1>8, Strings

\* The file after an edit.
LEMMA EditTyped ==
    ASSUME FileInv, Edit
    PROVE  /\ file' \in Config
           /\ file'.report => file'.grub.path # Empty
           /\ file'.grub.url \in PlainURLs
<1>1. file \in Config /\ (file.report => file.grub.path # Empty) /\ file.grub.url \in PlainURLs
  BY DEF FileInv, Edit
<1>2. CASE \E p \in PortInputs : file' = [file EXCEPT !.port = p]
  <2>1. PICK p \in Int : file' = [file EXCEPT !.port = p]
    BY <1>2, HostAssumption
  <2> QED  BY <1>1, <2>1, Zenon DEF Config, Grub
<1>3. CASE \E w \in EditedWaits : file' = [file EXCEPT !.grub.wait = w]
  <2>1. PICK w \in Int : file' = [file EXCEPT !.grub.wait = w]
    BY <1>3, HostAssumption
  <2> QED  BY <1>1, <2>1, Zenon DEF Config, Grub
<1>4. CASE \E w \in WebhookIDs : file' = [file EXCEPT !.webhook = w]
  <2>1. PICK w \in Tokens : file' = [file EXCEPT !.webhook = w]
    BY <1>4 DEF Tokens
  <2> QED  BY <1>1, <2>1, Zenon DEF Config, Grub
<1>5. CASE \E p \in Paths \ {Empty} : file' = [file EXCEPT !.grub.path = p]
  <2>1. PICK p \in Paths \ {Empty} : file' = [file EXCEPT !.grub.path = p]
    BY <1>5
  <2> QED  BY <1>1, <2>1, Zenon DEF Config, Grub
<1> QED  BY <1>2, <1>3, <1>4, <1>5 DEF Edit

\* What is saved is a file that can be read again.
LEMMA SavedTyped ==
    ASSUME AnswersInv, step = "save"
    PROVE  LET f == Exported(AssembleConfig) IN
           f \in Config /\ (f.report => f.grub.path # Empty) /\ f.grub.url \in PlainURLs
<1> DEFINE a == AssembleConfig
<1>1. a \in Config /\ a.report = ans.report /\ (ans.report => a.grub.path = ans.path) /\ a.grub.url = ans.grubURL
  BY AssembledParts
<1>2. ans.grubURL \in PlainURLs /\ (ans.report => ans.path # Empty)
  BY DEF AnswersInv, Answers
<1> HIDE DEF a
<1> QED  BY <1>1, <1>2, ExportedParts DEF a

\* The script of an installation is the one serve expects from the file.
LEMMA InstalledAgrees ==
    ASSUME AnswersInv, StoredInv, step = "script", file.report
    PROVE  /\ ans.report
           /\ SetupScript(AssembleConfig) = ExpectedScript(Unmarshal(file))
<1> DEFINE a == AssembleConfig
<1>1. a \in Config /\ a.report = ans.report /\ a.grub.wait = ans.wait
  BY AssembledParts
<1>2. file = Exported(a)
  BY DEF StoredInv
<1> HIDE DEF a
<1>3. ans.report
  BY <1>1, <1>2, ExportedParts
<1>4. a.grub.wait # 0
  BY <1>1, <1>3 DEF AnswersInv
<1>5. SetupScript(a) = ExpectedScript(Unmarshal(file))
  BY <1>1, <1>2, <1>4, NoFalseDrift
<1> QED  BY <1>3, <1>5 DEF a

----------------------------------------------------------------------------
(* The invariant *)

LEMMA InitInv == Init => WizardInv
<1> SUFFICES ASSUME Init PROVE WizardInv
  OBVIOUS
<1>1. ans \in Answers /\ ans.report = FALSE
  BY NoAnswersTyped DEF Init, NoAnswers
<1>2. fqdn \in Resolutions
  BY Zenon DEF Init, Resolutions, Tasks, Names
<1>3. FileInv
  BY PortValues, HostAssumption DEF Init, FileInv, Written
<1> QED
  BY <1>1, <1>2, <1>3 DEF Init, WizardInv, AnswersInv, BackgroundInv, StoredInv, NoDrift, Tasks

LEMMA StepInv == WizardInv /\ [Next]_vars => WizardInv'
<1> SUFFICES ASSUME WizardInv, [Next]_vars PROVE WizardInv'
  OBVIOUS
<1> USE DEF WizardInv
<1>1. CASE \E h \in Hostnames, p \in KnownPaths \cup {Empty}, dry \in BOOLEAN : Begin(h, p, dry)
  <2>1. PICK h \in Hostnames, p \in KnownPaths \cup {Empty}, dry \in BOOLEAN : Begin(h, p, dry)
    BY <1>1
  <2>2. AnswersInv' /\ BackgroundInv'
    BY <2>1, BeginStep
  <2>3. UNCHANGED hostVars /\ visits' \in 0..MaxVisits /\ step' # "script"
    BY <2>1, HostAssumption DEF Begin, Visit, FileInv
  <2> QED  BY <2>2, <2>3, Kept DEF StoredInv
<1>2. CASE Survey
  <2>1. AnswersInv' /\ BackgroundInv'
    BY <1>2, SurveyStep
  <2>2. UNCHANGED <<hostVars, visits>>
    BY <1>2 DEF Survey, Overwrite, Abort, SelectMode, SelectInterface, ReceiveName, SelectAddress, SelectPort,
                SelectWOLAddress, SelectWaitTime, ReceiveDiscovery, SelectInstance, SelectAgentURL,
                SelectGrubURL, EnterURL, EnterWebhookID, Answer
  <2>3. step' # "script"
    BY <1>2 DEF Survey, Overwrite, Abort, SelectMode, SelectInterface, ReceiveName, SelectAddress, SelectPort,
                SelectWOLAddress, SelectWaitTime, ReceiveDiscovery, SelectInstance, SelectAgentURL,
                SelectGrubURL, EnterURL, EnterWebhookID, Answer, Leave
  <2>4. visits' \in 0..MaxVisits
    BY <2>2 DEF FileInv
  <2> QED  BY <2>1, <2>2, <2>3, <2>4, Kept DEF StoredInv
<1>3. CASE Background
  <2>1. AnswersInv' /\ BackgroundInv'
    BY <1>3, BackgroundStep
  <2>2. step' = step /\ ans' = ans /\ UNCHANGED <<hostVars, visits>>
    BY <1>3 DEF Background, NameResolved, InstanceFound, DiscoveryEnds, DiscoveryFails
  <2>3. StoredInv'
    BY <2>2 DEF StoredInv, hostVars, AssembleConfig
  <2>4. visits' \in 0..MaxVisits
    BY <2>2 DEF FileInv
  <2> QED  BY <2>1, <2>2, <2>3, <2>4, Kept
<1>4. CASE SaveConfig
  <2>1. CASE file' = Exported(AssembleConfig) /\ synced' = "no" /\ step' = "script" /\ UNCHANGED <<ans, fqdn, disc, found>>
    <3>1. step = "save" /\ UNCHANGED <<script, running, visits>>
      BY <1>4 DEF SaveConfig, At
    <3>2. AnswersInv'
      BY <2>1, <3>1 DEF AnswersInv
    <3>3. BackgroundInv' /\ NoDrift'
      BY <2>1 DEF BackgroundInv, NoDrift
    <3>4. FileInv'
      BY <2>1, <3>1, SavedTyped DEF FileInv
    <3>5. StoredInv'
      BY <2>1 DEF StoredInv, AssembleConfig
    <3> QED  BY <3>2, <3>3, <3>4, <3>5
  <2>2. CASE file' = Truncated /\ synced' = "no" /\ Leave
    <3>1. FileInv' /\ NoDrift' /\ step' # "script"
      BY <1>4, <2>2 DEF SaveConfig, Leave, FileInv, Written, NoDrift
    <3> QED  BY <2>2, <3>1, LeaveInv DEF StoredInv
  <2>3. CASE UNCHANGED <<file, synced>> /\ Leave
    <3>1. UNCHANGED hostVars /\ visits' \in 0..MaxVisits /\ step' # "script"
      BY <1>4, <2>3 DEF SaveConfig, Leave, hostVars, FileInv
    <3> QED  BY <2>3, <3>1, LeaveInv, Kept DEF StoredInv
  <2> QED  BY <1>4, <2>1, <2>2, <2>3 DEF SaveConfig
<1>5. CASE InstallHook
  <2>1. AnswersInv' /\ BackgroundInv' /\ StoredInv'
    BY <1>5, LeaveInv DEF InstallHook, Leave, StoredInv
  <2>2. step = "script" /\ UNCHANGED <<file, running, visits>>
    BY <1>5 DEF InstallHook, At
  <2>3. FileInv'
    BY <1>5, <2>2 DEF InstallHook, HookWritten, FileInv, Written
  <2>4. CASE HookWritten(AssembleConfig, "survey")
    <3>1. AssembleConfig.report = ans.report
      BY <2>2, AssembledParts
    <3>2. synced' # "no" /\ file.report => script' = ExpectedScript(Unmarshal(file))
      BY <2>2, <2>4, <3>1, InstalledAgrees DEF HookWritten
    <3> QED  BY <2>1, <2>2, <2>3, <3>2 DEF NoDrift, StoredInv
  <2>5. CASE UNCHANGED <<script, synced>>
    BY <2>1, <2>2, <2>3, <2>5 DEF NoDrift
  <2> QED  BY <1>5, <2>4, <2>5 DEF InstallHook
<1>6. CASE Apply
  <2>1. UNCHANGED <<step, ans, fqdn, disc, found, file, running, visits>> /\ step = "idle" /\ Written
        /\ HookWritten(Unmarshal(file), "apply")
    BY <1>6 DEF Apply, surveyVars, At
  <2>2. AnswersInv' /\ BackgroundInv' /\ FileInv' /\ StoredInv'
    BY <2>1 DEF AnswersInv, BackgroundInv, FileInv, Written, StoredInv, HookWritten
  <2>3. file \in Config
    BY <2>1 DEF FileInv
  <2>4. synced' # "no" /\ file.report => script' = ExpectedScript(Unmarshal(file))
    BY <2>1, <2>3, UnmarshalParts, AppliedAgrees DEF HookWritten
  <2> QED  BY <2>1, <2>2, <2>4 DEF NoDrift
<1>7. CASE ConfigInit
  <2>1. UNCHANGED <<step, ans, fqdn, disc, found, script, running>> /\ step = "idle"
        /\ file' \in {Sample, Truncated} /\ synced' = "no" /\ visits' \in 0..MaxVisits
    BY <1>7, HostAssumption DEF ConfigInit, surveyVars, At, Visit, FileInv
  <2>2. AnswersInv' /\ BackgroundInv' /\ StoredInv' /\ NoDrift'
    BY <2>1 DEF AnswersInv, BackgroundInv, StoredInv, NoDrift
  <2>3. FileInv'
    BY <2>1, SampleTyped DEF FileInv, Written
  <2> QED  BY <2>2, <2>3
<1>8. CASE Edit
  <2>1. UNCHANGED <<step, ans, fqdn, disc, found, script, running>> /\ step = "idle"
        /\ synced' = "no" /\ visits' \in 0..MaxVisits
    BY <1>8, HostAssumption DEF Edit, surveyVars, At, Visit, FileInv
  <2>2. AnswersInv' /\ BackgroundInv' /\ StoredInv' /\ NoDrift'
    BY <2>1 DEF AnswersInv, BackgroundInv, StoredInv, NoDrift
  <2>3. FileInv'
    BY <1>8, <2>1, EditTyped DEF FileInv
  <2> QED  BY <2>2, <2>3
<1>9. CASE Serve \/ ServeEnds
  <2>1. UNCHANGED <<step, ans, fqdn, disc, found, file, script, synced, visits>>
    BY <1>9 DEF Serve, ServeEnds, surveyVars
  <2>2. running' \in Ports
    <3>1. CASE Serve
      <4>1. Unmarshal(file).port \in Int /\ ValidPort(Unmarshal(file).port)
        BY <3>1, UnmarshalParts, ConfigParts DEF Serve, FileInv
      <4> QED  BY <3>1, <4>1 DEF Serve, ValidPort, Ports
    <3>2. CASE ServeEnds
      BY <3>2, PortValues DEF ServeEnds
    <3> QED  BY <1>9, <3>1, <3>2
  <2>3. AnswersInv' /\ BackgroundInv' /\ FileInv' /\ NoDrift'
    BY <2>1, <2>2 DEF AnswersInv, BackgroundInv, FileInv, Written, NoDrift
  <2>4. StoredInv'
    BY <2>1 DEF StoredInv, AssembleConfig
  <2> QED  BY <2>3, <2>4
<1>10. CASE UNCHANGED vars
  <2>1. UNCHANGED <<step, ans, fqdn, disc, found, hostVars, visits>>
    BY <1>10 DEF vars, surveyVars
  <2>2. AnswersInv' /\ BackgroundInv'
    BY <2>1 DEF AnswersInv, BackgroundInv
  <2>3. StoredInv'
    BY <2>1 DEF StoredInv, AssembleConfig, hostVars
  <2>4. visits' \in 0..MaxVisits
    BY <2>1 DEF FileInv
  <2> QED  BY <2>1, <2>2, <2>3, <2>4, Kept
<1> QED
  BY <1>1, <1>2, <1>3, <1>4, <1>5, <1>6, <1>7, <1>8, <1>9, <1>10 DEF Next

LEMMA Invariance == Spec => []WizardInv
BY InitInv, StepInv, PTL DEF Spec

----------------------------------------------------------------------------
(* The background tasks *)

\* From the start of the survey until their results are received there are a
\* goroutine or a result.
TasksInv ==
    /\ step \in {"mode", "iface", "resolve"} => fqdn.at # "none"
    /\ step \in {"mode", "iface", "resolve", "address", "port", "wol", "wait", "discover"} => disc # "none"

LEMMA TasksStep == TasksInv /\ [Next]_vars => TasksInv'
<1> SUFFICES ASSUME TasksInv, [Next]_vars PROVE TasksInv'
  OBVIOUS
<1> USE DEF TasksInv, At
<1>1. CASE Leave
  BY <1>1 DEF Leave
<1>2. CASE StartBackground
  BY <1>2 DEF StartBackground
<1>3. CASE UNCHANGED <<step, fqdn, disc>>
  BY <1>3
<1>4. CASE \E h \in Hostnames, p \in KnownPaths \cup {Empty}, dry \in BOOLEAN : Begin(h, p, dry)
  BY <1>2, <1>4 DEF Begin
<1>5. CASE Background
  BY <1>5 DEF Background, NameResolved, InstanceFound, DiscoveryEnds, DiscoveryFails
<1>6. CASE Survey
  <2>1. CASE Overwrite \/ Abort
    BY <1>1, <1>2, <2>1 DEF Overwrite, Abort
  <2>2. CASE ReceiveName \/ ReceiveDiscovery
    BY <2>2 DEF ReceiveName, ReceiveDiscovery
  <2>3. CASE SelectMode \/ SelectInterface
    BY <2>3 DEF SelectMode, SelectInterface, Answer
  <2>4. CASE SelectAddress \/ SelectPort \/ SelectWOLAddress \/ SelectWaitTime
    BY <2>4 DEF SelectAddress, SelectPort, SelectWOLAddress, SelectWaitTime, Answer
  <2>5. CASE SelectInstance \/ SelectAgentURL \/ SelectGrubURL \/ EnterURL \/ EnterWebhookID
    BY <1>1, <2>5 DEF SelectInstance, SelectAgentURL, SelectGrubURL, EnterURL, EnterWebhookID, Answer
  <2> QED  BY <1>6, <2>1, <2>2, <2>3, <2>4, <2>5 DEF Survey
<1>7. CASE SaveConfig
  BY <1>1, <1>7 DEF SaveConfig
<1>8. CASE InstallHook
  BY <1>1, <1>8 DEF InstallHook
<1>9. CASE Apply \/ ConfigInit \/ Edit \/ Serve \/ ServeEnds \/ UNCHANGED vars
  BY <1>3, <1>9 DEF Apply, ConfigInit, Edit, Serve, ServeEnds, vars, surveyVars
<1> QED
  BY <1>4, <1>5, <1>6, <1>7, <1>8, <1>9 DEF Next

----------------------------------------------------------------------------
(* The properties *)

\* Every variable has its type: no answer, file or port leaves the values that
\* the functions of Settings are stated for.
THEOREM WizardTypeCorrect == Spec => []TypeOK
<1>1. WizardInv => TypeOK
  <2> SUFFICES ASSUME WizardInv PROVE TypeOK
    OBVIOUS
  <2>1. ans.port \in Ports /\ ans.wait \in Waits /\ ans.url \in GrubURLs /\ ans.grubURL \in PlainURLs
    BY DEF WizardInv, AnswersInv, Answers
  <2>2. fqdn.at \in Tasks
    BY DEF WizardInv, BackgroundInv, Resolutions
  <2> QED
    BY <2>1, <2>2 DEF TypeOK, WizardInv, AnswersInv, BackgroundInv, FileInv, Written, Waits, GrubURLs, PlainURLs, Tasks
<1> QED  BY <1>1, Invariance, PTL

\* Whatever is answered, and however often the host is set up again, the script
\* setup leaves behind is the one serve expects from the file it leaves behind.
THEOREM ScriptMatchesFile == Spec => []NoDrift
<1>1. WizardInv => NoDrift
  BY DEF WizardInv
<1> QED  BY <1>1, Invariance, PTL

\* No answer is lost or changed on its way through Save and LoadConfig.
THEOREM AnswersSurvive == Spec => []AsAsked
<1>1. WizardInv => AsAsked
  <2> SUFFICES ASSUME WizardInv, step = "script" PROVE AsAsked
    BY DEF AsAsked, At
  <2>1. AnswersInv /\ StoredInv
    BY DEF WizardInv
  <2>2. ans.wol \in WolAddresses /\ (ans.daemon => ans.port # 0) /\ (ans.report => ans.wait # 0)
    BY <2>1 DEF AnswersInv
  <2>3. ans.wol # Empty
    BY <2>2, NamesAssumption, Strings DEF WolAddresses
  <2>4. Effective(Unmarshal(file)).wolPort = DefaultWolBroadcastPort
    BY <2>1, ReadBack DEF Effective, Unless, DefaultWolBroadcastPort
  <2>5. Effective(Unmarshal(file)).broadcast = ans.wol
    BY <2>1, <2>3, ReadBack DEF Effective, Unless
  <2> QED  BY <2>1, <2>2, <2>4, <2>5, ReadBack DEF AsAsked, Unless
<1> QED  BY <1>1, Invariance, PTL

\* The agent accepts every file setup has saved, with the exceptions the property
\* names.
THEOREM SavedFileLoads == Spec => []SavedLoads
<1>1. WizardInv => SavedLoads
  <2> SUFFICES ASSUME WizardInv, Written, file.address \in Hosts, file.grub.url.scheme # "HTTPS",
                      file.webhook # "CHANGE_ME"
               PROVE  Validate(Unmarshal(file))
    BY DEF SavedLoads
  <2> DEFINE c == Unmarshal(file)
  <2>1. /\ file \in Config /\ (file.report => file.grub.path # Empty) /\ file.grub.url \in PlainURLs
    BY DEF WizardInv, FileInv
  <2>2. /\ c \in Config /\ c.mac = file.mac /\ c.address = file.address /\ c.url = file.url
        /\ c.webhook = file.webhook /\ c.report = file.report /\ c.grub.path = file.grub.path
        /\ c.grub.url = file.grub.url
    BY <2>1, UnmarshalParts
  <2> HIDE DEF c
  <2>3. c.mac \in Macs /\ c.address \in Hosts /\ c.webhook \in WebhookIDs
    BY <2>1, <2>2, ConfigParts DEF Tokens
  <2>4. \A u \in URLs : ValidURL(u)
    BY NamesAssumption, Strings DEF URLs, Schemes, ValidURL
  <2>5. c.url \in URLs
    BY <2>2, ConfigParts
  <2>6. c.grub.url # NoURL => ValidGrubURL(c.grub.url)
    BY <2>1, <2>2, <2>4 DEF PlainURLs, ValidGrubURL, Prefixed, Scheme
  <2>7. c.wol.address \in BroadcastAddresses /\ (c.wol.port # 0 => ValidPort(c.wol.port))
    BY <2>2, ConfigParts DEF Ports, ValidPort
  <2> QED  BY <2>1, <2>2, <2>3, <2>4, <2>5, <2>6, <2>7 DEF Validate, c
<1> QED  BY <1>1, Invariance, PTL

\* The survey never waits for a channel that nobody will send into, or one whose
\* result it has already taken.
THEOREM NeverInVain == Spec => []ResultComes
<1>1. Init => TasksInv
  BY DEF Init, TasksInv
<1>2. TasksInv => ResultComes
  BY DEF TasksInv, ResultComes, At
<1> QED  BY <1>1, <1>2, TasksStep, PTL DEF Spec

----------------------------------------------------------------------------
(* What has to be so for GRUB to get an address it can ask *)

\* Of the URLs of an instance one is http, if there are any, and none is spelled
\* in another way.
PlainToo(urls) ==
    /\ \A u \in urls : u.scheme \in {"http", "https"}
    /\ urls # {} => \E u \in urls : u.scheme = "http"

\* Every answer is that of such an instance, and the user types http URLs only.
PlainChoice ==
    /\ \A e \in Entries : IsFiniteSet(ExtractURLs(e)) /\ PlainToo(ExtractURLs(e))
    /\ \A u \in Typed : u.scheme \notin {"https", "HTTPS"}

\* What the survey has chosen for GRUB
ChosenTarget == IF ans.grubURL # NoURL THEN ans.grubURL ELSE ans.url

PlainInv ==
    /\ step \notin {"webhook", "save", "script"} => ans.grubURL = NoURL
    /\ step \in {"agent", "grub"} => PlainToo(ans.inst)
    /\ step \in {"webhook", "save", "script"} => Scheme(ChosenTarget) = "http"
    /\ HookSpeaksHTTP

LEMMA PlainAnswers ==
    ASSUME PlainChoice, WizardInv, PlainInv, Survey
    PROVE  PlainInv'
<1> USE DEF PlainInv, At
<1>1. ans \in Answers /\ found \subseteq Entries /\ NoAnswers.grubURL = NoURL
  BY DEF WizardInv, AnswersInv, BackgroundInv, NoAnswers
<1>2. HookSpeaksHTTP'
  <2>1. UNCHANGED hostVars
    BY DEF Survey, Overwrite, Abort, SelectMode, SelectInterface, ReceiveName, SelectAddress, SelectPort,
           SelectWOLAddress, SelectWaitTime, ReceiveDiscovery, SelectInstance, SelectAgentURL, SelectGrubURL,
           EnterURL, EnterWebhookID, Answer
  <2> QED  BY <2>1 DEF hostVars, HookSpeaksHTTP
<1>3. CASE Overwrite \/ Abort
  BY <1>1, <1>2, <1>3 DEF Overwrite, Abort, Leave
<1>4. CASE ReceiveName
  BY <1>2, <1>4 DEF ReceiveName
<1>5. CASE SelectMode \/ SelectInterface
  BY <1>1, <1>2, <1>5 DEF SelectMode, SelectInterface, Answer, Answers
<1>6. CASE SelectAddress \/ SelectPort
  BY <1>1, <1>2, <1>6 DEF SelectAddress, SelectPort, Answer, Answers
<1>7. CASE SelectWOLAddress \/ SelectWaitTime
  BY <1>1, <1>2, <1>7 DEF SelectWOLAddress, SelectWaitTime, Answer, Answers
<1>8. CASE ReceiveDiscovery
  <2>1. CASE OnlyURLs # {}
    <3>1. found # {}
      BY <2>1 DEF OnlyURLs
    <3>2. PICK u \in OnlyURLs : ans' = [ans EXCEPT !.url = u] /\ step' = "webhook"
      BY <1>8, <2>1, <3>1 DEF ReceiveDiscovery
    <3>3. PICK e \in found : u \in ExtractURLs(e) /\ Cardinality(ExtractURLs(e)) = 1
      BY <3>2 DEF OnlyURLs
    <3>4. IsFiniteSet(ExtractURLs(e)) /\ PlainToo(ExtractURLs(e))
      BY <1>1 DEF PlainChoice
    <3>5. PICK v \in ExtractURLs(e) : v.scheme = "http"
      BY <3>3, <3>4 DEF PlainToo
    <3>6. u = v
      BY <3>3, <3>4, <3>5, FS_Singleton
    <3>7. ans'.grubURL = NoURL /\ ans'.url = u
      BY <1>1, <1>8, <3>2 DEF ReceiveDiscovery, Answers
    <3> QED  BY <1>2, <3>2, <3>5, <3>6, <3>7 DEF ChosenTarget, Scheme
  <2>2. CASE OnlyURLs = {}
    <3>1. step' \in {"instance", "manual"} /\ ans' = ans
      BY <1>8, <2>2 DEF ReceiveDiscovery
    <3> QED  BY <1>2, <1>8, <3>1 DEF ReceiveDiscovery
  <2> QED  BY <2>1, <2>2
<1>9. CASE SelectInstance
  <2>1. CASE Answer("manual", ans)
    BY <1>2, <1>9, <2>1 DEF SelectInstance, Answer
  <2>2. ASSUME NEW e \in found, Answer("agent", [ans EXCEPT !.inst = ExtractURLs(e)])
        PROVE  PlainInv'
    <3>1. ans'.inst = ExtractURLs(e) /\ ans'.grubURL = NoURL /\ step' = "agent"
      BY <1>1, <1>9, <2>2 DEF SelectInstance, Answer, Answers
    <3> QED  BY <1>1, <1>2, <3>1 DEF PlainChoice, PlainToo
  <2> QED  BY <1>9, <2>1, <2>2 DEF SelectInstance
<1>10. CASE SelectAgentURL
  <2>1. PICK u \in ans.inst :
          IF Prefixed(u) /\ GrubOptions # {}
          THEN Answer("grub", [ans EXCEPT !.url = u])
          ELSE Answer("webhook", [ans EXCEPT !.url = u, !.inst = {}])
    BY <1>10 DEF SelectAgentURL
  <2>2. PlainToo(ans.inst) /\ ans.grubURL = NoURL
    BY <1>10 DEF SelectAgentURL
  <2>3. CASE Prefixed(u) /\ GrubOptions # {}
    <3>1. step' = "grub" /\ ans'.inst = ans.inst /\ ans'.grubURL = NoURL
      BY <1>1, <2>1, <2>2, <2>3 DEF Answer, Answers
    <3> QED  BY <1>2, <2>2, <3>1
  <2>4. CASE ~(Prefixed(u) /\ GrubOptions # {})
    <3>1. step' = "webhook" /\ ans'.url = u /\ ans'.grubURL = NoURL
      BY <1>1, <2>1, <2>2, <2>4 DEF Answer, Answers
    <3>2. PICK v \in ans.inst : v.scheme = "http"
      BY <2>1, <2>2 DEF PlainToo
    <3>3. v \in GrubOptions
      BY <3>2 DEF GrubOptions, Prefixed
    <3>4. u.scheme = "http"
      BY <2>2, <2>4, <3>3 DEF PlainToo, Prefixed
    <3> QED  BY <1>2, <3>1, <3>4 DEF ChosenTarget, Scheme
  <2> QED  BY <2>3, <2>4
<1>11. CASE SelectGrubURL
  <2>1. PICK u \in GrubOptions : Answer("webhook", [ans EXCEPT !.grubURL = u, !.inst = {}])
    BY <1>11 DEF SelectGrubURL
  <2>2. u.scheme = "http"
    BY <1>11, <2>1 DEF SelectGrubURL, GrubOptions, PlainToo, Prefixed
  <2>3. u # NoURL
    BY <2>2, Strings DEF NoURL
  <2>4. step' = "webhook" /\ ans'.grubURL = u
    BY <1>1, <2>1 DEF Answer, Answers
  <2> QED  BY <1>2, <2>2, <2>3, <2>4 DEF ChosenTarget, Scheme
<1>12. CASE EnterURL
  <2>1. PICK u \in Typed : ValidURL(u) /\ Answer("webhook", [ans EXCEPT !.url = u])
    BY <1>12 DEF EnterURL
  <2>2. u.scheme = "http"
    BY <2>1, HostFacts DEF PlainChoice, URLs, Schemes
  <2>3. step' = "webhook" /\ ans'.url = u /\ ans'.grubURL = NoURL
    BY <1>1, <1>12, <2>1 DEF EnterURL, Answer, Answers
  <2> QED  BY <1>2, <2>2, <2>3 DEF ChosenTarget, Scheme
<1>13. CASE EnterWebhookID
  <2>1. PICK w \in WebhookIDs :
          IF ans.dry THEN Leave
          ELSE ans' = [ans EXCEPT !.webhook = w] /\ step' = "save" /\ UNCHANGED <<fqdn, disc, found>>
    BY <1>13 DEF EnterWebhookID
  <2>2. CASE ans.dry
    BY <1>1, <1>2, <2>1, <2>2 DEF Leave
  <2>3. CASE ~ans.dry
    <3>1. step' = "save" /\ ans'.grubURL = ans.grubURL /\ ans'.url = ans.url
      BY <1>1, <2>1, <2>3 DEF Answers
    <3> QED  BY <1>2, <1>13, <3>1 DEF EnterWebhookID, ChosenTarget
  <2> QED  BY <2>2, <2>3
<1> QED
  BY <1>3, <1>4, <1>5, <1>6, <1>7, <1>8, <1>9, <1>10, <1>11, <1>12, <1>13 DEF Survey

LEMMA PlainStep ==
    ASSUME PlainChoice, WizardInv, PlainInv, [Next]_vars
    PROVE  PlainInv'
<1> USE DEF PlainInv, At
<1>1. CASE \E h \in Hostnames, p \in KnownPaths \cup {Empty}, dry \in BOOLEAN : Begin(h, p, dry)
  <2>1. ans'.grubURL = NoURL /\ step' \in {"confirm", "mode"} /\ UNCHANGED hostVars
    BY <1>1 DEF Begin, NoAnswers
  <2> QED  BY <2>1 DEF hostVars, HookSpeaksHTTP
<1>2. CASE Survey
  BY <1>2, PlainAnswers
<1>3. CASE UNCHANGED <<step, ans, file, synced>>
  BY <1>3 DEF HookSpeaksHTTP, ChosenTarget
<1>4. CASE Background \/ Serve \/ ServeEnds \/ UNCHANGED vars
  BY <1>3, <1>4 DEF Background, NameResolved, InstanceFound, DiscoveryEnds, DiscoveryFails, Serve, ServeEnds,
                    vars, surveyVars, hostVars
<1>5. CASE SaveConfig
  <2>1. /\ step = "save" /\ HookSpeaksHTTP'
        /\ \/ step' = "script" /\ UNCHANGED ans
           \/ step' = "idle" /\ ans' = NoAnswers
    BY <1>5 DEF SaveConfig, Leave, HookSpeaksHTTP
  <2> QED  BY <2>1 DEF NoAnswers, ChosenTarget
<1>6. CASE InstallHook
  <2>1. step = "script" /\ file' = file /\ step' = "idle" /\ ans'.grubURL = NoURL
    BY <1>6 DEF InstallHook, Leave, NoAnswers
  <2>2. file.url = ans.url /\ file.grub.url = ans.grubURL
    <3>1. AssembleConfig \in Config /\ AssembleConfig.url = ans.url /\ AssembleConfig.grub.url = ans.grubURL
      BY <2>1, AssembledParts DEF WizardInv
    <3>2. file = Exported(AssembleConfig)
      BY <2>1 DEF WizardInv, StoredInv
    <3> QED  BY <3>1, <3>2, ExportedParts
  <2>3. Scheme(TargetURL(file)) = "http"
    BY <2>1, <2>2 DEF ChosenTarget, TargetURL
  <2> QED  BY <2>1, <2>3 DEF HookSpeaksHTTP
<1>7. CASE Apply \/ ConfigInit \/ Edit
  <2>1. UNCHANGED <<step, ans>> /\ synced' # "survey"
    BY <1>7 DEF Apply, HookWritten, ConfigInit, Edit, surveyVars
  <2> QED  BY <2>1 DEF HookSpeaksHTTP, ChosenTarget
<1> QED
  BY <1>1, <1>2, <1>4, <1>5, <1>6, <1>7 DEF Next

\* The survey gives GRUB an http address whenever there is one to give: where
\* every instance has one and no other is typed, in whatever order Home Assistant
\* is discovered and the survey is repeated.
THEOREM HookIsPlain == PlainChoice => (Spec => []HookSpeaksHTTP)
<1> SUFFICES ASSUME PlainChoice PROVE Spec => []HookSpeaksHTTP
  OBVIOUS
<1>1. Init => PlainInv
  BY DEF Init, NoAnswers, PlainInv, HookSpeaksHTTP
<1>2. PlainInv => HookSpeaksHTTP
  BY DEF PlainInv
<1>3. WizardInv /\ PlainInv /\ [Next]_vars => PlainInv'
  BY PlainStep
<1> QED  BY <1>1, <1>2, <1>3, InitInv, StepInv, PTL DEF Spec
=============================================================================
