------------------------------ MODULE Settings ------------------------------
(***************************************************************************)
(* The configuration (internal/config) and what is made of it: what        *)
(* Validate accepts, what Save leaves out and Unmarshal puts back, and the *)
(* GRUB script setup writes and serve compares (internal/grub/setup.go).   *)
(*                                                                         *)
(* A section that is not there reads back as one with nothing in it:       *)
(* Unmarshal makes the grub section, and the flag of the Wake-on-LAN port, *)
(* bound with its default, the other.  Empty and 0 stand for a field that  *)
(* is left out.                                                            *)
(***************************************************************************)
EXTENDS Integers, FiniteSets

CONSTANTS
    Hosts,          \* addresses and names ValidateHost accepts
    OddHosts,       \* names of machines that it refuses
    Macs,           \* hardware addresses
    WebhookIDs,     \* 64 characters long, as ValidateWebhookID wants them
    Broadcasts,     \* broadcast addresses other than the default
    Servers         \* where Home Assistant can be: host and port of a URL

Empty == ""

ASSUME NamesAssumption ==
    /\ Empty \notin Hosts \cup OddHosts \cup Broadcasts \cup Servers
    /\ Hosts \cap OddHosts = {}
    /\ "255.255.255.255" \notin Broadcasts
    /\ Macs # {} /\ Hosts # {} /\ Servers # {}

DefaultWolBroadcastAddress == "255.255.255.255"
DefaultWolBroadcastPort == 9
DefaultAgentPort == 8081
DefaultGrubWaitSeconds == 2

\* "HTTPS" is the scheme as a server may spell it; net/url lowers it.
Schemes == {"http", "https", "HTTPS"}
URLs == [scheme : Schemes, host : Servers]
NoURL == [scheme |-> Empty, host |-> Empty]
Scheme(u) == IF u.scheme = "HTTPS" THEN "https" ELSE u.scheme

UncheckedPort(p) == p >= 1          \* mutation: no upper bound
ValidPort(p) == 1 <= p /\ p <= 65535

Addresses == Hosts \cup OddHosts
Ports == {p \in Nat : p <= 65535}     \* 0: none is set
BroadcastAddresses == Broadcasts \cup {Empty, DefaultWolBroadcastAddress}
KnownPaths == {"grub.cfg"}           \* where findConfig looks
Paths == KnownPaths \cup {Empty, "other.cfg"}
GrubURLs == URLs \cup {NoURL}
Tokens == WebhookIDs \cup {"CHANGE_ME"}
Keys == {Empty, "key"}

WakeOnLan == [address : BroadcastAddresses, port : Ports]
Grub == [path : Paths, wait : Int, url : GrubURLs]
Config ==
    [mac : Macs, address : Addresses, wol : WakeOnLan, url : URLs, webhook : Tokens,
     grub : Grub, port : Int, key : Keys, report : BOOLEAN]

----------------------------------------------------------------------------
(* Validation *)

ValidWait(w) == 1 <= w /\ w <= 300  \* asked of the wizard's answer only
ValidURL(u) == u.scheme # Empty /\ u.host # Empty
ValidGrubURL(u) == ValidURL(u) /\ Scheme(u) # "https"

\* The port of the daemon is not looked at.
Validate(c) ==
    /\ c.mac \in Macs /\ c.address \in Hosts
    /\ ValidURL(c.url) /\ c.webhook \in WebhookIDs
    /\ c.report => /\ c.grub.path # Empty
                   /\ c.grub.url # NoURL => ValidGrubURL(c.grub.url)
    /\ c.wol.port # 0 => ValidPort(c.wol.port)
    /\ c.wol.address \in BroadcastAddresses

----------------------------------------------------------------------------
(* The file *)

Unless(v, default, absent) == IF v = default THEN absent ELSE v

OtherDefault(c) ==                  \* mutation: the exporter has a default of its own
    [c EXCEPT !.wol.address = Unless(@, DefaultWolBroadcastAddress, Empty),
              !.wol.port = Unless(@, DefaultWolBroadcastPort, 0),
              !.grub.wait = Unless(@, 5, 0)]

WolByPort(c) ==                     \* mutation: a default port drops the whole section
    [c EXCEPT !.wol = IF @.port \in {0, DefaultWolBroadcastPort}
                      THEN [address |-> Empty, port |-> 0] ELSE @,
              !.grub.wait = Unless(@, DefaultGrubWaitSeconds, 0)]

\* Save: what is at its default is left out.
Exported(c) ==
    [c EXCEPT !.wol.address = Unless(@, DefaultWolBroadcastAddress, Empty),
              !.wol.port = Unless(@, DefaultWolBroadcastPort, 0),
              !.grub.wait = Unless(@, DefaultGrubWaitSeconds, 0)]

\* LoadConfig without flags on the command line: Unmarshal's defaults, and
\* the default of --broadcast-port.
Unmarshal(f) ==
    [f EXCEPT !.wol.port = Unless(@, 0, DefaultWolBroadcastPort),
              !.grub.wait = Unless(@, 0, DefaultGrubWaitSeconds),
              !.port = Unless(@, 0, DefaultAgentPort)]

\* config init writes this, defaults included (SaveExhaustive).
Sample ==
    [mac |-> CHOOSE m \in Macs : TRUE, address |-> CHOOSE h \in Hosts : TRUE,
     wol |-> [address |-> DefaultWolBroadcastAddress, port |-> DefaultWolBroadcastPort],
     url |-> [scheme |-> "http", host |-> CHOOSE s \in Servers : TRUE], webhook |-> "CHANGE_ME",
     grub |-> [path |-> "grub.cfg", wait |-> 15,
               url |-> [scheme |-> "http", host |-> CHOOSE s \in Servers : TRUE]],
     port |-> DefaultAgentPort, key |-> "key", report |-> TRUE]

\* The settings the daemon sends to Home Assistant and runs by.  A missing
\* broadcast address or port means the default one to Home Assistant.
Effective(c) ==
    [mac |-> c.mac, address |-> c.address, url |-> c.url, webhook |-> c.webhook,
     broadcast |-> Unless(c.wol.address, Empty, DefaultWolBroadcastAddress),
     wolPort |-> Unless(c.wol.port, 0, DefaultWolBroadcastPort), report |-> c.report]

----------------------------------------------------------------------------
(* The GRUB script *)

\* GRUB's loop has one attempt per word of this list, and it is never empty.
Attempts(seconds) == IF seconds <= 0 THEN 1 ELSE seconds

\* The script names a host only: GRUB fetches over HTTP whatever the scheme.
GenerateScript(mac, target, token, wait) ==
    [host |-> target.host, mac |-> mac, token |-> token, wait |-> wait, attempts |-> Attempts(wait)]

TargetURL(c) == IF c.grub.url # NoURL THEN c.grub.url ELSE c.url

\* performInstall, and doDryRun for its preview
SetupScript(c) == GenerateScript(c.mac, TargetURL(c), c.webhook, c.grub.wait)

\* serve
ExpectedScript(c) ==
    GenerateScript(c.mac, TargetURL(c), c.webhook, Unless(c.grub.wait, 0, DefaultGrubWaitSeconds))

----------------------------------------------------------------------------
(* The menu *)

\* NewGrub sets no ConfigPath, and neither does who reads the configuration.
ConfigPath == Empty

\* The grub.cfg GetBootOptions opens; known is what findConfig returns.
MenuFile(known) == IF ConfigPath # Empty THEN ConfigPath ELSE known
=============================================================================
