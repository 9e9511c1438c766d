------------------------------ MODULE Webhook ------------------------------
(***************************************************************************)
(* The Home Assistant webhook client (internal/homeassistant/client.go)    *)
(* and, as an external party, the Home Assistant it posts to.              *)
(*                                                                         *)
(* A sender (a goroutine of the daemon, or a command-line process) has at  *)
(* most one request outstanding: PostWebhook is synchronous.  The client   *)
(* counts a request as done only if it was answered 200 with the body      *)
(* "OK".  It gives up on a timeout, a cancelled context or a broken        *)
(* connection, but the request may still be on its way: Home Assistant can *)
(* process it after the sender has gone on to something else.  `late`      *)
(* holds those abandoned requests.                                         *)
(*                                                                         *)
(* A boot menu is represented by its version: a later menu has a higher    *)
(* number, and 0 stands for a host that never reported one.                *)
(***************************************************************************)
EXTENDS Naturals, FiniteSets

CONSTANTS
    Senders,        \* who may post to the webhook
    Tokens,         \* bearer tokens
    NoToken,        \* the empty token
    MaxMenu,        \* bound: versions of the boot menu
    MaxLate         \* bound: abandoned requests still on their way

ASSUME NoTokenAssumption == NoToken \notin Tokens
ASSUME BoundsAssumption == MaxMenu \in Nat /\ MaxLate \in Nat

VARIABLES
    msg,            \* msg[s]: the payload s is posting
    reply,          \* reply[s]: what became of that request
    late,           \* abandoned requests that may still arrive
    ha              \* what Home Assistant has stored for this host

webhookVars == <<msg, reply, late, ha>>

Menus == 0..MaxMenu

\* The payloads of RegisterAgent and UpdateBootOptions.  `via` names the code
\* path an update came from; nothing in the system looks at it, it is there for
\* the properties.
Register == [action : {"register_agent_token"}, token : Tokens]
Update == [action : {"update_boot_options"}, menu : Menus, via : {"daemon", "direct"}]
Messages == Register \cup Update
RegisterPayload(t) == [action |-> "register_agent_token", token |-> t]
UpdatePayload(v, path) == [action |-> "update_boot_options", menu |-> v, via |-> path]
NoMsg == [action |-> "none"]

\* "none": nothing outstanding; "pending": sent, not answered; the others are
\* the answers 200 the client tells apart (a wrong webhook id is answered with a
\* body other than "OK").  An answer with another status is an error like no
\* answer at all: PostFails.
Replies == {"none", "pending", "OK", "other body"}

\* token, menu: the last values stored.  History: tokenBy and menuBy tell where
\* they came from ("late": an abandoned request; "removed": the host was
\* unregistered), and seen is the newest menu ever stored.
HAState == [token : Tokens \cup {NoToken}, tokenBy : {"none", "live", "late", "removed"},
            menu : Menus, menuBy : {"none", "daemon", "direct", "late"}, seen : Menus]

WebhookInit ==
    /\ msg = [s \in Senders |-> NoMsg]
    /\ reply = [s \in Senders |-> "none"]
    /\ late = {}
    /\ ha = [token |-> NoToken, tokenBy |-> "none", menu |-> 0, menuBy |-> "none", seen |-> 0]

WebhookTypeOK ==
    /\ msg \in [Senders -> Messages \cup {NoMsg}]
    /\ reply \in [Senders -> Replies]
    /\ \A s \in Senders : reply[s] # "none" => msg[s] \in Messages
    /\ late \subseteq Messages
    /\ ha \in HAState

\* PostWebhook puts m on the wire for s.
Post(s, m) ==
    /\ reply[s] = "none"
    /\ msg' = [msg EXCEPT ![s] = m]
    /\ reply' = [reply EXCEPT ![s] = "pending"]
    /\ UNCHANGED <<late, ha>>

\* Every sender in S stops waiting: each request that was not answered yet is
\* lost or goes on without its sender.
Abandon(S) ==
    /\ \E L \in SUBSET {msg[s] : s \in {x \in S : reply[x] = "pending"}} :
          late' = late \cup L
    /\ Cardinality(late') <= MaxLate
    /\ msg' = [s \in Senders |-> IF s \in S THEN NoMsg ELSE msg[s]]
    /\ reply' = [s \in Senders |-> IF s \in S THEN "none" ELSE reply[s]]
    /\ UNCHANGED ha

\* PostWebhook returns nil: the answer was 200 and exactly "OK".
AnyBodyAccepted(r) == r \in {"OK", "other body"}    \* mutation: only the status counts
Accepted(r) == r = "OK"

PostSucceeds(s) ==
    /\ Accepted(reply[s])
    /\ msg' = [msg EXCEPT ![s] = NoMsg]
    /\ reply' = [reply EXCEPT ![s] = "none"]
    /\ UNCHANGED <<late, ha>>

\* PostWebhook returns an error: another answer came, or none was read before
\* the client timeout, the end of the context or the loss of the connection.
PostFails(s) == reply[s] # "none" /\ Abandon({s})

----------------------------------------------------------------------------
(* Home Assistant. *)

Newer(v, w) == IF v > w THEN v ELSE w

\* What Home Assistant holds after it has processed m, which arrives
\* "live", while its sender waits for the answer, or "late".
Stored(m, how) ==
    IF m.action = "register_agent_token"
    THEN [ha EXCEPT !.token = m.token, !.tokenBy = how]
    ELSE [ha EXCEPT !.menu = m.menu, !.menuBy = IF how = "late" THEN "late" ELSE m.via,
                    !.seen = Newer(m.menu, @)]

HAAccepts(s) ==
    /\ reply[s] = "pending"
    /\ ha' = Stored(msg[s], "live")
    /\ reply' = [reply EXCEPT ![s] = "OK"]
    /\ UNCHANGED <<msg, late>>

HARefuses(s) ==
    /\ reply[s] = "pending"
    /\ reply' = [reply EXCEPT ![s] = "other body"]
    /\ UNCHANGED <<msg, late, ha>>

\* An abandoned request arrives after all, or never does.
LateArrives ==
    /\ \E m \in late : ha' = Stored(m, "late") /\ late' = late \ {m}
    /\ UNCHANGED <<msg, reply>>

LateLost ==
    /\ \E m \in late : late' = late \ {m}
    /\ UNCHANGED <<msg, reply, ha>>

\* UnregisterHost of `service remove` arrives, at once or when the command has
\* given it up: Home Assistant holds no token any more.  The menu remains the
\* last one reported.
HostUnregistered ==
    /\ ha' = [ha EXCEPT !.token = NoToken, !.tokenBy = "removed"]
    /\ UNCHANGED <<msg, reply, late>>

\* Everything Home Assistant and the network do on their own.
HomeAssistant ==
    \/ \E s \in Senders : HAAccepts(s) \/ HARefuses(s)
    \/ LateArrives
    \/ LateLost
=============================================================================
