------------------------------- MODULE Daemon -------------------------------
(***************************************************************************)
(* The daemon (internal/daemon/daemon.go, daemon_unix.go): one process of  *)
(* several goroutines, started and restarted by systemd.                   *)
(*                                                                         *)
(* The goroutines that call TriggerUpdate are identified by who they serve:*)
(* Main is run itself (the first push and the final one), a member of      *)
(* Clients is the handler of that client's Unix-socket connection, and a   *)
(* member of Callers the handler of that caller's POST /shutdown.          *)
(* TriggerUpdate is broken up at the points where another goroutine can    *)
(* run: taking the mutex, reading GRUB, sending the request, its return.   *)
(*                                                                         *)
(* GET /status changes no state and is left out.  HAClient and Grub are    *)
(* never nil in a daemon that serve.go builds from a validated config.     *)
(***************************************************************************)
EXTENDS Webhook

CONSTANTS
    Main, Clients, Callers,     \* the goroutines above
    None,                       \* nobody holds the mutex
    Keys, Reports,              \* the values of daemon.api_key and report_boot_options in the file over time
    Removals,                   \* bound: `service remove` may be run beside the daemon
    Outages,                    \* bound: the machine may be powered off
    RetryInterval, MaxBackoff   \* seconds slept between two registrations

ASSUME SendersAssumption ==
    /\ Senders = {Main} \cup Clients \cup Callers
    /\ None \notin Senders
    /\ Main \notin Clients \cup Callers
    /\ Clients \cap Callers = {}
ASSUME ConfigAssumption ==
    /\ Reports \subseteq BOOLEAN /\ Reports # {}
    /\ Keys \subseteq Tokens \cup {NoToken} /\ Keys # {}
    /\ Removals \in BOOLEAN /\ Outages \in BOOLEAN
    /\ RetryInterval \in Nat /\ MaxBackoff \in Nat
    /\ RetryInterval > 0 /\ RetryInterval <= MaxBackoff

VARIABLES
    main,       \* where the goroutine of run is; "down" when no process exists
    cancelled,  \* the context of run is done (SIGTERM or SIGINT arrived)
    token,      \* the bearer token of this process
    reporting,  \* report_boot_options, as the process (or the last one) read it
    backoff,    \* the next sleep of performInitialHandshake, while it runs
    mu,         \* who holds Daemon.mu
    tu,         \* tu[p]: where p is in TriggerUpdate, or its result
    began,      \* history: the version of the menu when p called it
    options,    \* options[p]: the menu GetBootOptions returned to p
    sock,       \* the socket file: absent, with a listener, or left behind
    lst,        \* the goroutine of listenUnixSocket
    http,       \* the HTTP listener
    conn,       \* conn[c]: the connection of client c
    hdl,        \* hdl[h]: the POST /shutdown of caller h
    menu,       \* version of the boot menu in grub.cfg
    wanted,     \* systemd keeps the unit running
    power       \* the machine

processVars == <<main, cancelled, token, reporting, backoff>>
pushVars == <<mu, tu, began, options>>
listenVars == <<sock, lst, http, conn, hdl>>
machineVars == <<menu, wanted, power>>
daemonVars == <<processVars, pushVars, listenVars, machineVars>>
vars == <<webhookVars, daemonVars>>

Steps == {"down", "register", "backoff", "push", "serving", "final", "drain"}
PushSteps == {"idle", "lock", "grub", "post", "ok", "error"}
Registered == {"push", "serving", "final", "drain"}

TypeOK ==
    /\ WebhookTypeOK
    /\ main \in Steps
    /\ cancelled \in BOOLEAN
    /\ token \in Tokens \cup {NoToken}
    /\ reporting \in Reports
    /\ backoff \in 0..MaxBackoff
    /\ mu \in Senders \cup {None}
    /\ tu \in [Senders -> PushSteps]
    /\ began \in [Senders -> Menus]
    /\ options \in [Senders -> Menus]
    /\ sock \in {"absent", "live", "stale"}
    /\ lst \in {"idle", "remove", "kept", "listen", "up", "closed"}
    /\ http \in {"closed", "starting", "open"}
    /\ conn \in [Clients -> {"none", "sent", "served", "OK", "ERROR", "eof"}]
    /\ hdl \in [Callers -> {"idle", "push", "poweroff"}]
    /\ menu \in Menus
    /\ wanted \in BOOLEAN
    /\ power \in {"on", "stopping", "off"}

Init ==
    /\ WebhookInit
    /\ main = "down" /\ cancelled = FALSE /\ token = NoToken /\ backoff = 0
    /\ reporting \in Reports
    /\ mu = None
    /\ tu = [p \in Senders |-> "idle"]
    /\ began = [p \in Senders |-> 0]
    /\ options = [p \in Senders |-> 0]
    /\ sock = "absent" /\ lst = "idle" /\ http = "closed"
    /\ conn = [c \in Clients |-> "none"]
    /\ hdl = [h \in Callers |-> "idle"]
    /\ menu \in Menus \ {0}
    /\ wanted = TRUE /\ power = "on"

----------------------------------------------------------------------------
(* TriggerUpdate *)

Call(p) ==
    /\ tu[p] = "idle"
    /\ tu' = [tu EXCEPT ![p] = "lock"]
    /\ began' = [began EXCEPT ![p] = menu]
    /\ UNCHANGED <<mu, options>>

LockNothing(p) ==                   \* mutation: TriggerUpdate takes no mutex
    /\ tu[p] = "lock" /\ tu' = [tu EXCEPT ![p] = "grub"]
    /\ UNCHANGED <<webhookVars, processVars, mu, began, options, listenVars, machineVars>>

Lock(p) ==
    /\ tu[p] = "lock" /\ mu = None
    /\ mu' = p
    /\ tu' = [tu EXCEPT ![p] = "grub"]
    /\ UNCHANGED <<webhookVars, processVars, began, options, listenVars, machineVars>>

\* A return statement: the deferred Unlock runs.
Return(p, result) ==
    /\ mu' = None
    /\ tu' = [tu EXCEPT ![p] = result]
    /\ options' = [options EXCEPT ![p] = 0]
    /\ UNCHANGED <<began, processVars, listenVars, machineVars>>

NothingToReport(p) ==
    /\ tu[p] = "grub" /\ ~reporting
    /\ Return(p, "ok")
    /\ UNCHANGED webhookVars

ReadGrubAlways(p) ==                \* mutation: report_boot_options is not asked
    /\ tu[p] = "grub"
    /\ options' = [options EXCEPT ![p] = menu] /\ tu' = [tu EXCEPT ![p] = "post"]
    /\ UNCHANGED <<webhookVars, processVars, mu, began, listenVars, machineVars>>

ReadGrub(p) ==
    /\ tu[p] = "grub" /\ reporting
    /\ options' = [options EXCEPT ![p] = menu]
    /\ tu' = [tu EXCEPT ![p] = "post"]
    /\ UNCHANGED <<webhookVars, processVars, mu, began, listenVars, machineVars>>

ReadGrubFailsLocked(p) ==           \* mutation: an error return without Unlock
    /\ tu[p] = "grub" /\ reporting /\ tu' = [tu EXCEPT ![p] = "error"]
    /\ UNCHANGED <<webhookVars, processVars, mu, began, options, listenVars, machineVars>>

ReadGrubFails(p) ==
    /\ tu[p] = "grub" /\ reporting
    /\ Return(p, "error")
    /\ UNCHANGED webhookVars

\* The context p was called with is done.  A shutdown handler uses that of
\* its request and the final push one of its own.
CtxDone(p) == cancelled /\ (p \in Clients \/ (p = Main /\ main = "push"))

SendUpdate(p) ==
    /\ tu[p] = "post" /\ ~CtxDone(p)
    /\ Post(p, UpdatePayload(options[p], "daemon"))
    /\ UNCHANGED daemonVars

\* No connection, or a context that was done before the request left.
UpdateNotSent(p) ==
    /\ tu[p] = "post" /\ reply[p] = "none"
    /\ Return(p, "error")
    /\ UNCHANGED webhookVars

UpdateSucceeds(p) == tu[p] = "post" /\ PostSucceeds(p) /\ Return(p, "ok")
UpdateFails(p) == tu[p] = "post" /\ PostFails(p) /\ Return(p, "error")

TriggerUpdate(p) ==
    \/ Lock(p) \/ NothingToReport(p) \/ ReadGrub(p) \/ ReadGrubFails(p)
    \/ SendUpdate(p) \/ UpdateNotSent(p) \/ UpdateSucceeds(p) \/ UpdateFails(p)

Returned(p) == tu[p] \in {"ok", "error"}

\* The caller of TriggerUpdate takes its result.
Resume(p) ==
    /\ tu' = [tu EXCEPT ![p] = "idle"]
    /\ began' = [began EXCEPT ![p] = 0]
    /\ UNCHANGED <<mu, options>>

----------------------------------------------------------------------------
(* run *)

\* The process is gone: its goroutines, their requests, the mutex and the
\* listeners with it.  The kernel leaves the socket file behind.
InDaemon == {p \in Senders : tu[p] = "post" \/ (p = Main /\ main = "register")}

ProcessEnds ==
    /\ Abandon(InDaemon)
    /\ main' = "down" /\ cancelled' = FALSE /\ token' = NoToken /\ backoff' = 0
    /\ UNCHANGED reporting
    /\ mu' = None
    /\ tu' = [p \in Senders |-> "idle"]
    /\ began' = [p \in Senders |-> 0]
    /\ options' = [p \in Senders |-> 0]
    /\ lst' = "idle" /\ http' = "closed"
    /\ sock' = IF sock = "live" THEN "stale" ELSE sock
    /\ conn' = [c \in Clients |-> IF conn[c] \in {"sent", "served"} THEN "eof" ELSE conn[c]]
    /\ hdl' = [h \in Callers |-> "idle"]

\* ensureToken: the configured key, or 32 random bytes, which nobody holds.
FreshTokens ==
    {t \in Tokens \ Keys : t # ha.token /\ \A m \in late : m \in Register => m.token # t}

\* The process reads its configuration once; the file may have been edited since
\* the last one did.
Start ==
    /\ main = "down" /\ wanted /\ power = "on"
    /\ \E key \in Keys : IF key = NoToken THEN token' \in FreshTokens ELSE token' = key
    /\ reporting' \in Reports
    /\ main' = "register" /\ backoff' = RetryInterval
    /\ UNCHANGED <<webhookVars, cancelled, pushVars, listenVars, machineVars>>

RegisterAgent ==
    /\ main = "register" /\ ~cancelled
    /\ Post(Main, RegisterPayload(token))
    /\ UNCHANGED daemonVars

RegisterNotSent ==
    /\ main = "register" /\ reply[Main] = "none"
    /\ main' = "backoff"
    /\ UNCHANGED <<webhookVars, cancelled, token, reporting, backoff, pushVars, listenVars, machineVars>>

RegisterSucceeds ==
    /\ main = "register" /\ PostSucceeds(Main)
    /\ main' = "push" /\ backoff' = 0 /\ Call(Main)
    /\ UNCHANGED <<cancelled, token, reporting, listenVars, machineVars>>

RegisterOnce ==                     \* mutation: a failed registration is only logged
    /\ main = "register" /\ PostFails(Main)
    /\ main' = "push" /\ backoff' = 0 /\ Call(Main)
    /\ UNCHANGED <<cancelled, token, reporting, listenVars, machineVars>>

RegisterFails ==
    /\ main = "register" /\ PostFails(Main)
    /\ main' = "backoff"
    /\ UNCHANGED <<cancelled, token, reporting, backoff, pushVars, listenVars, machineVars>>

UncappedBackoff(b) == 2 * b         \* mutation: the cap is forgotten
NextBackoff(b) == IF 2 * b > MaxBackoff THEN MaxBackoff ELSE 2 * b

RetryLimited ==                     \* mutation: no retry once the cap is reached
    /\ main = "backoff" /\ backoff < MaxBackoff
    /\ main' = "register" /\ backoff' = NextBackoff(backoff)
    /\ UNCHANGED <<webhookVars, cancelled, token, reporting, pushVars, listenVars, machineVars>>

BackoffElapses ==
    /\ main = "backoff"
    /\ main' = "register" /\ backoff' = NextBackoff(backoff)
    /\ UNCHANGED <<webhookVars, cancelled, token, reporting, pushVars, listenVars, machineVars>>

SleepThroughCancel == FALSE         \* mutation: select without ctx.Done()

\* performInitialHandshake returns ctx.Err(), and run with it.
HandshakeCancelled ==
    /\ main = "backoff" /\ cancelled
    /\ ProcessEnds
    /\ UNCHANGED machineVars

\* The handshake is over, whatever the first push returned.
StartListeners ==
    /\ main = "push" /\ Returned(Main)
    /\ main' = "serving" /\ lst' = "remove" /\ http' = "starting"
    /\ Resume(Main)
    /\ UNCHANGED <<webhookVars, cancelled, token, reporting, backoff, sock, conn, hdl, machineVars>>

\* <-ctx.Done(), then cleanup begins its final push.
Terminate ==
    /\ main = "serving" /\ cancelled
    /\ main' = "final" /\ Call(Main)
    /\ UNCHANGED <<webhookVars, cancelled, token, reporting, backoff, listenVars, machineVars>>

\* srv.Shutdown closes the listener and waits for the handlers,
ShutdownHTTP ==
    /\ main = "final" /\ Returned(Main)
    /\ main' = "drain" /\ http' = "closed"
    /\ Resume(Main)
    /\ UNCHANGED <<webhookVars, cancelled, token, reporting, backoff, sock, lst, conn, hdl, machineVars>>

\* but for no more than 5 seconds, so that run can return at any time.
Exit ==
    /\ main = "drain"
    /\ ProcessEnds
    /\ UNCHANGED machineVars

Run ==
    \/ Start \/ RegisterAgent \/ RegisterNotSent \/ RegisterSucceeds \/ RegisterFails
    \/ BackoffElapses \/ HandshakeCancelled \/ StartListeners
    \/ Terminate \/ ShutdownHTTP \/ Exit

----------------------------------------------------------------------------
(* The Unix socket *)

KeepSocket ==                       \* mutation: no os.Remove before Listen
    /\ lst = "remove" /\ lst' = "listen"
    /\ UNCHANGED <<webhookVars, processVars, pushVars, sock, http, conn, hdl, machineVars>>

RemoveSocket ==
    /\ lst = "remove"
    /\ sock' = "absent" /\ lst' = "listen"
    /\ UNCHANGED <<webhookVars, processVars, pushVars, http, conn, hdl, machineVars>>

\* The error of os.Remove is not looked at.
RemoveSocketFails ==
    /\ lst = "remove" /\ sock # "absent"
    /\ lst' = "kept"
    /\ UNCHANGED <<webhookVars, processVars, pushVars, sock, http, conn, hdl, machineVars>>

\* bind fails on a file that exists, and may fail for other reasons.
ListenSocket ==
    /\ lst \in {"listen", "kept"}
    /\ \/ sock = "absent" /\ sock' = "live" /\ lst' = "up"
       \/ lst' = "closed" /\ UNCHANGED sock
    /\ UNCHANGED <<webhookVars, processVars, pushVars, http, conn, hdl, machineVars>>

StopAccepting ==                    \* mutation: the accept loop ends, the listener stays
    /\ lst = "up" /\ cancelled /\ lst' = "closed"
    /\ UNCHANGED <<webhookVars, processVars, pushVars, sock, http, conn, hdl, machineVars>>

\* The context is done: closing the listener removes the file and drops the
\* connections that were not accepted.
CloseSocket ==
    /\ lst = "up" /\ cancelled
    /\ lst' = "closed" /\ sock' = "absent"
    /\ conn' = [c \in Clients |-> IF conn[c] = "sent" THEN "eof" ELSE conn[c]]
    /\ UNCHANGED <<webhookVars, processVars, pushVars, http, hdl, machineVars>>

\* A client connects and writes "push".
Connect(c) ==
    /\ conn[c] = "none" /\ sock = "live"
    /\ conn' = [conn EXCEPT ![c] = "sent"]
    /\ UNCHANGED <<webhookVars, processVars, pushVars, sock, lst, http, hdl, machineVars>>

\* Accept, and handleUnixConnection up to its call of TriggerUpdate.
AcceptPush(c) ==
    /\ lst = "up" /\ conn[c] = "sent"
    /\ conn' = [conn EXCEPT ![c] = "served"] /\ Call(c)
    /\ UNCHANGED <<webhookVars, processVars, sock, lst, http, hdl, machineVars>>

AnswerPush(c) ==
    /\ conn[c] = "served" /\ Returned(c)
    /\ conn' = [conn EXCEPT ![c] = IF tu[c] = "ok" THEN "OK" ELSE "ERROR"]
    /\ Resume(c)
    /\ UNCHANGED <<webhookVars, processVars, sock, lst, http, hdl, machineVars>>

\* The client reads the answer, or the end of the connection.
HangUp(c) ==
    /\ conn[c] \in {"OK", "ERROR", "eof"}
    /\ conn' = [conn EXCEPT ![c] = "none"]
    /\ UNCHANGED <<webhookVars, processVars, pushVars, sock, lst, http, hdl, machineVars>>

SocketHandler(c) == AcceptPush(c) \/ AnswerPush(c)
SocketListener == RemoveSocket \/ RemoveSocketFails \/ ListenSocket \/ CloseSocket

----------------------------------------------------------------------------
(* The HTTP server *)

\* ListenAndServe binds the port, or fails and is only logged.
ListenHTTP ==
    /\ http = "starting"
    /\ http' \in {"open", "closed"}
    /\ UNCHANGED <<webhookVars, processVars, pushVars, sock, lst, conn, hdl, machineVars>>

\* Home Assistant posts /shutdown with the token it holds.  The handler goes on
\* with a push, or answers 403 and is done.
PostShutdown(h) ==
    /\ http = "open" /\ hdl[h] = "idle"
    /\ IF ha.token = token
       THEN hdl' = [hdl EXCEPT ![h] = "push"] /\ Call(h)
       ELSE UNCHANGED <<hdl, pushVars>>
    /\ UNCHANGED <<webhookVars, processVars, sock, lst, http, conn, machineVars>>

PushFailureAnswered(h) ==           \* mutation: a failed push is answered 500, and that is all
    /\ hdl[h] = "push" /\ Returned(h)
    /\ Resume(h)
    /\ hdl' = [hdl EXCEPT ![h] = IF tu[h] = "ok" THEN "poweroff" ELSE "idle"]
    /\ UNCHANGED <<webhookVars, processVars, sock, lst, http, conn, machineVars>>

\* The push before the shutdown has returned; its error is only logged.
PrePushReturns(h) ==
    /\ hdl[h] = "push" /\ Returned(h)
    /\ Resume(h)
    /\ hdl' = [hdl EXCEPT ![h] = "poweroff"]
    /\ UNCHANGED <<webhookVars, processVars, sock, lst, http, conn, machineVars>>

\* performOSShutdown runs poweroff, which may fail; the handler
\* answers 200 or 500 accordingly.
PowerOff(h) ==
    /\ hdl[h] = "poweroff"
    /\ hdl' = [hdl EXCEPT ![h] = "idle"]
    /\ power' = power \/ (Outages /\ power' = "stopping")
    /\ UNCHANGED <<webhookVars, processVars, pushVars, sock, lst, http, conn, menu, wanted>>

----------------------------------------------------------------------------
(* systemd, the machine, and crashes *)

\* systemctl stop: SIGTERM to the process, if there is one.
StopUnit ==
    /\ power = "on" /\ wanted
    /\ wanted' = FALSE /\ cancelled' = (main # "down")
    /\ UNCHANGED <<webhookVars, main, token, reporting, backoff, pushVars, listenVars, menu, power>>

\* systemctl start does nothing to a running process, and waits for one that is
\* being stopped.
StartUnit ==
    /\ power = "on" /\ ~wanted /\ main = "down"
    /\ wanted' = TRUE
    /\ UNCHANGED <<webhookVars, processVars, pushVars, listenVars, menu, power>>

\* Someone else powers the machine off.
Halt ==
    /\ Outages /\ power = "on" /\ power' = "stopping"
    /\ UNCHANGED <<webhookVars, processVars, pushVars, listenVars, menu, wanted>>

\* On the way down systemd terminates the process.
HaltUnit ==
    /\ power = "stopping" /\ main # "down" /\ ~cancelled
    /\ cancelled' = TRUE
    /\ UNCHANGED <<webhookVars, main, token, reporting, backoff, pushVars, listenVars, machineVars>>

\* /var/run is empty after a boot.
PowerDown ==
    /\ power = "stopping" /\ main = "down"
    /\ power' = "off" /\ sock' = "absent"
    /\ UNCHANGED <<webhookVars, processVars, pushVars, lst, http, conn, hdl, menu, wanted>>

Boot ==
    /\ power = "off"
    /\ power' = "on" /\ wanted' = TRUE
    /\ UNCHANGED <<webhookVars, processVars, pushVars, listenVars, menu>>

\* A crash, or the SIGKILL of a stop that took too long.
Crash ==
    /\ main # "down"
    /\ ProcessEnds
    /\ UNCHANGED machineVars

\* The operating system's tools write a new grub.cfg.
MenuChanges ==
    /\ menu < MaxMenu /\ power # "off"
    /\ menu' = menu + 1
    /\ UNCHANGED <<webhookVars, processVars, pushVars, listenVars, wanted, power>>

Machine ==
    \/ StopUnit \/ StartUnit \/ Halt \/ HaltUnit \/ PowerDown \/ Boot
    \/ MenuChanges

----------------------------------------------------------------------------
(* The steps of the daemon's own goroutines, and all steps but the clients'. *)
DaemonStep ==
    \/ Run
    \/ \E p \in Senders : TriggerUpdate(p)
    \/ SocketListener
    \/ \E c \in Clients : SocketHandler(c)
    \/ ListenHTTP
    \/ \E h \in Callers : PrePushReturns(h) \/ PowerOff(h)

\* `service remove` begins by unregistering the host, with the daemon still up.
ServiceRemove == Removals /\ power = "on" /\ HostUnregistered /\ UNCHANGED daemonVars

Environment ==
    \/ HomeAssistant /\ UNCHANGED daemonVars
    \/ ServiceRemove
    \/ \E h \in Callers : PostShutdown(h)
    \/ Machine

ClientStep == \E c \in Clients : Connect(c) \/ HangUp(c)

Next == DaemonStep \/ Environment \/ ClientStep \/ Crash

Spec == Init /\ [][Next]_vars

\* Processes end only where run returns.
NoCrashSpec == Init /\ [][DaemonStep \/ Environment \/ ClientStep]_vars

----------------------------------------------------------------------------
(* Fairness.  A goroutine that can run does (WF).  Whoever waits for the    *)
(* mutex gets it (SF): sync.Mutex hands it over to a waiter that has waited *)
(* for a millisecond.  PostWebhook always returns (WF on its success or     *)
(* failure): http.Client has a timeout.  Between the end of the context and *)
(* the end of the sleep, select picks at random (SF).                       *)
PushFairness(p) ==
    /\ SF_vars(Lock(p))
    /\ WF_vars(NothingToReport(p) \/ ReadGrub(p) \/ ReadGrubFails(p))
    /\ WF_vars(SendUpdate(p) \/ UpdateNotSent(p))
    /\ WF_vars(UpdateSucceeds(p) \/ UpdateFails(p))

RunFairness ==
    /\ WF_vars(RegisterAgent \/ RegisterNotSent)
    /\ WF_vars(RegisterSucceeds \/ RegisterFails)
    /\ WF_vars(BackoffElapses)
    /\ SF_vars(HandshakeCancelled)
    /\ WF_vars(StartListeners) /\ WF_vars(Terminate)
    /\ WF_vars(ShutdownHTTP) /\ WF_vars(Exit)

HandlerFairness ==
    /\ WF_vars(SocketListener)
    /\ \A c \in Clients : WF_vars(AcceptPush(c)) /\ WF_vars(AnswerPush(c))
    /\ \A h \in Callers : WF_vars(PrePushReturns(h)) /\ WF_vars(PowerOff(h))

Fairness == RunFairness /\ HandlerFairness /\ \A p \in Senders : PushFairness(p)

FairSpec == Spec /\ Fairness

\* Home Assistant, tried again and again, one day stores the registration and
\* its answer gets through.
HAFairness ==
    /\ SF_vars(RegisterAgent)
    /\ SF_vars(HAAccepts(Main) /\ UNCHANGED daemonVars)
    /\ SF_vars(RegisterSucceeds)

----------------------------------------------------------------------------
(* Properties *)

\* Home Assistant can shut the machine down whenever the HTTP listener is
\* open: it holds the token this very process checks (newHTTPServer).  What can
\* take that away is a `service remove` that has unregistered the host, and the
\* registration of an earlier process, with a token that has changed since, that
\* was given up by its sender and arrived late.
TokenInSync ==
    http = "open" /\ ha.token # token =>
        \/ ha.tokenBy = "removed"
        \/ ha.tokenBy = "late" /\ Keys # {token}

\* A push that TriggerUpdate reports as done has brought Home Assistant a menu
\* no older than the one on disk when it was asked for, whichever goroutine
\* asked and however long it waited for the mutex.
PushIsFresh ==
    \A p \in Senders : tu[p] = "ok" /\ reporting => ha.seen >= began[p]

\* With report_boot_options: false the daemon tells Home Assistant of no menu,
\* whoever asks: while such a process runs none of its requests with a menu is
\* given up on its way, and Home Assistant stores none that is the daemon's.  What
\* an earlier process with another setting left under way may still arrive.
SilentWhenOff ==
    [][~reporting =>
          /\ \A m \in late' \ late : m \in Update => m.via # "daemon"
          /\ ha'.menuBy = "daemon" => ha.menuBy = "daemon" /\ ha'.menu = ha.menu]_vars

\* Concurrent pushes of the daemon (a socket client, Home Assistant, run)
\* never make Home Assistant go back to an older menu.  Requests given up by
\* their sender, and pushes that bypass the daemon, are out of its hands.
NoRegress ==
    [][ha.menuBy = "daemon" /\ ha'.menuBy = "daemon" => ha'.menu >= ha.menu]_vars

\* A socket file left behind by a killed process never stands in the way of its
\* successor, unless it cannot be removed: it is gone when listenUnixSocket comes
\* to listen, and behind a file that lets clients connect there is always the
\* listener of the process that runs.
StaleSocketGone ==
    /\ lst = "listen" => sock = "absent"
    /\ sock = "live" <=> lst = "up"

\* Nobody waits for a goroutine that is gone, across crashes, terminations and
\* failures: whoever holds the mutex is on its way to the Unlock, a client that
\* was not accepted has a listener that accepts, one that was accepted has its
\* handler in TriggerUpdate, and so have a POST /shutdown and run itself.
Attended ==
    /\ mu # None => tu[mu] \in {"grub", "post"}
    /\ \A c \in Clients : /\ conn[c] = "sent" => lst = "up"
                          /\ conn[c] = "served" <=> tu[c] # "idle"
    /\ \A h \in Callers : hdl[h] = "push" <=> tu[h] # "idle"
    /\ main \in {"push", "final"} <=> tu[Main] # "idle"

\* After SIGTERM the process ends, even if Home Assistant never answers and
\* pushes keep coming in while cleanup waits for the mutex.
TerminationCompletes == cancelled ~> main = "down"

\* A socket client is answered, or sees the end of the connection.
ClientAnswered ==
    \A c \in Clients : conn[c] = "sent" ~> conn[c] \in {"OK", "ERROR", "eof"}

\* An accepted POST /shutdown gets to performOSShutdown, whatever became of its
\* push, and is answered after it: a push that hangs, fails or is refused neither
\* ends the handler nor holds it up for ever.  Only the end of the process comes
\* before that.
ShutdownCarriedOut ==
    \A h \in Callers :
        /\ hdl[h] = "push" ~> hdl[h] = "poweroff" \/ main = "down"
        /\ hdl[h] = "poweroff" ~> hdl[h] = "idle"

\* performInitialHandshake does not give up on a Home Assistant that is down
\* for a while: it ends registered, unless the process is told to stop or dies.
HandshakeCompletes ==
    HAFairness => (main = "register" ~> main \in {"push", "down"} \/ cancelled)

----------------------------------------------------------------------------
(* TriggerUpdate keeps the promise of module Report.                        *)

\* A caller waits for its answer while TriggerUpdate runs for it.
Answering(p) == IF tu[p] \in {"lock", "grub", "post"} THEN "waiting" ELSE tu[p]

R == INSTANCE Report WITH
    Askers <- Senders,
    disk <- menu, status <- [p \in Senders |-> Answering(p)], asked <- began,
    stored <- ha.menu, ordered <- ha.menuBy = "daemon", newest <- ha.seen

\* Every run of the daemon, with its crashes, its lost and late requests and
\* its mutex, is one of Report: each menu Home Assistant stores is there for
\* somebody's question and not older than it, menus are stored in order, and
\* a success is claimed only of a menu that was stored.
KeepsPromise == R!Spec
=============================================================================
