--------------------------- MODULE WindowsService ---------------------------
(***************************************************************************)
(* The agent as a Windows service: the handler that talks to the service   *)
(* control manager (daemon_windows.go), the goroutine that runs the        *)
(* daemon, and the commands that start and stop the service                *)
(* (servicemanager/windows.go).  The control manager itself, the installer *)
(* and golang.org/x/sys/windows/svc, which passes control requests and     *)
(* statuses between it and the handler, are external.                      *)
(***************************************************************************)
EXTENDS Naturals, Sequences

CONSTANT MaxRequests        \* bound: control requests under way

ASSUME RequestsAssumption == MaxRequests \in Nat \ {0}

VARIABLES
    installed,      \* the installer has registered the service
    saved,          \* setup has saved config.yaml under %ProgramData%
    provided,       \* serve finds a configuration without --config
    scm,            \* the state the control manager shows
    requests,       \* control requests for the handler, oldest first
    proc,           \* the process of the service, and where Execute is in it
    run,            \* the goroutine of d.run
    cancelled,      \* the context it was given
    errChan,        \* results in the channel Execute made for it
    caller          \* a command: "starting" while StartService has not returned

procVars == <<proc, run, cancelled, errChan>>
vars == <<installed, saved, provided, scm, requests, procVars, caller>>

\* "stop" stands for Stop and Shutdown, "other" for what the handler does not know.
Requests == {"interrogate", "stop", "other"}
Queues == {q \in Seq(Requests) : Len(q) <= MaxRequests}

TypeOK ==
    /\ installed \in BOOLEAN /\ saved \in BOOLEAN /\ provided \in BOOLEAN /\ cancelled \in BOOLEAN
    /\ scm \in {"stopped", "start_pending", "running", "stop_pending"}
    /\ requests \in Queues
    /\ proc \in {"none", "launched", "failed", "execute", "spawned", "loop", "ending", "closing"}
    /\ run \in {"none", "handshake", "serving", "cleanup", "returned"}
    /\ errChan \in 0..1
    /\ caller \in {"none", "starting", "ok", "error"}

NoProcess ==
    /\ proc' = "none" /\ run' = "none" /\ cancelled' = FALSE /\ errChan' = 0
    /\ scm' = "stopped" /\ requests' = <<>>

Init ==
    /\ installed = FALSE /\ saved = FALSE /\ provided = FALSE /\ caller = "none"
    /\ scm = "stopped" /\ requests = <<>>
    /\ proc = "none" /\ run = "none" /\ cancelled = FALSE /\ errChan = 0

----------------------------------------------------------------------------
(* The host *)

\* The installer registers the service, to be started with the system, and
\* does not start it; it stops and removes it.
InstallService ==
    /\ ~installed /\ installed' = TRUE
    /\ UNCHANGED <<saved, provided, scm, requests, procVars, caller>>

RemoveService ==
    /\ installed /\ proc = "none" /\ installed' = FALSE
    /\ UNCHANGED <<saved, provided, scm, requests, procVars, caller>>

\* doInstallation
SaveConfig ==
    /\ ~saved /\ saved' = TRUE
    /\ UNCHANGED <<installed, provided, scm, requests, procVars, caller>>

\* An administrator puts a config.yaml where the service starts, sets the
\* variables of its environment, or adds --config to its arguments.
Provide ==
    /\ ~provided /\ provided' = TRUE
    /\ UNCHANGED <<installed, saved, scm, requests, procVars, caller>>

Launch == proc' = "launched" /\ scm' = "start_pending" /\ UNCHANGED <<requests, run, cancelled, errChan>>

\* The control manager starts the service with the system.
Boot ==
    /\ installed /\ proc = "none" /\ Launch
    /\ UNCHANGED <<installed, saved, provided, caller>>

\* The process is killed or crashes, or the system goes down.
Crash ==
    /\ proc # "none" /\ NoProcess
    /\ caller' = IF caller = "starting" THEN "error" ELSE caller
    /\ UNCHANGED <<installed, saved, provided>>

----------------------------------------------------------------------------
(* Commands *)

\* Start.  No service, no permission and a service that is not stopped are all
\* reported as success.
Start ==
    /\ caller # "starting"
    /\ \/ caller' = "ok" /\ UNCHANGED <<scm, requests, procVars>>     \* denied
       \/ (~installed \/ scm # "stopped") /\ caller' = "ok" /\ UNCHANGED <<scm, requests, procVars>>
       \/ installed /\ proc = "none" /\ caller' = "starting" /\ Launch
    /\ UNCHANGED <<installed, saved, provided>>

Post(r) == Len(requests) < MaxRequests /\ requests' = Append(requests, r)

\* Stop.  A service that is not running does not accept the request.
Stop ==
    /\ caller # "starting"
    /\ \/ caller' = "ok" /\ UNCHANGED requests                        \* denied, or no service
       \/ installed /\ scm = "running" /\ caller' = "ok" /\ Post("stop")
       \/ installed /\ scm # "running" /\ caller' = "error" /\ UNCHANGED requests
    /\ UNCHANGED <<installed, saved, provided, scm, procVars>>

\* The control manager asks for the status, tells of the end of the system, or
\* passes on something else: a code of the user's is sent without being accepted.
Control ==
    /\ scm = "running" /\ \E r \in Requests : Post(r)
    /\ UNCHANGED <<installed, saved, provided, scm, procVars, caller>>

----------------------------------------------------------------------------
(* The process *)

\* `serve` has no --config and looks for config.yaml in its working directory,
\* which is not the directory setup writes to; without one, nothing is valid.
ConfigFound == provided

\* Until then StartService does not return.
Connected == caller' = IF caller = "starting" THEN "ok" ELSE caller

LoadConfig ==
    /\ proc = "launched"
    /\ \/ ConfigFound /\ proc' = "execute" /\ Connected
       \/ ~ConfigFound /\ proc' = "failed" /\ UNCHANGED caller
    /\ UNCHANGED <<installed, saved, provided, scm, requests, run, cancelled, errChan>>

\* The end of a process that never reported to the control manager.
Exit ==
    /\ proc = "failed" /\ NoProcess
    /\ caller' = IF caller = "starting" THEN "error" ELSE caller
    /\ UNCHANGED <<installed, saved, provided>>

RunningFirst ==             \* mutation: the goroutine is started after the status is reported
    /\ proc = "execute" /\ proc' = "spawned" /\ scm' = "running"
    /\ UNCHANGED <<installed, saved, provided, requests, run, cancelled, errChan, caller>>

\* Execute: StartPending, then the goroutine of d.run,
SpawnRun ==
    /\ proc = "execute" /\ proc' = "spawned" /\ run' = "handshake"
    /\ UNCHANGED <<installed, saved, provided, scm, requests, cancelled, errChan, caller>>

\* then Running,
ReportRunning ==
    /\ proc = "spawned" /\ proc' = "loop" /\ scm' = "running"
    /\ UNCHANGED <<installed, saved, provided, requests, run, cancelled, errChan, caller>>

OnlyLogged ==               \* mutation: break ends the select, not the loop
    /\ proc = "loop" /\ errChan = 1 /\ errChan' = 0
    /\ UNCHANGED <<installed, saved, provided, scm, requests, proc, run, cancelled, caller>>

\* then the loop: run has returned,
TakeResult ==
    /\ proc = "loop" /\ errChan = 1 /\ errChan' = 0 /\ proc' = "ending"
    /\ UNCHANGED <<installed, saved, provided, scm, requests, run, cancelled, caller>>

StopNotCarriedOut ==        \* mutation: break ends the select, and cancel is left to the defer
    /\ proc = "loop" /\ requests # <<>> /\ requests' = Tail(requests)
    /\ UNCHANGED <<installed, saved, provided, scm, proc, run, cancelled, errChan, caller>>

\* or a request is there.  Interrogate is answered with the status it came with,
\* which is the present one: the handler alone changes it.  What it does not know
\* it logs.
TakeRequest ==
    /\ proc = "loop" /\ requests # <<>> /\ requests' = Tail(requests)
    /\ \/ Head(requests) \in {"interrogate", "other"} /\ UNCHANGED <<proc, cancelled>>
       \/ Head(requests) = "stop" /\ cancelled' = TRUE /\ proc' = "ending"
    /\ UNCHANGED <<installed, saved, provided, scm, run, errChan, caller>>

\* StopPending, and Execute returns, which cancels the context in any case.
ReportStopPending ==
    /\ proc = "ending" /\ proc' = "closing" /\ scm' = "stop_pending" /\ cancelled' = TRUE
    /\ UNCHANGED <<installed, saved, provided, requests, run, errChan, caller>>

\* svc.Run returns, and main: whatever d.run still does ends with the process.
ReportStopped ==
    /\ proc = "closing" /\ NoProcess
    /\ UNCHANGED <<installed, saved, provided, caller>>

----------------------------------------------------------------------------
(* d.run, which module Daemon describes.  On Windows it has no socket, and   *)
(* cleanup makes no final push.                                              *)

SendTwice ==                \* mutation: cleanup's error is sent, and nil by a deferred send
    /\ run' = "returned" /\ errChan' = errChan + 2
Return == run' = "returned" /\ errChan' = errChan + 1

RunStep ==
    /\ \/ run = "handshake" /\ run' = "serving" /\ UNCHANGED errChan
       \/ run = "handshake" /\ Return               \* no token, or the context has ended
       \/ run = "serving" /\ cancelled /\ run' = "cleanup" /\ UNCHANGED errChan
       \/ run = "cleanup" /\ Return
    /\ UNCHANGED <<installed, saved, provided, scm, requests, proc, cancelled, caller>>

Handler == LoadConfig \/ Exit \/ SpawnRun \/ ReportRunning \/ TakeResult \/ TakeRequest
           \/ ReportStopPending \/ ReportStopped

Next ==
    \/ InstallService \/ RemoveService \/ SaveConfig \/ Provide \/ Boot \/ Crash
    \/ Start \/ Stop \/ Control \/ Handler \/ RunStep

\* Goroutines run, and a select takes each of the channels that stay ready at some
\* time, since it chooses among them at random.  Nobody has to start or stop the service, and nothing makes
\* Home Assistant let the handshake succeed.
Spec ==
    /\ Init /\ [][Next]_vars
    /\ WF_vars(Handler) /\ WF_vars(TakeResult) /\ WF_vars(TakeRequest) /\ WF_vars(RunStep /\ cancelled)

----------------------------------------------------------------------------
(* Properties *)

\* The control manager shows Running, and accepts a stop, only while there is a
\* goroutine of the daemon and a handler that will see the stop: the order of
\* the statements of Execute.
RunningMeansRun == scm = "running" => run # "none" /\ proc \in {"loop", "ending"}

\* No event is left where nobody looks for it: the result of d.run is in the
\* channel until the handler has left its loop over it or over a stop, a request
\* is queued only for a handler that is in that loop or has been.  Nor does the
\* handler end the service for anything else: a question for the status does not.
NothingLost ==
    /\ run = "returned" => errChan = 1 \/ proc \in {"ending", "closing"}
    /\ requests # <<>> => proc \in {"loop", "ending", "closing"}
    /\ cancelled => proc \in {"ending", "closing"}
    /\ proc = "ending" => cancelled \/ run = "returned"

\* A stop that was accepted stops the service, also when the daemon is still in
\* its handshake, when requests for the status keep coming, and when d.run has
\* just returned by itself.
StopCarriedOut == (\E i \in DOMAIN requests : requests[i] = "stop") ~> scm = "stopped"

\* A daemon whose run has returned does not remain a running service: its result
\* reaches the handler, which ends the service.
DeadDaemonNoticed == run = "returned" ~> scm = "stopped"

\* docs/configuration/setup.md: on Windows the configuration is where setup saves
\* it, and a service that starts afterwards finds it.
SavedIsFound == proc = "failed" => ~saved
=============================================================================
