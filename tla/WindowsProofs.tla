--------------------------- MODULE WindowsProofs ---------------------------
(***************************************************************************)
(* That the control manager never shows a running service whose daemon was *)
(* not started or whose handler is gone, for any number of requests.       *)
(***************************************************************************)
EXTENDS WindowsService, TLAPS

Alive == {"handshake", "serving", "cleanup"}

FlagsInv == installed \in BOOLEAN /\ saved \in BOOLEAN /\ provided \in BOOLEAN /\ cancelled \in BOOLEAN

\* Where Execute is says what it has started and reported: the goroutine from
\* SpawnRun on, Running from ReportRunning to ReportStopPending.  A goroutine that
\* has not returned has sent nothing; NothingLost is the other direction, and as
\* inductive as the rest.
ServiceInv ==
    /\ scm \in {"stopped", "start_pending", "running", "stop_pending"} /\ requests \in Queues
    /\ proc \in {"none", "launched", "failed", "execute", "spawned", "loop", "ending", "closing"}
    /\ run \in {"none", "handshake", "serving", "cleanup", "returned"} /\ errChan \in 0..1
    /\ caller \in {"none", "starting", "ok", "error"}
    /\ proc \in {"spawned", "loop", "ending", "closing"} <=> run # "none"
    /\ scm = "running" <=> proc \in {"loop", "ending"}
    /\ run \in Alive \cup {"none"} => errChan = 0
    /\ NothingLost

\* The queue starts empty; a request more, or the oldest one less, keeps it within
\* its bound.
LEMMA EmptyTyped == <<>> \in Queues
BY RequestsAssumption DEF Queues

LEMMA PostTyped ==
    ASSUME requests \in Queues, NEW r \in Requests, Post(r)
    PROVE  requests' \in Queues
<1>1. requests \in Seq(Requests) /\ Len(requests) < MaxRequests
  BY DEF Queues, Post
<1>2. Append(requests, r) \in Seq(Requests) /\ Len(Append(requests, r)) = Len(requests) + 1
  BY <1>1
<1>3. Len(Append(requests, r)) <= MaxRequests
  BY <1>1, <1>2, RequestsAssumption
<1> QED  BY <1>2, <1>3 DEF Queues, Post

LEMMA TailTyped ==
    ASSUME requests \in Queues, requests # <<>>
    PROVE  Tail(requests) \in Queues
<1>1. requests \in Seq(Requests) /\ Len(requests) <= MaxRequests
  BY DEF Queues
<1>2. Tail(requests) \in Seq(Requests) /\ Len(Tail(requests)) = Len(requests) - 1
  BY <1>1
<1>3. Len(Tail(requests)) <= MaxRequests
  BY <1>1, <1>2, RequestsAssumption
<1> QED  BY <1>2, <1>3 DEF Queues

LEMMA InitInv == Init => ServiceInv
BY EmptyTyped DEF Init, ServiceInv, NothingLost, Alive

\* With the process, all of its state goes.
LEMMA EndInv ==
    ASSUME ServiceInv, NoProcess, caller' \in {"none", "starting", "ok", "error"}
    PROVE  ServiceInv'
BY EmptyTyped DEF ServiceInv, NothingLost, NoProcess, Alive

LEMMA StepInv == ServiceInv /\ [Next]_vars => ServiceInv'
<1> SUFFICES ASSUME ServiceInv, [Next]_vars PROVE ServiceInv'
  OBVIOUS
<1> USE DEF ServiceInv, NothingLost, procVars, Alive
<1>1. CASE InstallService \/ RemoveService \/ SaveConfig \/ Provide
  BY <1>1 DEF InstallService, RemoveService, SaveConfig, Provide
<1>2. CASE Boot
  BY <1>2 DEF Boot, Launch
<1>3. CASE Crash
  BY <1>3, EndInv DEF Crash
<1>4. CASE Start
  BY <1>4 DEF Start, Launch
<1>5. CASE Stop
  BY <1>5, PostTyped DEF Stop, Requests
<1>6. CASE Control
  BY <1>6, PostTyped DEF Control
<1>7. CASE LoadConfig
  BY <1>7 DEF LoadConfig, Connected
<1>8. CASE Exit
  BY <1>8, EndInv DEF Exit
<1>9. CASE SpawnRun
  BY <1>9 DEF SpawnRun
<1>10. CASE ReportRunning
  BY <1>10 DEF ReportRunning
<1>11. CASE TakeResult
  BY <1>11 DEF TakeResult
<1>12. CASE TakeRequest
  BY <1>12, TailTyped DEF TakeRequest
<1>13. CASE ReportStopPending
  BY <1>13 DEF ReportStopPending
<1>14. CASE ReportStopped
  BY <1>14, EndInv DEF ReportStopped
<1>15. CASE RunStep
  BY <1>15 DEF RunStep, Return
<1>16. CASE UNCHANGED vars
  BY <1>16 DEF vars
<1> QED
  BY <1>1, <1>2, <1>3, <1>4, <1>5, <1>6, <1>7, <1>8, <1>9, <1>10, <1>11, <1>12, <1>13, <1>14, <1>15, <1>16
  DEF Next, Handler

LEMMA FlagsStep == FlagsInv /\ [Next]_vars => FlagsInv'
<1> SUFFICES ASSUME FlagsInv, [Next]_vars PROVE FlagsInv'
  OBVIOUS
<1>1. installed' \in {installed, TRUE, FALSE} /\ saved' \in {saved, TRUE} /\ provided' \in {provided, TRUE}
      /\ cancelled' \in {cancelled, TRUE, FALSE}
  BY DEF Next, Handler, InstallService, RemoveService, SaveConfig, Provide, Boot, Crash, Start, Stop, Control,
         LoadConfig, Exit, SpawnRun, ReportRunning, TakeResult, TakeRequest, ReportStopPending, ReportStopped,
         RunStep, Launch, NoProcess, vars, procVars
<1> QED  BY <1>1, Zenon DEF FlagsInv

LEMMA Invariance == Spec => [](ServiceInv /\ FlagsInv)
<1>1. Init => FlagsInv
  BY Zenon DEF Init, FlagsInv
<1> QED  BY <1>1, InitInv, StepInv, FlagsStep, PTL DEF Spec

\* Every variable has its type; the channel for the result of run never holds
\* more than the one it has room for, so that the goroutine is never stuck in it.
THEOREM ServiceTypeCorrect == Spec => []TypeOK
<1>1. ServiceInv /\ FlagsInv => TypeOK
  BY DEF ServiceInv, FlagsInv, TypeOK
<1> QED  BY <1>1, Invariance, PTL

\* Running is shown only while there are a goroutine of the daemon and a handler
\* that will see a stop.
THEOREM RunningIsTrue == Spec => []RunningMeansRun
<1>1. ServiceInv => RunningMeansRun
  BY DEF ServiceInv, RunningMeansRun
<1> QED  BY <1>1, Invariance, PTL

\* The result of run and the requests of the control manager are always where the
\* handler will find them, or came too late to matter.
THEOREM NoEventIsLost == Spec => []NothingLost
<1>1. ServiceInv => NothingLost
  BY DEF ServiceInv
<1> QED  BY <1>1, Invariance, PTL
=============================================================================
