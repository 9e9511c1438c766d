---------------------------- MODULE DaemonProofs ----------------------------
(***************************************************************************)
(* What TLAPS proves of the daemon, for any number of clients, callers,    *)
(* tokens and menus.  The lemmas on the steps of Next leave room for       *)
(* commands that post beside the daemon (module BootPush): BootPushProofs  *)
(* uses them for CliSpec.                                                  *)
(***************************************************************************)
EXTENDS Daemon, TLAPS

LEMMA Zero == 0 \in Menus /\ 0 \in 0..MaxBackoff
BY BoundsAssumption, ConfigAssumption DEF Menus

(* The webhook's operators preserve its types. *)

LEMMA PostType ==
    ASSUME WebhookTypeOK, NEW s \in Senders, NEW m \in Messages, Post(s, m)
    PROVE  WebhookTypeOK'
BY DEF WebhookTypeOK, Post, Replies

\* The only requests Abandon can leave behind are those of S that were pending.
LEMMA AbandonLemma ==
    ASSUME WebhookTypeOK, NEW S \in SUBSET Senders, Abandon(S)
    PROVE  /\ WebhookTypeOK'
           /\ \A m \in late' : m \in late \/ \E s \in S : reply[s] = "pending" /\ m = msg[s]
           /\ \A s \in S : reply'[s] = "none"
           /\ \A s \in Senders \ S : reply'[s] = reply[s] /\ msg'[s] = msg[s]
           /\ ha' = ha
<1>1. PICK L \in SUBSET {msg[s] : s \in {x \in S : reply[x] = "pending"}} : late' = late \cup L
  BY DEF Abandon
<1>2. \A m \in late' : m \in late \/ \E s \in S : reply[s] = "pending" /\ m = msg[s]
  BY <1>1
<1>3. late' \subseteq Messages
  BY <1>2 DEF WebhookTypeOK
<1>4. msg' \in [Senders -> Messages \cup {NoMsg}] /\ reply' \in [Senders -> Replies]
  BY DEF Abandon, WebhookTypeOK, Replies
<1>5. /\ \A s \in S : reply'[s] = "none"
      /\ \A s \in Senders \ S : reply'[s] = reply[s] /\ msg'[s] = msg[s]
      /\ ha' = ha
  BY DEF Abandon
<1>6. WebhookTypeOK'
  BY <1>3, <1>4, <1>5 DEF WebhookTypeOK
<1> QED
  BY <1>2, <1>5, <1>6

LEMMA PostFailsLemma ==
    ASSUME WebhookTypeOK, NEW s \in Senders, PostFails(s)
    PROVE  /\ WebhookTypeOK'
           /\ \A m \in late' : m \in late \/ (reply[s] = "pending" /\ m = msg[s])
           /\ reply'[s] = "none"
           /\ \A r \in Senders \ {s} : reply'[r] = reply[r] /\ msg'[r] = msg[r]
           /\ ha' = ha
BY AbandonLemma, {s} \in SUBSET Senders DEF PostFails

LEMMA PostSucceedsLemma ==
    ASSUME WebhookTypeOK, NEW s \in Senders, PostSucceeds(s)
    PROVE  /\ WebhookTypeOK'
           /\ reply'[s] = "none"
           /\ \A r \in Senders \ {s} : reply'[r] = reply[r] /\ msg'[r] = msg[r]
           /\ ha' = ha /\ late' = late
BY DEF WebhookTypeOK, PostSucceeds, Accepted, Replies

LEMMA StoredLemma ==
    ASSUME WebhookTypeOK, NEW m \in Messages, NEW how \in {"live", "late"}
    PROVE  /\ Stored(m, how) \in HAState
           /\ Stored(m, how).seen >= ha.seen
           /\ m \in Register => /\ Stored(m, how).token = m.token
                                /\ Stored(m, how).tokenBy = how
                                /\ Stored(m, how).menu = ha.menu
                                /\ Stored(m, how).menuBy = ha.menuBy
                                /\ Stored(m, how).seen = ha.seen
           /\ m \in Update => /\ Stored(m, how).token = ha.token
                              /\ Stored(m, how).tokenBy = ha.tokenBy
                              /\ Stored(m, how).menu = m.menu
                              /\ Stored(m, how).menuBy = IF how = "late" THEN "late" ELSE m.via
                              /\ Stored(m, how).seen = Newer(m.menu, ha.seen)
<1>1. ha \in HAState /\ ha.seen \in Nat
  BY DEF WebhookTypeOK, HAState, Menus
<1>2. CASE m \in Register
  <2>1. m.action = "register_agent_token" /\ m.token \in Tokens
    BY <1>2 DEF Register
  <2>2. m \notin Update
    BY <2>1 DEF Update
  <2>3. Stored(m, how) = [ha EXCEPT !.token = m.token, !.tokenBy = how]
    BY <2>1 DEF Stored
  <2>4. Stored(m, how) \in HAState
    BY <1>1, <2>1, <2>3 DEF HAState
  <2> QED
    BY <1>1, <2>2, <2>3, <2>4 DEF HAState
<1>3. CASE m \in Update
  <2>1. m.menu \in Menus /\ m.via \in {"daemon", "direct"} /\ m.action = "update_boot_options"
    BY <1>3 DEF Update
  <2>2. Newer(m.menu, ha.seen) \in Menus /\ Newer(m.menu, ha.seen) >= ha.seen
    BY <1>1, <2>1 DEF HAState, Newer, Menus
  <2>3. m \notin Register
    BY <2>1 DEF Register
  <2> QED
    BY <1>1, <2>1, <2>2, <2>3 DEF Stored, HAState
<1> QED
  BY <1>2, <1>3 DEF Messages

LEMMA HomeAssistantType ==
    ASSUME WebhookTypeOK, HomeAssistant
    PROVE  WebhookTypeOK'
<1>1. ASSUME NEW s \in Senders, HAAccepts(s) PROVE WebhookTypeOK'
  BY <1>1, StoredLemma DEF WebhookTypeOK, HAAccepts, Replies
<1>2. ASSUME NEW s \in Senders, HARefuses(s) PROVE WebhookTypeOK'
  BY <1>2 DEF WebhookTypeOK, HARefuses, Replies
<1>3. CASE LateArrives
  BY <1>3, StoredLemma DEF WebhookTypeOK, LateArrives
<1>4. CASE LateLost
  BY <1>4 DEF WebhookTypeOK, LateLost
<1> QED
  BY <1>1, <1>2, <1>3, <1>4 DEF HomeAssistant

\* All that unregistering the host touches is the token Home Assistant holds.
LEMMA UnregisteredLemma ==
    ASSUME WebhookTypeOK, HostUnregistered
    PROVE  /\ WebhookTypeOK'
           /\ UNCHANGED <<msg, reply, late, ha.menu, ha.menuBy, ha.seen>>
           /\ ha'.tokenBy = "removed"
<1>1. ha \in HAState /\ ha' = [ha EXCEPT !.token = NoToken, !.tokenBy = "removed"]
  BY DEF HostUnregistered, WebhookTypeOK
<1>2. ha' \in HAState /\ ha'.tokenBy = "removed"
  BY <1>1 DEF HAState
<1>3. ha'.menu = ha.menu /\ ha'.menuBy = ha.menuBy /\ ha'.seen = ha.seen
  BY <1>1 DEF HAState
<1> QED
  BY <1>2, <1>3 DEF HostUnregistered, WebhookTypeOK

----------------------------------------------------------------------------
(* Type correctness *)

\* A running process has a token, so that it can register it.
TypeInv == TypeOK /\ (main # "down" => token \in Tokens)

LEMMA TypeInit == Init => TypeInv
<1> SUFFICES ASSUME Init PROVE TypeInv
  OBVIOUS
<1>1. 0 \in Menus /\ 0 \in 0..MaxBackoff
  BY Zero
<1>2. WebhookTypeOK
  BY <1>1 DEF Init, WebhookInit, WebhookTypeOK, HAState, Replies
<1> QED
  BY <1>1, <1>2 DEF Init, TypeInv, TypeOK, Steps, PushSteps

LEMMA TriggerUpdateType ==
    ASSUME TypeInv, NEW p \in Senders, TriggerUpdate(p)
    PROVE  TypeInv'
<1> USE DEF TypeInv, TypeOK, PushSteps
<1>0. ASSUME NEW r \in {"ok", "error"}, Return(p, r), WebhookTypeOK'
      PROVE  TypeInv'
  BY Zero, <1>0 DEF Return, processVars, listenVars, machineVars
<1>1. CASE Lock(p)
  BY <1>1 DEF Lock, webhookVars, processVars, listenVars, machineVars, WebhookTypeOK
<1>2. CASE NothingToReport(p)
  <2>1. Return(p, "ok") /\ UNCHANGED webhookVars
    BY <1>2 DEF NothingToReport
  <2>2. WebhookTypeOK'
    BY <2>1 DEF webhookVars, WebhookTypeOK
  <2> QED
    BY <1>0, <2>1, <2>2
<1>3. CASE ReadGrub(p)
  <2>1. /\ UNCHANGED <<webhookVars, processVars, mu, began, listenVars, machineVars>>
        /\ tu' = [tu EXCEPT ![p] = "post"] /\ options' = [options EXCEPT ![p] = menu]
    BY <1>3 DEF ReadGrub
  <2> QED
    BY <2>1 DEF webhookVars, processVars, listenVars, machineVars, WebhookTypeOK
<1>4. CASE ReadGrubFails(p)
  <2>1. Return(p, "error") /\ UNCHANGED webhookVars
    BY <1>4 DEF ReadGrubFails
  <2>2. WebhookTypeOK'
    BY <2>1 DEF webhookVars, WebhookTypeOK
  <2> QED
    BY <1>0, <2>1, <2>2
<1>5. CASE SendUpdate(p)
  <2>1. UpdatePayload(options[p], "daemon") \in Messages
    BY DEF UpdatePayload, Messages, Update
  <2>2. WebhookTypeOK'
    BY <1>5, <2>1, PostType DEF SendUpdate
  <2> QED
    BY <1>5, <2>2 DEF SendUpdate, daemonVars, processVars, pushVars, listenVars, machineVars
<1>6. CASE UpdateNotSent(p)
  <2>1. Return(p, "error") /\ UNCHANGED webhookVars
    BY <1>6 DEF UpdateNotSent
  <2>2. WebhookTypeOK'
    BY <2>1 DEF webhookVars, WebhookTypeOK
  <2> QED
    BY <1>0, <2>1, <2>2
<1>7. CASE UpdateSucceeds(p)
  <2>1. Return(p, "ok") /\ WebhookTypeOK'
    BY <1>7, PostSucceedsLemma DEF UpdateSucceeds
  <2> QED
    BY <1>0, <2>1
<1>8. CASE UpdateFails(p)
  <2>1. Return(p, "error") /\ WebhookTypeOK'
    BY <1>8, PostFailsLemma DEF UpdateFails
  <2> QED
    BY <1>0, <2>1
<1> QED
  BY <1>1, <1>2, <1>3, <1>4, <1>5, <1>6, <1>7, <1>8 DEF TriggerUpdate

LEMMA ProcessEndsType ==
    ASSUME TypeInv, ProcessEnds, UNCHANGED machineVars
    PROVE  TypeInv'
<1>1. InDaemon \in SUBSET Senders
  BY DEF InDaemon
<1>2. WebhookTypeOK'
  BY <1>1, AbandonLemma DEF ProcessEnds, TypeInv, TypeOK
<1> QED
  BY Zero, <1>2 DEF ProcessEnds, machineVars, TypeInv, TypeOK, Steps, PushSteps

LEMMA RunType ==
    ASSUME TypeInv, Run
    PROVE  TypeInv'
<1> USE DEF TypeInv, TypeOK, Steps
<1> Main \in Senders
  BY SendersAssumption
<1>1. CASE Start
  <2>1. token' \in Tokens
    BY <1>1, ConfigAssumption DEF Start, FreshTokens
  <2> QED
    BY <1>1, <2>1, ConfigAssumption DEF Start, webhookVars, pushVars, listenVars, machineVars, WebhookTypeOK
<1>2. CASE RegisterAgent
  <2>1. RegisterPayload(token) \in Messages
    BY <1>2 DEF RegisterAgent, RegisterPayload, Messages, Register
  <2>2. WebhookTypeOK'
    BY <1>2, <2>1, PostType DEF RegisterAgent
  <2> QED
    BY <1>2, <2>2 DEF RegisterAgent, daemonVars, processVars, pushVars, listenVars, machineVars
<1>3. CASE RegisterNotSent
  BY <1>3 DEF RegisterNotSent, webhookVars, pushVars, listenVars, machineVars, WebhookTypeOK
<1>4. CASE RegisterSucceeds
  BY Zero, <1>4, PostSucceedsLemma DEF RegisterSucceeds, Call, listenVars, machineVars, PushSteps
<1>5. CASE RegisterFails
  BY <1>5, PostFailsLemma DEF RegisterFails, pushVars, listenVars, machineVars
<1>6. CASE BackoffElapses
  BY <1>6, ConfigAssumption DEF BackoffElapses, NextBackoff, webhookVars, pushVars, listenVars, machineVars, WebhookTypeOK
<1>7. CASE HandshakeCancelled
  BY <1>7, ProcessEndsType DEF HandshakeCancelled
<1>8. CASE StartListeners
  BY Zero, <1>8 DEF StartListeners, Resume, webhookVars, machineVars, WebhookTypeOK, PushSteps
<1>9. CASE Terminate
  BY <1>9 DEF Terminate, Call, webhookVars, listenVars, machineVars, WebhookTypeOK, PushSteps
<1>10. CASE ShutdownHTTP
  BY Zero, <1>10 DEF ShutdownHTTP, Resume, webhookVars, machineVars, WebhookTypeOK, PushSteps
<1>11. CASE Exit
  BY <1>11, ProcessEndsType DEF Exit
<1> QED
  BY <1>1, <1>2, <1>3, <1>4, <1>5, <1>6, <1>7, <1>8, <1>9, <1>10, <1>11 DEF Run

LEMMA HandlersType ==
    ASSUME TypeInv,
           \/ SocketListener \/ ListenHTTP
           \/ \E c \in Clients : SocketHandler(c) \/ Connect(c) \/ HangUp(c)
           \/ \E h \in Callers : PrePushReturns(h) \/ PowerOff(h) \/ PostShutdown(h)
    PROVE  TypeInv'
<1> USE DEF TypeInv, TypeOK
<1> Clients \subseteq Senders /\ Callers \subseteq Senders
  BY SendersAssumption
<1>1. CASE SocketListener
  BY <1>1 DEF SocketListener, RemoveSocket, RemoveSocketFails, ListenSocket, CloseSocket,
              webhookVars, processVars, pushVars, machineVars, WebhookTypeOK
<1>2. CASE ListenHTTP
  BY <1>2 DEF ListenHTTP, webhookVars, processVars, pushVars, machineVars, WebhookTypeOK
<1>3. ASSUME NEW c \in Clients, SocketHandler(c) PROVE TypeInv'
  BY Zero, <1>3 DEF SocketHandler, AcceptPush, AnswerPush, Call, Resume,
              webhookVars, processVars, machineVars, WebhookTypeOK, PushSteps
<1>4. ASSUME NEW c \in Clients, Connect(c) \/ HangUp(c) PROVE TypeInv'
  BY <1>4 DEF Connect, HangUp, webhookVars, processVars, pushVars, machineVars, WebhookTypeOK
<1>5. ASSUME NEW h \in Callers, PrePushReturns(h) PROVE TypeInv'
  BY Zero, <1>5 DEF PrePushReturns, Resume, webhookVars, processVars, machineVars, WebhookTypeOK, PushSteps
<1>6. ASSUME NEW h \in Callers, PostShutdown(h) PROVE TypeInv'
  BY <1>6 DEF PostShutdown, Call, webhookVars, processVars, pushVars, machineVars, WebhookTypeOK, PushSteps
<1>7. ASSUME NEW h \in Callers, PowerOff(h) PROVE TypeInv'
  BY <1>7 DEF PowerOff, webhookVars, processVars, pushVars, WebhookTypeOK
<1> QED
  BY <1>1, <1>2, <1>3, <1>4, <1>5, <1>6, <1>7

LEMMA MachineType ==
    ASSUME TypeInv, Machine
    PROVE  TypeInv'
<1> USE DEF TypeInv, TypeOK, webhookVars, processVars, pushVars, listenVars, machineVars, WebhookTypeOK
<1>1. CASE StopUnit \/ StartUnit
  <2>1. CASE StopUnit
    <3>1. cancelled' \in BOOLEAN
      BY <2>1 DEF StopUnit
    <3>2. main' = main /\ wanted' \in BOOLEAN
      BY <2>1 DEF StopUnit
    <3> QED
      BY <2>1, <3>1, <3>2 DEF StopUnit
  <2>2. CASE StartUnit
    BY <2>2 DEF StartUnit
  <2> QED
    BY <1>1, <2>1, <2>2
<1>2. CASE Halt
  BY <1>2 DEF Halt
<1>3. CASE HaltUnit
  BY <1>3 DEF HaltUnit
<1>4. CASE PowerDown
  BY <1>4 DEF PowerDown
<1>5. CASE Boot
  BY <1>5 DEF Boot
<1>6. CASE MenuChanges
  BY <1>6, BoundsAssumption DEF MenuChanges, Menus
<1> QED
  BY <1>1, <1>2, <1>3, <1>4, <1>5, <1>6 DEF Machine

LEMMA TypeStep == TypeInv /\ [Next]_vars => TypeInv'
<1> SUFFICES ASSUME TypeInv, [Next]_vars PROVE TypeInv'
  OBVIOUS
<1>1. CASE Run
  BY <1>1, RunType
<1>2. CASE \E p \in Senders : TriggerUpdate(p)
  BY <1>2, TriggerUpdateType
<1>3. CASE \/ SocketListener \/ ListenHTTP
           \/ \E c \in Clients : SocketHandler(c) \/ Connect(c) \/ HangUp(c)
           \/ \E h \in Callers : PrePushReturns(h) \/ PowerOff(h) \/ PostShutdown(h)
  BY <1>3, HandlersType
<1>4. CASE HomeAssistant /\ UNCHANGED daemonVars
  BY <1>4, HomeAssistantType
     DEF TypeInv, TypeOK, daemonVars, processVars, pushVars, listenVars, machineVars
<1>5. CASE Machine
  BY <1>5, MachineType
<1>6. CASE Crash
  BY <1>6, ProcessEndsType DEF Crash
<1>7. CASE ServiceRemove
  <2>1. WebhookTypeOK'
    BY <1>7, UnregisteredLemma DEF ServiceRemove, TypeInv, TypeOK
  <2> QED
    BY <1>7, <2>1 DEF ServiceRemove, TypeInv, TypeOK, daemonVars, processVars, pushVars, listenVars, machineVars
<1>8. CASE UNCHANGED vars
  BY <1>8 DEF vars, daemonVars, webhookVars, processVars, pushVars, listenVars, machineVars,
              TypeInv, TypeOK, WebhookTypeOK
<1> QED
  BY <1>1, <1>2, <1>3, <1>4, <1>5, <1>6, <1>7, <1>8 DEF Next, DaemonStep, Environment, ClientStep

\* Every variable keeps its type, the backoff stays below its cap, and a
\* request that is outstanding always has a payload.
THEOREM TypeCorrect == Spec => []TypeOK
<1>1. TypeInv => TypeOK
  BY DEF TypeInv
<1> QED
  BY <1>1, TypeInit, TypeStep, PTL DEF Spec

----------------------------------------------------------------------------
(* Between two processes *)

\* Without a process nobody listens and nobody is in TriggerUpdate: the next one
\* begins from nothing, whatever it finds in its configuration.
Quiet == main = "down" => lst = "idle" /\ http = "closed" /\ \A p \in Senders : tu[p] = "idle"

LEMMA QuietInit == Init => Quiet
BY DEF Init, Quiet

LEMMA QuietStep ==
    ASSUME TypeInv, Quiet, [Next]_vars
    PROVE  Quiet'
<1> USE DEF Quiet
<1>1. CASE Start \/ RegisterSucceeds \/ StartListeners \/ Terminate \/ ShutdownHTTP \/ RegisterNotSent \/ RegisterFails
           \/ BackoffElapses
  BY <1>1 DEF Start, RegisterSucceeds, StartListeners, Terminate, ShutdownHTTP, RegisterNotSent, RegisterFails,
              BackoffElapses
<1>2. CASE ProcessEnds
  BY <1>2 DEF ProcessEnds
<1>3. CASE UNCHANGED <<main, lst, http, tu>>
  BY <1>3
<1>4. CASE Run \/ Crash
  BY <1>1, <1>2, <1>3, <1>4
     DEF Run, RegisterAgent, HandshakeCancelled, Exit, Crash, daemonVars, processVars, pushVars, listenVars
<1>5. ASSUME NEW p \in Senders, TriggerUpdate(p) PROVE Quiet'
  <2>1. main' = main /\ tu[p] # "idle"
    BY <1>5 DEF TriggerUpdate, Lock, NothingToReport, ReadGrub, ReadGrubFails, SendUpdate, UpdateNotSent,
                UpdateSucceeds, UpdateFails, Return, daemonVars, processVars
  <2> QED  BY <2>1
<1>6. CASE \/ SocketListener
           \/ \E c \in Clients : AcceptPush(c)
  <2>1. main' = main /\ lst # "idle"
    BY <1>6 DEF SocketListener, RemoveSocket, RemoveSocketFails, ListenSocket, CloseSocket, AcceptPush, processVars
  <2> QED  BY <2>1
<1>7. CASE ListenHTTP \/ \E h \in Callers : PostShutdown(h)
  <2>1. main' = main /\ http # "closed"
    BY <1>7 DEF ListenHTTP, PostShutdown, processVars
  <2> QED  BY <2>1
<1>8. CASE \/ \E c \in Clients : AnswerPush(c)
           \/ \E h \in Callers : PrePushReturns(h)
  <2>1. UNCHANGED <<main, lst, http>> /\ \A p \in Senders : tu'[p] \in {tu[p], "idle"}
    BY <1>8 DEF AnswerPush, PrePushReturns, Resume, processVars, TypeInv, TypeOK
  <2> QED  BY <2>1
<1>9. CASE \/ Machine \/ ServiceRemove \/ (HomeAssistant /\ UNCHANGED daemonVars) \/ UNCHANGED vars
           \/ \E c \in Clients : Connect(c) \/ HangUp(c)
           \/ \E h \in Callers : PowerOff(h)
  BY <1>3, <1>9
     DEF Machine, StopUnit, StartUnit, Halt, HaltUnit, PowerDown, Boot, MenuChanges, ServiceRemove, Connect, HangUp,
         PowerOff, vars, daemonVars, processVars, pushVars, listenVars
<1> QED
  BY <1>4, <1>5, <1>6, <1>7, <1>8, <1>9 DEF Next, DaemonStep, Environment, ClientStep, SocketHandler

----------------------------------------------------------------------------
(* TriggerUpdate: mutual exclusion, freshness and the order of the pushes *)

\* The request of p is none of the daemon's: a command posts it by itself.
Beside(p) == reply[p] # "none" /\ msg[p] \in Update /\ msg[p].via = "direct"

\* In the module Daemon nobody does.
Alone == \A p \in Senders : ~Beside(p)

\* What holds of p on its way through TriggerUpdate.  Its request is the menu
\* it read under the mutex; that menu is no older than the call of p, and no
\* older than what the daemon has pushed so far.  No goroutine of the daemon
\* serves a command that posts by itself.
PushOK(p) ==
    /\ mu = p <=> tu[p] \in {"grub", "post"}
    /\ reply[p] # "none" => tu[p] = "post" \/ (p = Main /\ main = "register") \/ Beside(p)
    /\ Beside(p) => p \in Clients /\ tu[p] = "idle" /\ msg[p].menu <= menu
    /\ began[p] <= menu
    /\ tu[p] = "post" => /\ reporting /\ began[p] <= options[p] /\ options[p] <= menu
                         /\ ha.menuBy = "daemon" => ha.menu <= options[p]
    /\ tu[p] = "post" /\ reply[p] # "none" => msg[p] = UpdatePayload(options[p], "daemon")
    /\ tu[p] = "post" /\ reply[p] = "OK" => ha.seen >= options[p]
    /\ tu[p] = "ok" /\ reporting => ha.seen >= began[p]

MainInv ==
    /\ main \notin {"push", "final"} => tu[Main] = "idle"
    /\ main = "register" /\ reply[Main] # "none" => msg[Main] = RegisterPayload(token)

PushInv ==
    /\ TypeInv
    /\ MainInv
    /\ ha.menuBy = "daemon" => ha.menu <= menu
    /\ \A p \in Senders : PushOK(p)

LEMMA Numbers ==
    ASSUME TypeInv
    PROVE  /\ menu \in Nat /\ ha.menu \in Nat /\ ha.seen \in Nat
           /\ \A p \in Senders : began[p] \in Nat /\ options[p] \in Nat
<1>1. Menus \subseteq Nat
  BY DEF Menus
<1> QED
  BY <1>1 DEF TypeInv, TypeOK, WebhookTypeOK, HAState

\* The menu on disk only gets newer.
LEMMA MenuGrows ==
    ASSUME TypeInv, Next
    PROVE  menu' >= menu
<1>1. menu \in Nat
  BY Numbers
<1>2. CASE MenuChanges
  BY <1>1, <1>2 DEF MenuChanges
<1>3. CASE ~MenuChanges
  <2> USE DEF machineVars, daemonVars
  <2>1. CASE Run
    BY <1>1, <2>1 DEF Run, Start, RegisterAgent, RegisterNotSent, RegisterSucceeds, RegisterFails,
              BackoffElapses, HandshakeCancelled, StartListeners, Terminate, ShutdownHTTP, Exit
  <2>2. CASE \E p \in Senders : TriggerUpdate(p)
    BY <1>1, <2>2 DEF TriggerUpdate, Lock, NothingToReport, ReadGrub, ReadGrubFails, SendUpdate, UpdateNotSent,
              UpdateSucceeds, UpdateFails, Return
  <2>3. CASE \/ SocketListener \/ ListenHTTP \/ Crash
             \/ \E c \in Clients : SocketHandler(c) \/ Connect(c) \/ HangUp(c)
             \/ \E h \in Callers : PrePushReturns(h) \/ PowerOff(h) \/ PostShutdown(h)
    BY <1>1, <2>3 DEF SocketListener, RemoveSocket, RemoveSocketFails, ListenSocket, CloseSocket, ListenHTTP, SocketHandler,
              AcceptPush, AnswerPush, Connect, HangUp, PrePushReturns, PowerOff, PostShutdown, Crash
  <2>4. CASE (HomeAssistant /\ UNCHANGED daemonVars) \/ ServiceRemove
    BY <1>1, <2>4 DEF ServiceRemove
  <2>5. CASE Machine
    BY <1>1, <1>3, <2>5 DEF Machine, StopUnit, StartUnit, Halt, HaltUnit, PowerDown, Boot
  <2> QED
    BY <2>1, <2>2, <2>3, <2>4, <2>5 DEF Next, DaemonStep, Environment, ClientStep
<1> QED
  BY <1>2, <1>3

LEMMA PushInit == Init => PushInv
<1> SUFFICES ASSUME Init PROVE PushInv
  OBVIOUS
<1>1. TypeInv
  BY TypeInit
<1>2. 0 <= menu
  BY <1>1, Numbers
<1> QED
  BY <1>1, <1>2, SendersAssumption DEF Init, WebhookInit, PushInv, MainInv, PushOK, Beside

\* What is posted beside the daemon is posted for a client.
LEMMA BesideClient ==
    ASSUME PushInv, NEW p \in Senders, Beside(p)
    PROVE  /\ p \in Clients /\ p # Main /\ p \notin Callers /\ p \notin InDaemon
           /\ tu[p] = "idle" /\ msg[p].menu \in Nat /\ msg[p].menu <= menu
<1>1. p \in Clients /\ tu[p] = "idle" /\ msg[p].menu <= menu
  BY DEF PushInv, PushOK
<1>2. msg[p].menu \in Nat
  BY DEF Beside, Update, Menus
<1> QED
  BY <1>1, <1>2, SendersAssumption DEF InDaemon

\* Steps that touch nothing of it.
LEMMA PushFrame ==
    ASSUME PushInv, TypeInv', UNCHANGED <<main, token, reporting, mu, tu, began, options, menu, msg, reply, ha>>
    PROVE  PushInv'
BY DEF PushInv, MainInv, PushOK, Beside

LEMMA PushTriggerUpdate ==
    ASSUME PushInv, NEW p \in Senders, TriggerUpdate(p)
    PROVE  PushInv'
<1>1. TypeInv'
  BY TriggerUpdateType DEF PushInv
<1>2. UNCHANGED <<main, token, reporting, menu, began, ha>>
  BY <1>1, PostFailsLemma
     DEF TriggerUpdate, Lock, NothingToReport, ReadGrub, ReadGrubFails, SendUpdate, UpdateNotSent,
         UpdateSucceeds, UpdateFails, Return, Post, PostSucceeds, PostFails, Abandon,
         webhookVars, daemonVars, processVars, pushVars, listenVars, machineVars
<1>3. /\ \A q \in Senders \ {p} : reply'[q] = reply[q] /\ msg'[q] = msg[q]
      /\ \A q \in Senders \ {p} : options'[q] = options[q] /\ tu'[q] = tu[q]
  BY PostFailsLemma, PostSucceedsLemma
     DEF TriggerUpdate, Lock, NothingToReport, ReadGrub, ReadGrubFails, SendUpdate, UpdateNotSent,
         UpdateSucceeds, UpdateFails, Return, Post, PushInv, TypeInv, TypeOK, WebhookTypeOK,
         webhookVars, daemonVars, processVars, pushVars, listenVars, machineVars
<1>4. tu[p] \in {"lock", "grub", "post"} /\ (p = Main => main \in {"push", "final"})
  BY DEF PushInv, MainInv, TriggerUpdate, Lock, NothingToReport, ReadGrub, ReadGrubFails, SendUpdate,
         UpdateNotSent, UpdateSucceeds, UpdateFails
<1>5. MainInv'
  BY <1>2, <1>3, <1>4, SendersAssumption DEF PushInv, MainInv
<1>6. \A q \in Senders \ {p} : PushOK(q)'
  <2> SUFFICES ASSUME NEW q \in Senders \ {p} PROVE PushOK(q)'
    OBVIOUS
  <2>1. mu' = q <=> mu = q
    <3>1. CASE Lock(p)
      BY <3>1, SendersAssumption DEF Lock
    <3>2. CASE ~Lock(p)
      BY <3>2, SendersAssumption
         DEF TriggerUpdate, NothingToReport, ReadGrub, ReadGrubFails, SendUpdate, UpdateNotSent,
             UpdateSucceeds, UpdateFails, Return, daemonVars, pushVars, PushInv, PushOK, Beside
    <3> QED
      BY <3>1, <3>2
  <2> QED
    BY <1>2, <1>3, <2>1 DEF PushInv, PushOK, Beside
<1>7. PushOK(p)'
  <2>1. CASE Lock(p)
    BY <2>1, <1>2 DEF Lock, PushInv, PushOK, Beside, TypeInv, TypeOK, webhookVars
  <2>2. CASE NothingToReport(p)
    BY <2>2, <1>2, <1>4, SendersAssumption DEF NothingToReport, Return, PushInv, PushOK, Beside, TypeInv, TypeOK, webhookVars
  <2>3. CASE ReadGrub(p)
    <3>1. /\ UNCHANGED <<mu, msg, reply, ha>> /\ mu = p /\ tu[p] = "grub"
          /\ tu'[p] = "post" /\ options'[p] = menu
      BY <2>3 DEF ReadGrub, PushInv, PushOK, TypeInv, TypeOK, webhookVars
    <3>2. reporting'
      BY <2>3, <1>2 DEF ReadGrub
    <3>3. menu \in Nat /\ ha.menu \in Nat /\ began[p] <= menu /\ (ha.menuBy = "daemon" => ha.menu <= menu)
      BY Numbers DEF PushInv, PushOK
    <3>4. reply[p] = "none"
      BY <3>1, <1>4 DEF PushInv, PushOK
    <3> QED
      BY <1>2, <3>1, <3>2, <3>3, <3>4 DEF PushOK, Beside
  <2>4. CASE ReadGrubFails(p)
    BY <2>4, <1>2, <1>4, SendersAssumption DEF ReadGrubFails, Return, PushInv, PushOK, Beside, TypeInv, TypeOK, webhookVars
  <2>5. CASE SendUpdate(p)
    <3>1. msg'[p] = UpdatePayload(options[p], "daemon") /\ UNCHANGED <<tu, mu, options>>
      BY <2>5 DEF SendUpdate, Post, PushInv, TypeInv, TypeOK, WebhookTypeOK, daemonVars, pushVars
    <3>2. msg'[p].via = "daemon" /\ tu[p] = "post"
      BY <2>5, <3>1 DEF UpdatePayload, SendUpdate
    <3> QED
      BY <2>5, <1>2, <3>1, <3>2
         DEF SendUpdate, Post, PushInv, PushOK, Beside, TypeInv, TypeOK, WebhookTypeOK
  <2>6. CASE UpdateNotSent(p)
    BY <2>6, <1>2, SendersAssumption DEF UpdateNotSent, Return, PushInv, PushOK, Beside, TypeInv, TypeOK, webhookVars
  <2>7. CASE UpdateSucceeds(p)
    <3>1. ha.seen >= options[p] /\ options[p] >= began[p] /\ reply'[p] = "none"
      BY <2>7, PostSucceedsLemma DEF UpdateSucceeds, PostSucceeds, Accepted, PushInv, PushOK, Beside, TypeInv, TypeOK
    <3> QED
      BY <2>7, <3>1, <1>2, Numbers, SendersAssumption DEF UpdateSucceeds, Return, PushInv, PushOK, Beside, TypeInv, TypeOK
  <2>8. CASE UpdateFails(p)
    <3>1. reply'[p] = "none"
      BY <2>8, PostFailsLemma DEF UpdateFails, PushInv, TypeInv, TypeOK
    <3> QED
      BY <2>8, <3>1, <1>2, SendersAssumption DEF UpdateFails, Return, PushInv, PushOK, Beside, TypeInv, TypeOK
  <2> QED
    BY <2>1, <2>2, <2>3, <2>4, <2>5, <2>6, <2>7, <2>8 DEF TriggerUpdate
<1> QED
  BY <1>1, <1>2, <1>5, <1>6, <1>7 DEF PushInv

\* A request of s carries the menu s read, or is the registration, or is none of
\* the daemon's.
LEMMA PendingMessage ==
    ASSUME PushInv, NEW s \in Senders, reply[s] # "none"
    PROVE  \/ tu[s] = "post" /\ msg[s] = UpdatePayload(options[s], "daemon") /\ msg[s] \in Update
           \/ s = Main /\ main = "register" /\ msg[s] = RegisterPayload(token) /\ msg[s] \in Register
           \/ Beside(s) /\ s \in Clients /\ tu[s] = "idle" /\ msg[s] \in Update /\ msg[s].menu <= menu
<1>1. msg[s] \in Messages
  BY DEF PushInv, TypeInv, TypeOK, WebhookTypeOK
<1>2. CASE tu[s] = "post"
  BY <1>1, <1>2 DEF PushInv, PushOK, Beside, UpdatePayload, Messages, Register, Update
<1>3. CASE s = Main /\ main = "register"
  BY <1>1, <1>3 DEF PushInv, MainInv, RegisterPayload, Messages, Register, Update
<1> QED
  BY <1>2, <1>3 DEF PushInv, PushOK, Beside

\* What an accepted request does to the menu Home Assistant holds.
LEMMA AcceptedMenu ==
    ASSUME PushInv, NEW s \in Senders, HAAccepts(s)
    PROVE  /\ ha'.seen >= ha.seen
           /\ \/ UNCHANGED <<ha.menu, ha.menuBy>> /\ s = Main /\ main = "register"
              \/ tu[s] = "post" /\ ha'.menu = options[s] /\ ha'.menuBy = "daemon" /\ ha'.seen >= options[s]
              \/ Beside(s) /\ ha'.menuBy = "direct"
<1>1. reply[s] # "none" /\ ha' = Stored(msg[s], "live") /\ msg[s] \in Messages
  BY DEF HAAccepts, PushInv, TypeInv, TypeOK, WebhookTypeOK
<1>2. ha'.seen >= ha.seen
  BY <1>1, StoredLemma DEF PushInv, TypeInv, TypeOK
<1>3. CASE tu[s] = "post" /\ msg[s] = UpdatePayload(options[s], "daemon") /\ msg[s] \in Update
  <2>1. msg[s].menu = options[s] /\ msg[s].via = "daemon"
    BY <1>3 DEF UpdatePayload
  <2>2. ha'.menu = options[s] /\ ha'.menuBy = "daemon" /\ ha'.seen = Newer(options[s], ha.seen)
    BY <1>1, <1>3, <2>1, StoredLemma DEF PushInv, TypeInv, TypeOK
  <2> QED
    BY <1>2, <1>3, <2>2, Numbers DEF Newer, PushInv
<1>4. CASE s = Main /\ main = "register" /\ msg[s] \in Register
  BY <1>1, <1>2, <1>4, StoredLemma DEF PushInv, TypeInv, TypeOK
<1>5. CASE Beside(s)
  BY <1>1, <1>2, <1>5, StoredLemma DEF Beside, PushInv, TypeInv, TypeOK
<1> QED
  BY <1>1, <1>3, <1>4, <1>5, PendingMessage

LEMMA LateMenu ==
    ASSUME TypeInv, LateArrives
    PROVE  /\ ha'.seen >= ha.seen
           /\ ha'.menuBy = "late" \/ UNCHANGED <<ha.menu, ha.menuBy>>
<1>1. PICK m \in late : ha' = Stored(m, "late") /\ m \in Messages
  BY DEF LateArrives, TypeInv, TypeOK, WebhookTypeOK
<1> QED
  BY <1>1, StoredLemma DEF TypeInv, TypeOK, Messages

LEMMA PushHomeAssistant ==
    ASSUME PushInv, HomeAssistant, UNCHANGED daemonVars
    PROVE  PushInv'
<1> USE DEF daemonVars, processVars, pushVars, machineVars
<1>1. TypeInv' /\ ha'.seen \in Nat
  BY HomeAssistantType DEF PushInv, TypeInv, TypeOK, listenVars, WebhookTypeOK, HAState, Menus
<1>2. CASE LateLost
  BY <1>1, <1>2, PushFrame DEF LateLost
<1>3. CASE LateArrives
  <2>1. UNCHANGED <<msg, reply>>
    BY <1>3 DEF LateArrives
  <2>2. ha'.seen >= ha.seen /\ (ha'.menuBy = "late" \/ UNCHANGED <<ha.menu, ha.menuBy>>)
    BY <1>3, LateMenu DEF PushInv
  <2>3. MainInv'
    BY <2>1 DEF PushInv, MainInv
  <2>4. ASSUME NEW p \in Senders PROVE PushOK(p)'
    <3>1. ha'.seen \in Nat /\ ha.seen \in Nat /\ options[p] \in Nat /\ began[p] \in Nat
      BY <1>1, Numbers DEF PushInv
    <3> QED
      BY <2>1, <2>2, <3>1 DEF PushInv, PushOK, Beside
  <2> QED
    BY <1>1, <2>2, <2>3, <2>4 DEF PushInv
<1>4. ASSUME NEW s \in Senders, HARefuses(s) PROVE PushInv'
  <2>1. \A p \in Senders : reply'[p] # "none" => reply[p] # "none" /\ (reply'[p] = "OK" => reply[p] = "OK")
    BY <1>4 DEF HARefuses, PushInv, TypeInv, TypeOK, WebhookTypeOK
  <2>2. MainInv'
    BY <1>4, <2>1, SendersAssumption DEF HARefuses, PushInv, MainInv
  <2> QED
    BY <1>1, <1>4, <2>1, <2>2 DEF HARefuses, PushInv, PushOK, Beside
<1>5. ASSUME NEW s \in Senders, HAAccepts(s) PROVE PushInv'
  <2>1. \A p \in Senders : reply'[p] # "none" => reply[p] # "none" /\ (p # s => reply'[p] = reply[p])
    BY <1>5 DEF HAAccepts, PushInv, TypeInv, TypeOK, WebhookTypeOK
  <2>2. MainInv' /\ msg' = msg
    BY <1>5, <2>1, SendersAssumption DEF HAAccepts, PushInv, MainInv
  <2>3. ASSUME NEW p \in Senders PROVE PushOK(p)'
    <3>1. ha'.seen \in Nat /\ ha.seen \in Nat /\ options[p] \in Nat /\ began[p] \in Nat
      BY <1>1, Numbers DEF PushInv
    <3>2. p # s /\ tu[s] = "post" => tu[p] # "post"
      BY DEF PushInv, PushOK, Beside
    <3>3. s = Main /\ main = "register" => tu[s] = "idle"
      BY DEF PushInv, MainInv
    <3> QED
      BY <1>5, <2>1, <2>2, <3>1, <3>2, <3>3, AcceptedMenu DEF PushInv, PushOK, Beside
  <2>4. ha'.menuBy = "daemon" => ha'.menu <= menu'
    BY <1>5, AcceptedMenu DEF PushInv, PushOK, Beside
  <2> QED
    BY <1>1, <2>2, <2>3, <2>4 DEF PushInv
<1> QED
  BY <1>2, <1>3, <1>4, <1>5 DEF HomeAssistant

\* Calling TriggerUpdate, and taking its result, disturb nobody else.
LEMMA CallPush ==
    ASSUME PushInv, NEW p \in Senders, Call(p), ~Beside(p),
           UNCHANGED <<ha, menu, reporting>>,
           \A q \in Senders :
              \/ reply'[q] = reply[q] /\ msg'[q] = msg[q]
              \/ q = Main /\ reply'[q] = "none",
           main' # main => main # "register" \/ reply'[Main] = "none"
    PROVE  \A q \in Senders : PushOK(q)'
<1> SUFFICES ASSUME NEW q \in Senders PROVE PushOK(q)'
  OBVIOUS
<1>1. PushOK(q) /\ menu \in Nat
  BY Numbers DEF PushInv
<1>2. CASE q # p
  BY <1>1, <1>2 DEF Call, PushInv, PushOK, Beside, TypeInv, TypeOK
<1>3. CASE q = p
  BY <1>1, <1>3 DEF Call, PushInv, PushOK, Beside, TypeInv, TypeOK
<1> QED
  BY <1>2, <1>3

LEMMA ResumePush ==
    ASSUME PushInv, NEW p \in Senders, Resume(p), Returned(p),
           UNCHANGED <<ha, menu, reporting, msg, reply>>, main' # main => main # "register"
    PROVE  \A q \in Senders : PushOK(q)'
<1> SUFFICES ASSUME NEW q \in Senders PROVE PushOK(q)'
  OBVIOUS
<1>1. PushOK(q) /\ menu \in Nat
  BY Numbers DEF PushInv
<1>2. CASE q # p
  BY <1>1, <1>2 DEF Resume, PushInv, PushOK, Beside, TypeInv, TypeOK
<1>3. CASE q = p
  BY <1>1, <1>3 DEF Resume, Returned, PushInv, PushOK, Beside, TypeInv, TypeOK
<1> QED
  BY <1>2, <1>3

LEMMA ProcessEndsPush ==
    ASSUME PushInv, ProcessEnds, UNCHANGED machineVars
    PROVE  PushInv'
<1>1. TypeInv'
  BY ProcessEndsType DEF PushInv
<1>2. InDaemon \in SUBSET Senders
  BY DEF InDaemon
<1>3. /\ ha' = ha
      /\ \A p \in Senders : \/ reply'[p] = "none"
                            \/ Beside(p) /\ reply'[p] = reply[p] /\ msg'[p] = msg[p]
  <2>1. \A p \in Senders \ InDaemon : reply[p] = "none" \/ Beside(p)
    BY DEF PushInv, PushOK, InDaemon
  <2> QED
    BY <1>2, <2>1, AbandonLemma DEF ProcessEnds, PushInv, TypeInv, TypeOK
<1>4. MainInv'
  BY SendersAssumption DEF ProcessEnds, MainInv
<1>5. ASSUME NEW p \in Senders PROVE PushOK(p)'
  <2>1. CASE reply'[p] = "none"
    BY <1>3, <2>1, Numbers, SendersAssumption DEF ProcessEnds, PushOK, Beside, PushInv, machineVars
  <2>2. CASE Beside(p) /\ reply'[p] = reply[p] /\ msg'[p] = msg[p]
    BY <1>3, <2>2, Numbers, BesideClient, SendersAssumption DEF ProcessEnds, PushOK, Beside, PushInv, machineVars
  <2> QED
    BY <1>3, <2>1, <2>2
<1> QED
  BY <1>1, <1>3, <1>4, <1>5 DEF PushInv, machineVars

LEMMA PushRun ==
    ASSUME PushInv, Quiet, Run
    PROVE  PushInv'
<1> Main \in Senders
  BY SendersAssumption
<1>1. TypeInv'
  BY RunType DEF PushInv
<1>2. CASE Start
  <2>1. MainInv' /\ reply[Main] = "none"
    BY <1>2, BesideClient DEF Start, webhookVars, pushVars, PushInv, MainInv, PushOK
  <2>2. \A p \in Senders : tu[p] = "idle"
    BY <1>2 DEF Start, Quiet
  <2> QED
    BY <1>1, <1>2, <2>1, <2>2 DEF Start, webhookVars, pushVars, machineVars, PushInv, PushOK, Beside
<1>3. CASE RegisterAgent
  <2>1. UNCHANGED <<main, token, reporting, mu, tu, began, options, menu, ha>>
    BY <1>3 DEF RegisterAgent, Post, daemonVars, processVars, pushVars, machineVars
  <2>2. /\ \A q \in Senders \ {Main} : reply'[q] = reply[q] /\ msg'[q] = msg[q]
        /\ msg'[Main] = RegisterPayload(token) /\ main = "register"
    BY <1>3 DEF RegisterAgent, Post, PushInv, TypeInv, TypeOK, WebhookTypeOK
  <2>3. msg'[Main] \notin Update
    BY <2>2 DEF RegisterPayload, Update
  <2> QED
    BY <1>1, <2>1, <2>2, <2>3 DEF PushInv, MainInv, PushOK, Beside
<1>4. CASE RegisterNotSent
  BY <1>1, <1>4 DEF RegisterNotSent, webhookVars, pushVars, machineVars, PushInv, MainInv, PushOK, Beside
<1>5. CASE RegisterSucceeds
  <2>1. /\ reply'[Main] = "none" /\ ha' = ha
        /\ \A q \in Senders \ {Main} : reply'[q] = reply[q] /\ msg'[q] = msg[q]
    BY <1>5, PostSucceedsLemma DEF RegisterSucceeds, PushInv, TypeInv, TypeOK
  <2>2. \A q \in Senders : PushOK(q)'
    BY <1>5, <2>1, CallPush, BesideClient DEF RegisterSucceeds, machineVars
  <2> QED
    BY <1>1, <1>5, <2>1, <2>2 DEF RegisterSucceeds, machineVars, PushInv, MainInv
<1>6. CASE RegisterFails
  <2>1. /\ reply'[Main] = "none" /\ ha' = ha
        /\ \A q \in Senders \ {Main} : reply'[q] = reply[q] /\ msg'[q] = msg[q]
    BY <1>6, PostFailsLemma DEF RegisterFails, PushInv, TypeInv, TypeOK
  <2> QED
    BY <1>1, <1>6, <2>1 DEF RegisterFails, pushVars, machineVars, PushInv, MainInv, PushOK, Beside
<1>7. CASE BackoffElapses
  <2>1. reply[Main] = "none"
    BY <1>7, BesideClient DEF BackoffElapses, PushInv, MainInv, PushOK
  <2> QED
    BY <1>1, <1>7, <2>1 DEF BackoffElapses, webhookVars, pushVars, machineVars, PushInv, MainInv, PushOK, Beside
<1>8. CASE HandshakeCancelled
  BY <1>8, ProcessEndsPush DEF HandshakeCancelled
<1>9. CASE StartListeners
  <2>1. \A q \in Senders : PushOK(q)'
    BY <1>9, ResumePush DEF StartListeners, webhookVars, machineVars
  <2> QED
    BY <1>1, <1>9, <2>1 DEF StartListeners, Resume, webhookVars, machineVars, PushInv, MainInv, TypeInv, TypeOK
<1>10. CASE Terminate
  <2>1. \A q \in Senders : PushOK(q)'
    BY <1>10, CallPush, BesideClient DEF Terminate, webhookVars, machineVars
  <2> QED
    BY <1>1, <1>10, <2>1 DEF Terminate, webhookVars, machineVars, PushInv, MainInv
<1>11. CASE ShutdownHTTP
  <2>1. \A q \in Senders : PushOK(q)'
    BY <1>11, ResumePush DEF ShutdownHTTP, webhookVars, machineVars
  <2> QED
    BY <1>1, <1>11, <2>1 DEF ShutdownHTTP, Resume, webhookVars, machineVars, PushInv, MainInv, TypeInv, TypeOK
<1>12. CASE Exit
  BY <1>12, ProcessEndsPush DEF Exit
<1> QED
  BY <1>2, <1>3, <1>4, <1>5, <1>6, <1>7, <1>8, <1>9, <1>10, <1>11, <1>12 DEF Run

LEMMA PushHandlers ==
    ASSUME PushInv, TypeInv', \A c \in Clients : AcceptPush(c) => ~Beside(c),
           \/ \E c \in Clients : SocketHandler(c)
           \/ \E h \in Callers : PrePushReturns(h) \/ PostShutdown(h)
    PROVE  PushInv'
<1> USE DEF webhookVars, processVars, machineVars
<1>1. \A p \in Clients \cup Callers : p \in Senders /\ p # Main
  BY SendersAssumption
<1>2. ASSUME NEW c \in Clients, AcceptPush(c) PROVE PushInv'
  <2>1. \A q \in Senders : PushOK(q)'
    BY <1>1, <1>2, CallPush DEF AcceptPush
  <2> QED
    BY <1>1, <1>2, <2>1 DEF AcceptPush, Call, PushInv, MainInv, TypeInv, TypeOK
<1>3. ASSUME NEW c \in Clients, AnswerPush(c) PROVE PushInv'
  <2>1. \A q \in Senders : PushOK(q)'
    BY <1>1, <1>3, ResumePush DEF AnswerPush
  <2> QED
    BY <1>1, <1>3, <2>1 DEF AnswerPush, Resume, PushInv, MainInv, TypeInv, TypeOK
<1>4. ASSUME NEW h \in Callers, PrePushReturns(h) PROVE PushInv'
  <2>1. \A q \in Senders : PushOK(q)'
    BY <1>1, <1>4, ResumePush DEF PrePushReturns
  <2> QED
    BY <1>1, <1>4, <2>1 DEF PrePushReturns, Resume, PushInv, MainInv, TypeInv, TypeOK
<1>5. ASSUME NEW h \in Callers, PostShutdown(h) PROVE PushInv'
  <2>1. CASE ha.token = token
    <3>1. \A q \in Senders : PushOK(q)'
      BY <1>1, <1>5, <2>1, CallPush, BesideClient DEF PostShutdown
    <3>2. tu'[Main] = tu[Main] /\ UNCHANGED <<main, token, reporting, menu, msg, reply, ha>>
      BY <1>1, <1>5, <2>1, SendersAssumption DEF PostShutdown, Call, PushInv, TypeInv, TypeOK
    <3> QED
      BY <3>1, <3>2 DEF PushInv, MainInv
  <2>2. CASE ha.token # token
    BY <1>5, <2>2, PushFrame DEF PostShutdown, pushVars
  <2> QED
    BY <2>1, <2>2
<1> QED
  BY <1>2, <1>3, <1>4, <1>5 DEF SocketHandler

LEMMA PushOther ==
    ASSUME PushInv, TypeInv',
           \/ SocketListener \/ ListenHTTP \/ Machine
           \/ \E c \in Clients : Connect(c) \/ HangUp(c)
           \/ \E h \in Callers : PowerOff(h)
    PROVE  PushInv'
<1> USE DEF webhookVars, processVars, pushVars, machineVars
<1>1. CASE SocketListener \/ ListenHTTP
  BY <1>1, PushFrame DEF SocketListener, RemoveSocket, RemoveSocketFails, ListenSocket, CloseSocket, ListenHTTP
<1>2. CASE \/ \E c \in Clients : Connect(c) \/ HangUp(c)
           \/ \E h \in Callers : PowerOff(h)
  BY <1>2, PushFrame DEF Connect, HangUp, PowerOff
<1>3. CASE StopUnit \/ StartUnit \/ Halt \/ HaltUnit \/ PowerDown \/ Boot
  BY <1>3, PushFrame DEF StopUnit, StartUnit, Halt, HaltUnit, PowerDown, Boot
<1>4. CASE MenuChanges
  <2>1. menu \in Nat /\ menu' = menu + 1
    BY <1>4, Numbers DEF MenuChanges, PushInv
  <2>2. ASSUME NEW p \in Senders PROVE PushOK(p)'
    BY <1>4, <2>1, Numbers, BesideClient DEF MenuChanges, PushInv, PushOK, Beside
  <2>3. MainInv'
    BY <1>4 DEF MenuChanges, PushInv, MainInv
  <2>4. ha'.menuBy = "daemon" => ha'.menu <= menu'
    BY <1>4, <2>1, Numbers DEF MenuChanges, PushInv
  <2> QED
    BY <2>2, <2>3, <2>4 DEF PushInv
<1> QED
  BY <1>1, <1>2, <1>3, <1>4 DEF Machine

\* A command that posts by itself has no connection the daemon could accept.
LEMMA PushStep ==
    ASSUME PushInv, Quiet, [Next]_vars, \A c \in Clients : AcceptPush(c) => ~Beside(c)
    PROVE  PushInv'
<1>1. TypeInv'
  BY TypeStep DEF PushInv
<1>2. CASE Run
  BY <1>2, PushRun
<1>3. CASE \E p \in Senders : TriggerUpdate(p)
  BY <1>3, PushTriggerUpdate
<1>4. CASE \/ \E c \in Clients : SocketHandler(c)
           \/ \E h \in Callers : PrePushReturns(h) \/ PostShutdown(h)
  BY <1>1, <1>4, PushHandlers
<1>5. CASE \/ SocketListener \/ ListenHTTP \/ Machine
           \/ \E c \in Clients : Connect(c) \/ HangUp(c)
           \/ \E h \in Callers : PowerOff(h)
  BY <1>1, <1>5, PushOther
<1>6. CASE HomeAssistant /\ UNCHANGED daemonVars
  BY <1>6, PushHomeAssistant
<1>7. CASE Crash
  BY <1>7, ProcessEndsPush DEF Crash
<1>8. CASE UNCHANGED vars
  BY <1>1, <1>8, PushFrame DEF vars, webhookVars, daemonVars, processVars, pushVars, machineVars
<1>9. CASE ServiceRemove
  <2>1. UNCHANGED <<main, token, reporting, mu, tu, began, options, menu, msg, reply, ha.menu, ha.menuBy, ha.seen>>
    BY <1>9, UnregisteredLemma
       DEF ServiceRemove, daemonVars, processVars, pushVars, machineVars, PushInv, TypeInv, TypeOK
  <2> QED
    BY <1>1, <2>1 DEF PushInv, MainInv, PushOK, Beside
<1> QED
  BY <1>2, <1>3, <1>4, <1>5, <1>6, <1>7, <1>8, <1>9 DEF Next, DaemonStep, Environment, ClientStep

\* The goroutines of the daemon post nothing that is not the daemon's.
LEMMA StaysAlone ==
    ASSUME PushInv, Alone, [Next]_vars
    PROVE  Alone'
<1> SUFFICES ASSUME NEW p \in Senders PROVE ~Beside(p)'
  BY DEF Alone
<1> USE DEF PushInv, TypeInv, TypeOK, webhookVars
<1>1. ASSUME reply'[p] # "none" => reply[p] # "none" /\ msg'[p] = msg[p]
      PROVE  ~Beside(p)'
  BY <1>1 DEF Alone, Beside
<1>2. CASE UNCHANGED <<msg, reply>>
  BY <1>1, <1>2
<1>3. ASSUME NEW q \in Senders, PostSucceeds(q) \/ PostFails(q) PROVE ~Beside(p)'
  BY <1>1, <1>3, PostSucceedsLemma, PostFailsLemma
<1>4. CASE ProcessEnds
  BY <1>1, <1>4, AbandonLemma, InDaemon \in SUBSET Senders DEF ProcessEnds, InDaemon
<1>5. CASE HomeAssistant
  BY <1>1, <1>5 DEF HomeAssistant, HAAccepts, HARefuses, LateArrives, LateLost, WebhookTypeOK
<1>6. ASSUME NEW q \in Senders, SendUpdate(q) PROVE ~Beside(p)'
  <2>1. UpdatePayload(options[q], "daemon").via # "direct"
    BY DEF UpdatePayload
  <2> QED
    BY <1>1, <1>6, <2>1 DEF SendUpdate, Post, Beside, WebhookTypeOK
<1>7. CASE RegisterAgent
  <2>1. RegisterPayload(token) \notin Update
    BY DEF RegisterPayload, Update
  <2> QED
    BY <1>1, <1>7, <2>1, SendersAssumption DEF RegisterAgent, Post, Beside, WebhookTypeOK
<1>8. CASE Run
  BY <1>2, <1>3, <1>4, <1>7, <1>8, SendersAssumption
     DEF Run, Start, RegisterNotSent, RegisterSucceeds, RegisterFails, BackoffElapses, HandshakeCancelled,
         StartListeners, Terminate, ShutdownHTTP, Exit
<1>9. ASSUME NEW q \in Senders, TriggerUpdate(q) PROVE ~Beside(p)'
  BY <1>2, <1>3, <1>6, <1>9
     DEF TriggerUpdate, Lock, NothingToReport, ReadGrub, ReadGrubFails, UpdateNotSent, UpdateSucceeds, UpdateFails
<1>10. CASE \/ SocketListener \/ ListenHTTP \/ Machine
            \/ \E c \in Clients : SocketHandler(c) \/ Connect(c) \/ HangUp(c)
            \/ \E h \in Callers : PrePushReturns(h) \/ PowerOff(h) \/ PostShutdown(h)
  BY <1>2, <1>10
     DEF SocketListener, RemoveSocket, RemoveSocketFails, ListenSocket, CloseSocket, ListenHTTP, SocketHandler, AcceptPush, AnswerPush,
         Connect, HangUp, PrePushReturns, PowerOff, PostShutdown, Machine, StopUnit, StartUnit, Halt, HaltUnit,
         PowerDown, Boot, MenuChanges
<1>11. CASE UNCHANGED vars \/ ServiceRemove
  BY <1>2, <1>11, UnregisteredLemma DEF vars, ServiceRemove
<1> QED
  BY <1>4, <1>5, <1>8, <1>9, <1>10, <1>11 DEF Next, DaemonStep, Environment, ClientStep, Crash

\* The daemon alone: the inductive invariant of Spec.
AloneInv == PushInv /\ Quiet /\ Alone

LEMMA AloneInit == Init => AloneInv
BY PushInit, QuietInit DEF Init, WebhookInit, AloneInv, Alone, Beside

LEMMA AloneStep == AloneInv /\ [Next]_vars => AloneInv'
BY PushStep, QuietStep, StaysAlone, SendersAssumption DEF AloneInv, Alone, PushInv

\* At most one goroutine is between the Lock and the Unlock of TriggerUpdate.
THEOREM MutualExclusion ==
    Spec => [](\A p, q \in Senders :
                  tu[p] \in {"grub", "post"} /\ tu[q] \in {"grub", "post"} => p = q)
<1>1. PushInv => \A p, q \in Senders :
                    tu[p] \in {"grub", "post"} /\ tu[q] \in {"grub", "post"} => p = q
  BY DEF PushInv, PushOK, Beside
<1> QED
  BY <1>1, AloneInit, AloneStep, PTL DEF Spec, AloneInv

\* A push reported as done has brought Home Assistant a menu no older than the
\* one on disk when TriggerUpdate was called.
THEOREM Freshness == Spec => []PushIsFresh
<1>1. PushInv => PushIsFresh
  BY DEF PushInv, PushOK, Beside, PushIsFresh
<1> QED
  BY <1>1, AloneInit, AloneStep, PTL DEF Spec, AloneInv

\* Only Home Assistant changes what Home Assistant holds.
LEMMA OnlyHomeAssistantStores == Next /\ ~HomeAssistant /\ ~HostUnregistered => ha' = ha
<1> SUFFICES ASSUME Next, ~HomeAssistant, ~HostUnregistered PROVE ha' = ha
  OBVIOUS
<1> USE DEF webhookVars, Post, PostSucceeds, PostFails, Abandon
<1>1. CASE Run
  BY <1>1 DEF Run, Start, RegisterAgent, RegisterNotSent, RegisterSucceeds, RegisterFails, BackoffElapses,
              HandshakeCancelled, StartListeners, Terminate, ShutdownHTTP, Exit, ProcessEnds
<1>2. CASE \E p \in Senders : TriggerUpdate(p)
  BY <1>2 DEF TriggerUpdate, Lock, NothingToReport, ReadGrub, ReadGrubFails, SendUpdate, UpdateNotSent,
              UpdateSucceeds, UpdateFails
<1>3. CASE \/ SocketListener \/ ListenHTTP
           \/ \E c \in Clients : SocketHandler(c) \/ Connect(c) \/ HangUp(c)
  BY <1>3 DEF SocketListener, RemoveSocket, RemoveSocketFails, ListenSocket, CloseSocket, ListenHTTP, SocketHandler, AcceptPush,
              AnswerPush, Connect, HangUp
<1>4. CASE \E h \in Callers : PrePushReturns(h) \/ PowerOff(h) \/ PostShutdown(h)
  BY <1>4 DEF PrePushReturns, PowerOff, PostShutdown
<1>5. CASE Machine \/ Crash
  BY <1>5 DEF Machine, StopUnit, StartUnit, Halt, HaltUnit, PowerDown, Boot, MenuChanges, Crash, ProcessEnds
<1> QED
  BY <1>1, <1>2, <1>3, <1>4, <1>5 DEF Next, DaemonStep, Environment, ClientStep, ServiceRemove

\* The newest menu it has ever stored only gets newer.
LEMMA SeenGrows ==
    ASSUME TypeInv, Next
    PROVE  ha'.seen >= ha.seen
<1>1. WebhookTypeOK /\ ha.seen \in Nat
  BY Numbers DEF TypeInv, TypeOK
<1>2. ASSUME NEW s \in Senders, HAAccepts(s)
      PROVE  ha'.seen >= ha.seen
  BY <1>1, <1>2, StoredLemma DEF HAAccepts, WebhookTypeOK
<1>3. CASE LateArrives
  BY <1>1, <1>3, StoredLemma DEF LateArrives, WebhookTypeOK
<1>4. CASE ha' = ha \/ HostUnregistered
  BY <1>1, <1>4, UnregisteredLemma
<1> QED
  BY <1>2, <1>3, <1>4, OnlyHomeAssistantStores DEF HomeAssistant, HARefuses, LateLost

LEMMA NoRegressStep ==
    ASSUME PushInv, [Next]_vars
    PROVE  [ha.menuBy = "daemon" /\ ha'.menuBy = "daemon" => ha'.menu >= ha.menu]_vars
<1> SUFFICES ASSUME Next, ha.menuBy = "daemon", ha'.menuBy = "daemon"
             PROVE  ha'.menu >= ha.menu
  OBVIOUS
<1>0. ha.menu \in Nat
  BY Numbers DEF PushInv
<1>1. CASE ha' = ha
  BY <1>0, <1>1
<1>2. ASSUME NEW s \in Senders, HAAccepts(s) PROVE ha'.menu >= ha.menu
  <2>1. tu[s] = "post" => options[s] >= ha.menu
    BY Numbers DEF PushInv, PushOK
  <2> QED
    BY <1>0, <1>2, <2>1, AcceptedMenu
<1>3. CASE LateArrives
  BY <1>0, <1>3, LateMenu DEF PushInv
<1>4. CASE HostUnregistered
  BY <1>0, <1>4, UnregisteredLemma DEF PushInv, TypeInv, TypeOK
<1>5. CASE ~HomeAssistant /\ ~HostUnregistered
  BY <1>1, <1>5, OnlyHomeAssistantStores
<1> QED
  BY <1>1, <1>2, <1>3, <1>4, <1>5 DEF HomeAssistant, HARefuses, LateLost

\* The daemon's own pushes never take Home Assistant back to an older menu.
THEOREM NoRegression == Spec => NoRegress
<1>1. AloneInv /\ [Next]_vars =>
         [ha.menuBy = "daemon" /\ ha'.menuBy = "daemon" => ha'.menu >= ha.menu]_vars
  BY NoRegressStep DEF AloneInv
<1> QED
  BY <1>1, AloneInit, AloneStep, PTL DEF Spec, NoRegress

----------------------------------------------------------------------------
(* The socket file *)

\* The socket belongs to a process that has registered: without one nobody
\* listens, and a socket that accepts has its accept loop.
SocketInv ==
    /\ StaleSocketGone
    /\ lst # "idle" => main \in {"serving", "final", "drain"}

LEMMA SocketInit == Init => SocketInv
BY DEF Init, SocketInv, StaleSocketGone

LEMMA SocketStep == SocketInv /\ [Next]_vars => SocketInv'
<1> SUFFICES ASSUME SocketInv, [Next]_vars PROVE SocketInv'
  OBVIOUS
<1> USE DEF SocketInv, StaleSocketGone
<1>1. CASE Run
  <2>1. CASE Start \/ StartListeners
    BY <2>1 DEF Start, StartListeners, listenVars
  <2>2. CASE HandshakeCancelled \/ Exit
    BY <2>2 DEF HandshakeCancelled, Exit, ProcessEnds
  <2>3. CASE \/ RegisterAgent \/ RegisterNotSent \/ RegisterSucceeds \/ RegisterFails
             \/ BackoffElapses \/ Terminate \/ ShutdownHTTP
    BY <2>3 DEF RegisterAgent, RegisterNotSent, RegisterSucceeds, RegisterFails, BackoffElapses, Terminate,
           ShutdownHTTP, daemonVars, processVars, listenVars
  <2> QED
    BY <1>1, <2>1, <2>2, <2>3 DEF Run
<1>2. CASE \E p \in Senders : TriggerUpdate(p)
  BY <1>2 DEF TriggerUpdate, Lock, NothingToReport, ReadGrub, ReadGrubFails, SendUpdate, UpdateNotSent,
         UpdateSucceeds, UpdateFails, Return, daemonVars, processVars, listenVars
<1>3. CASE SocketListener
  BY <1>3 DEF SocketListener, RemoveSocket, RemoveSocketFails, ListenSocket, CloseSocket, processVars
<1>4. CASE \/ ListenHTTP \/ Crash
           \/ \E c \in Clients : SocketHandler(c) \/ Connect(c) \/ HangUp(c)
           \/ \E h \in Callers : PrePushReturns(h) \/ PowerOff(h) \/ PostShutdown(h)
  BY <1>4 DEF ListenHTTP, Crash, ProcessEnds, SocketHandler, AcceptPush, AnswerPush, Connect, HangUp, PrePushReturns,
         PowerOff, PostShutdown, processVars
<1>5. CASE Machine
  BY <1>5 DEF Machine, StopUnit, StartUnit, Halt, HaltUnit, PowerDown, Boot, MenuChanges, processVars, listenVars
<1>6. CASE UNCHANGED vars \/ (HomeAssistant /\ UNCHANGED daemonVars) \/ ServiceRemove
  BY <1>6 DEF vars, ServiceRemove, daemonVars, processVars, listenVars
<1> QED
  BY <1>1, <1>2, <1>3, <1>4, <1>5, <1>6 DEF Next, DaemonStep, Environment, ClientStep

\* A socket file left behind by a killed process is gone when its successor comes
\* to listen, unless it could not be removed, and clients can connect to no file
\* but the one of a listener that runs.
THEOREM SocketReachable == Spec => []StaleSocketGone
<1>1. SocketInv => StaleSocketGone
  BY DEF SocketInv
<1> QED
  BY <1>1, SocketInit, SocketStep, PTL DEF Spec

----------------------------------------------------------------------------
(* Nobody waits for a goroutine that is gone *)

\* What Attended says of those who wait; of the mutex PushInv says it.
Waiting ==
    /\ \A c \in Clients : /\ conn[c] = "sent" => lst = "up"
                          /\ conn[c] = "served" <=> tu[c] # "idle"
    /\ \A h \in Callers : hdl[h] = "push" <=> tu[h] # "idle"
    /\ main \in {"push", "final"} <=> tu[Main] # "idle"

AttendedInv == TypeInv /\ SocketInv /\ Waiting

LEMMA AttendedInit == Init => AttendedInv
BY TypeInit, SocketInit, SendersAssumption DEF Init, AttendedInv, Waiting

LEMMA WaitingTriggerUpdate ==
    ASSUME AttendedInv, NEW p \in Senders, TriggerUpdate(p)
    PROVE  Waiting'
<1>1. UNCHANGED <<main, conn, hdl, lst>>
  BY DEF TriggerUpdate, Lock, NothingToReport, ReadGrub, ReadGrubFails, SendUpdate, UpdateNotSent, UpdateSucceeds,
         UpdateFails, Return, daemonVars, processVars, listenVars
<1>2. tu[p] # "idle" /\ tu'[p] # "idle" /\ \A q \in Senders \ {p} : tu'[q] = tu[q]
  BY DEF TriggerUpdate, Lock, NothingToReport, ReadGrub, ReadGrubFails, SendUpdate, UpdateNotSent, UpdateSucceeds,
         UpdateFails, Return, daemonVars, pushVars, AttendedInv, TypeInv, TypeOK
<1> QED
  BY <1>1, <1>2, SendersAssumption DEF AttendedInv, Waiting

\* The end of the process ends all waiting.
LEMMA WaitingProcessEnds == ProcessEnds => Waiting'
BY SendersAssumption DEF ProcessEnds, Waiting

LEMMA WaitingRun ==
    ASSUME AttendedInv, Run
    PROVE  Waiting'
<1> USE SendersAssumption DEF AttendedInv, Waiting, TypeInv, TypeOK
<1>1. CASE HandshakeCancelled \/ Exit
  BY <1>1, WaitingProcessEnds DEF HandshakeCancelled, Exit
<1>2. CASE RegisterSucceeds
  BY <1>2 DEF RegisterSucceeds, Call, listenVars
<1>3. CASE Terminate
  BY <1>3 DEF Terminate, Call, listenVars
<1>4. CASE StartListeners
  BY <1>4 DEF StartListeners, Resume, SocketInv
<1>5. CASE ShutdownHTTP
  BY <1>5 DEF ShutdownHTTP, Resume
<1>6. CASE Start \/ RegisterAgent \/ RegisterNotSent \/ RegisterFails \/ BackoffElapses
  BY <1>6 DEF Start, RegisterAgent, RegisterNotSent, RegisterFails, BackoffElapses, daemonVars, processVars,
              pushVars, listenVars
<1> QED
  BY <1>1, <1>2, <1>3, <1>4, <1>5, <1>6 DEF Run

LEMMA WaitingHandlers ==
    ASSUME AttendedInv,
           \/ SocketListener
           \/ \E c \in Clients : SocketHandler(c) \/ Connect(c) \/ HangUp(c)
           \/ \E h \in Callers : PrePushReturns(h) \/ PowerOff(h) \/ PostShutdown(h)
    PROVE  Waiting'
<1> USE SendersAssumption DEF AttendedInv, Waiting, TypeInv, TypeOK
<1>1. CASE SocketListener
  BY <1>1 DEF SocketListener, RemoveSocket, RemoveSocketFails, ListenSocket, CloseSocket, processVars, pushVars
<1>2. ASSUME NEW c \in Clients, SocketHandler(c) PROVE Waiting'
  <2>1. CASE AcceptPush(c)
    BY <2>1 DEF AcceptPush, Call, processVars
  <2>2. CASE AnswerPush(c)
    BY <2>2 DEF AnswerPush, Resume, processVars
  <2> QED
    BY <1>2, <2>1, <2>2 DEF SocketHandler
<1>3. ASSUME NEW c \in Clients, Connect(c) \/ HangUp(c) PROVE Waiting'
  BY <1>3 DEF Connect, HangUp, SocketInv, StaleSocketGone, processVars, pushVars
<1>4. ASSUME NEW h \in Callers, PrePushReturns(h) PROVE Waiting'
  BY <1>4 DEF PrePushReturns, Resume, processVars
<1>5. ASSUME NEW h \in Callers, PostShutdown(h) PROVE Waiting'
  BY <1>5 DEF PostShutdown, Call, processVars, pushVars
<1>6. ASSUME NEW h \in Callers, PowerOff(h) PROVE Waiting'
  BY <1>6 DEF PowerOff, processVars, pushVars
<1> QED
  BY <1>1, <1>2, <1>3, <1>4, <1>5, <1>6

LEMMA AttendedStep == AttendedInv /\ [Next]_vars => AttendedInv'
<1> SUFFICES ASSUME AttendedInv, [Next]_vars PROVE Waiting'
  BY TypeStep, SocketStep DEF AttendedInv
<1>1. CASE Run
  BY <1>1, WaitingRun
<1>2. CASE \E p \in Senders : TriggerUpdate(p)
  BY <1>2, WaitingTriggerUpdate
<1>3. CASE \/ SocketListener
           \/ \E c \in Clients : SocketHandler(c) \/ Connect(c) \/ HangUp(c)
           \/ \E h \in Callers : PrePushReturns(h) \/ PowerOff(h) \/ PostShutdown(h)
  BY <1>3, WaitingHandlers
<1>4. CASE Crash
  BY <1>4, WaitingProcessEnds DEF Crash
<1>5. CASE UNCHANGED <<main, tu, conn, hdl, lst>>
  BY <1>5 DEF AttendedInv, Waiting
<1>6. CASE ListenHTTP \/ Machine \/ (HomeAssistant /\ UNCHANGED daemonVars) \/ ServiceRemove \/ UNCHANGED vars
  BY <1>5, <1>6
     DEF ServiceRemove, ListenHTTP, Machine, StopUnit, StartUnit, Halt, HaltUnit, PowerDown, Boot, MenuChanges, vars, daemonVars,
         processVars, pushVars, listenVars
<1> QED
  BY <1>1, <1>2, <1>3, <1>4, <1>6 DEF Next, DaemonStep, Environment, ClientStep

\* The mutex is never left locked by a goroutine that has returned.
LEMMA MutexIsHeld == PushInv => (mu # None => tu[mu] \in {"grub", "post"})
BY DEF PushInv, PushOK, TypeInv, TypeOK

\* Nobody waits for a goroutine that is gone: neither a client of the socket,
\* nor a caller of POST /shutdown, nor run, nor whoever wants the mutex.
THEOREM NobodyIsForgotten == Spec => []Attended
<1>1. AttendedInv /\ AloneInv => Attended
  BY MutexIsHeld DEF AttendedInv, AloneInv, Waiting, Attended
<1> QED
  BY <1>1, AttendedInit, AttendedStep, AloneInit, AloneStep, PTL DEF Spec

----------------------------------------------------------------------------
(* The pace of the handshake *)

\* Between two registrations performInitialHandshake sleeps no less than the first
\* interval and no longer than the cap, and never less than the time before.
Paced == main \in {"register", "backoff"} => RetryInterval <= backoff /\ backoff <= MaxBackoff

LEMMA NextBackoffBounds ==
    ASSUME NEW b \in Nat, RetryInterval <= b, b <= MaxBackoff
    PROVE  b <= NextBackoff(b) /\ NextBackoff(b) <= MaxBackoff
BY ConfigAssumption DEF NextBackoff

LEMMA PacedStep == TypeInv /\ Paced /\ [Next]_vars => Paced'
<1> SUFFICES ASSUME TypeInv, Paced, [Next]_vars, main' \in {"register", "backoff"}
             PROVE  RetryInterval <= backoff' /\ backoff' <= MaxBackoff
  BY DEF Paced
<1>1. CASE Start
  BY <1>1, ConfigAssumption DEF Start
<1>2. CASE BackoffElapses
  <2>1. backoff \in Nat /\ RetryInterval <= backoff /\ backoff <= MaxBackoff
    BY <1>2, ConfigAssumption DEF BackoffElapses, Paced, TypeInv, TypeOK
  <2>2. RetryInterval <= NextBackoff(backoff) /\ NextBackoff(backoff) <= MaxBackoff
    BY <2>1, ConfigAssumption DEF NextBackoff
  <2> QED  BY <1>2, <2>2 DEF BackoffElapses
<1>3. CASE main \in {"register", "backoff"} /\ backoff' = backoff
  BY <1>3 DEF Paced
<1>4. CASE RegisterNotSent \/ RegisterFails \/ RegisterAgent
  BY <1>3, <1>4 DEF RegisterNotSent, RegisterFails, RegisterAgent, daemonVars, processVars
<1>5. CASE ProcessEnds \/ RegisterSucceeds \/ StartListeners \/ Terminate \/ ShutdownHTTP
  BY <1>5 DEF ProcessEnds, RegisterSucceeds, StartListeners, Terminate, ShutdownHTTP
<1>6. CASE UNCHANGED <<main, backoff>>
  BY <1>3, <1>6
<1>7. CASE Run \/ Crash
  BY <1>1, <1>2, <1>4, <1>5, <1>7 DEF Run, HandshakeCancelled, Exit, Crash
<1>8. CASE \E p \in Senders : TriggerUpdate(p)
  BY <1>6, <1>8
     DEF TriggerUpdate, Lock, NothingToReport, ReadGrub, ReadGrubFails, SendUpdate, UpdateNotSent, UpdateSucceeds,
         UpdateFails, Return, daemonVars, processVars
<1>9. CASE \/ SocketListener \/ ListenHTTP \/ Machine \/ ClientStep
           \/ \E c \in Clients : SocketHandler(c)
           \/ \E h \in Callers : PrePushReturns(h) \/ PowerOff(h) \/ PostShutdown(h)
  BY <1>6, <1>9
     DEF SocketListener, RemoveSocket, RemoveSocketFails, ListenSocket, CloseSocket, ListenHTTP, Machine, StopUnit, StartUnit, Halt,
         HaltUnit, PowerDown, Boot, MenuChanges, ClientStep, Connect, HangUp, SocketHandler, AcceptPush, AnswerPush,
         PrePushReturns, PowerOff, PostShutdown, processVars
<1>10. CASE (HomeAssistant /\ UNCHANGED daemonVars) \/ ServiceRemove \/ UNCHANGED vars
  BY <1>6, <1>10 DEF vars, ServiceRemove, daemonVars, processVars
<1> QED
  BY <1>7, <1>8, <1>9, <1>10 DEF Next, DaemonStep, Environment

\* A Home Assistant that is away is asked neither in a busy loop nor ever less
\* often than the cap says.
THEOREM HandshakeIsPaced ==
    Spec => []Paced /\ [][BackoffElapses => backoff' >= backoff]_vars
<1>1. Init => Paced
  BY DEF Init, Paced
<1>2. TypeInv /\ Paced /\ [Next]_vars => [BackoffElapses => backoff' >= backoff]_vars
  BY NextBackoffBounds, ConfigAssumption DEF BackoffElapses, Paced, TypeInv, TypeOK
<1> QED
  BY <1>1, <1>2, PacedStep, TypeInit, TypeStep, PTL DEF Spec

----------------------------------------------------------------------------
(* A daemon that reports no boot options *)

\* Where abandoned requests come from.
LEMMA LateGrows ==
    ASSUME PushInv, Next
    PROVE  \A m \in late' : m \in late \/ \E s \in Senders : reply[s] = "pending" /\ m = msg[s]
<1> DEFINE From == \A m \in late' : m \in late \/ \E s \in Senders : reply[s] = "pending" /\ m = msg[s]
<1> USE DEF PushInv, TypeInv, TypeOK
<1>1. ASSUME ProcessEnds PROVE From
  BY <1>1, AbandonLemma, InDaemon \in SUBSET Senders DEF ProcessEnds, InDaemon
<1>2. ASSUME NEW s \in Senders, PostFails(s) PROVE From
  BY <1>2, PostFailsLemma
<1>3. CASE Run
  <2>1. CASE HandshakeCancelled \/ Exit
    BY <1>1, <2>1 DEF HandshakeCancelled, Exit
  <2>2. CASE RegisterFails
    BY <1>2, <2>2, SendersAssumption DEF RegisterFails
  <2>3. CASE ~(HandshakeCancelled \/ Exit \/ RegisterFails)
    <3>1. late' = late
      BY <1>3, <2>3
         DEF Run, Start, RegisterAgent, RegisterNotSent, RegisterSucceeds, BackoffElapses, StartListeners,
             Terminate, ShutdownHTTP, Post, PostSucceeds, webhookVars
    <3> QED
      BY <3>1
  <2> QED
    BY <2>1, <2>2, <2>3
<1>4. ASSUME NEW p \in Senders, TriggerUpdate(p) PROVE From
  <2>1. CASE UpdateFails(p)
    BY <1>2, <2>1 DEF UpdateFails
  <2>2. CASE ~UpdateFails(p)
    BY <1>4, <2>2
       DEF TriggerUpdate, Lock, NothingToReport, ReadGrub, ReadGrubFails, SendUpdate, UpdateNotSent,
           UpdateSucceeds, Post, PostSucceeds, webhookVars
  <2> QED
    BY <2>1, <2>2
<1>5. CASE \/ SocketListener \/ ListenHTTP \/ Machine
           \/ \E c \in Clients : SocketHandler(c) \/ Connect(c) \/ HangUp(c)
           \/ \E h \in Callers : PrePushReturns(h) \/ PowerOff(h) \/ PostShutdown(h)
  BY <1>5 DEF SocketListener, RemoveSocket, RemoveSocketFails, ListenSocket, CloseSocket, ListenHTTP, SocketHandler, AcceptPush,
              AnswerPush, Connect, HangUp, PrePushReturns, PowerOff, PostShutdown, Machine, StopUnit, StartUnit,
              Halt, HaltUnit, PowerDown, Boot, MenuChanges, webhookVars
<1>6. CASE HomeAssistant
  BY <1>6 DEF HomeAssistant, HAAccepts, HARefuses, LateArrives, LateLost
<1>7. CASE Crash
  BY <1>1, <1>7 DEF Crash
<1>8. CASE ServiceRemove
  BY <1>8 DEF ServiceRemove, HostUnregistered
<1> QED
  BY <1>3, <1>4, <1>5, <1>6, <1>7, <1>8 DEF Next, DaemonStep, Environment, ClientStep

\* Whoever has a request with a menu under way read that menu under the setting
\* the process has now; all others post the registration, or beside the daemon.
LEMMA OffStep ==
    ASSUME PushInv, ~reporting, [Next]_vars
    PROVE  /\ \A m \in late' \ late : m \in Update => m.via # "daemon"
           /\ ha'.menuBy = "daemon" => ha.menuBy = "daemon" /\ ha'.menu = ha.menu
<1>1. \A p \in Senders : tu[p] # "post"
  BY DEF PushInv, PushOK
<1>2. ASSUME NEW m \in late' \ late, m \in Update PROVE m.via # "daemon"
  <2>1. CASE Next
    <3>1. PICK s \in Senders : reply[s] = "pending" /\ m = msg[s]
      BY <1>2, <2>1, LateGrows
    <3>2. msg[s] \notin Register
      BY <1>2, <3>1 DEF Register, Update
    <3> QED  BY <1>1, <3>1, <3>2, PendingMessage DEF Beside
  <2>2. CASE UNCHANGED vars
    BY <1>2, <2>2 DEF vars, webhookVars
  <2> QED  BY <2>1, <2>2
<1>3. ASSUME ha'.menuBy = "daemon" PROVE ha.menuBy = "daemon" /\ ha'.menu = ha.menu
  <2>1. ASSUME NEW s \in Senders, HAAccepts(s) PROVE ha.menuBy = "daemon" /\ ha'.menu = ha.menu
    BY <1>1, <1>3, <2>1, AcceptedMenu
  <2>2. CASE LateArrives
    BY <1>3, <2>2, LateMenu DEF PushInv
  <2>3. CASE HostUnregistered
    BY <1>3, <2>3, UnregisteredLemma DEF PushInv, TypeInv, TypeOK
  <2>4. CASE ha' = ha
    BY <1>3, <2>4
  <2> QED
    BY <2>1, <2>2, <2>3, <2>4, OnlyHomeAssistantStores DEF HomeAssistant, HARefuses, LateLost, vars, webhookVars
<1> QED  BY <1>2, <1>3

\* report_boot_options: false is kept to by every path to TriggerUpdate of the
\* process that read it, whatever an earlier process was told.
THEOREM OffMeansOff == Spec => SilentWhenOff
<1>1. AloneInv /\ [Next]_vars =>
         [~reporting => /\ \A m \in late' \ late : m \in Update => m.via # "daemon"
                        /\ ha'.menuBy = "daemon" => ha.menuBy = "daemon" /\ ha'.menu = ha.menu]_vars
  BY OffStep DEF AloneInv
<1> QED  BY <1>1, AloneInit, AloneStep, PTL DEF Spec, SilentWhenOff
=============================================================================
