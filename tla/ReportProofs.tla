---------------------------- MODULE ReportProofs ----------------------------
(***************************************************************************)
(* The daemon implements module Report: every step of Daemon is a step of  *)
(* Report, or leaves what Report speaks of as it is.                       *)
(***************************************************************************)
EXTENDS DaemonProofs

\* No request on its way carries a menu that was never on disk.
LateInv == \A m \in late : m \in Update => m.menu <= menu

RefInv == PushInv /\ LateInv

LEMMA RefStep ==
    ASSUME RefInv, PushInv', [Next]_vars
    PROVE  RefInv'
<1> SUFFICES LateInv'
  BY DEF RefInv
<1>1. CASE Next
  <2> SUFFICES ASSUME NEW m \in late', m \in Update PROVE m.menu <= menu'
    BY DEF LateInv
  <2>1. menu \in Nat /\ menu' \in Nat /\ menu' >= menu /\ m.menu \in Nat
    <3>1. menu' \in Menus
      BY DEF PushInv, TypeInv, TypeOK
    <3> QED
      BY <1>1, <3>1, Numbers, MenuGrows DEF RefInv, PushInv, Update, Menus
  <2>2. CASE m \in late
    BY <2>1, <2>2 DEF RefInv, LateInv
  <2>3. ASSUME NEW s \in Senders, reply[s] = "pending", m = msg[s] PROVE m.menu <= menu'
    <3>1. CASE tu[s] = "post" /\ msg[s] = UpdatePayload(options[s], "daemon")
      <4>1. m.menu = options[s] /\ options[s] <= menu /\ options[s] \in Nat
        BY <2>3, <3>1, Numbers DEF UpdatePayload, RefInv, PushInv, PushOK
      <4> QED
        BY <2>1, <4>1
    <3>2. CASE msg[s] \in Register
      BY <2>3, <3>2 DEF Register, Update
    <3>3. CASE Beside(s)
      BY <2>1, <2>3, <3>3, BesideClient DEF RefInv
    <3> QED
      BY <2>3, <3>1, <3>2, <3>3, PendingMessage DEF RefInv
  <2> QED
    BY <1>1, <2>2, <2>3, LateGrows DEF RefInv
<1>2. CASE UNCHANGED vars
  BY <1>2 DEF vars, webhookVars, daemonVars, machineVars, RefInv, LateInv
<1> QED
  BY <1>1, <1>2

LEMMA RefInit == Init => RefInv
BY PushInit DEF Init, WebhookInit, RefInv, LateInv

----------------------------------------------------------------------------
(* Each kind of step, seen from Report *)

\* Going on inside TriggerUpdate shows nothing.
LEMMA Silent ==
    ASSUME UNCHANGED <<menu, began, reporting, ha.menu, ha.menuBy, ha.seen>>,
           \A p \in Senders : Answering(p)' = Answering(p)
    PROVE  UNCHANGED R!vars
BY DEF R!vars

LEMMA AskStep ==
    ASSUME TypeInv, NEW p \in Senders, Call(p), UNCHANGED <<menu, reporting, ha>>
    PROVE  R!Ask(p)
BY DEF R!Ask, Call, Answering, TypeInv, TypeOK

LEMMA TakeStep ==
    ASSUME TypeInv, NEW p \in Senders, Resume(p), Returned(p), UNCHANGED <<menu, reporting, ha>>
    PROVE  R!Take(p)
BY DEF R!Take, Resume, Returned, Answering, TypeInv, TypeOK

LEMMA FailStep ==
    ASSUME TypeInv, NEW p \in Senders, tu[p] \in {"grub", "post"}, Return(p, "error"), ha' = ha
    PROVE  R!Fail(p)
BY DEF R!Fail, Return, machineVars, processVars, Answering, TypeInv, TypeOK

LEMMA SucceedStep ==
    ASSUME TypeInv, NEW p \in Senders, tu[p] \in {"grub", "post"}, Return(p, "ok"), ha' = ha,
           reporting => ha.seen >= began[p]
    PROVE  R!Succeed(p)
BY DEF R!Succeed, Return, machineVars, processVars, Answering, TypeInv, TypeOK

LEMMA ForgetStep ==
    ASSUME TypeInv, ProcessEnds, UNCHANGED machineVars
    PROVE  R!Forget
<1>1. ha' = ha
  BY AbandonLemma, InDaemon \in SUBSET Senders DEF ProcessEnds, InDaemon, TypeInv, TypeOK
<1> QED
  BY <1>1 DEF R!Forget, ProcessEnds, machineVars, Answering

LEMMA TriggerUpdateStep ==
    ASSUME RefInv, NEW p \in Senders, TriggerUpdate(p)
    PROVE  [R!Next]_R!vars
<1> TypeInv /\ PushOK(p)
  BY DEF RefInv, PushInv
<1>1. CASE Lock(p) \/ ReadGrub(p) \/ SendUpdate(p)
  <2>1. UNCHANGED <<menu, began, reporting, ha>>
    BY <1>1 DEF Lock, ReadGrub, SendUpdate, Post, daemonVars, processVars, pushVars, machineVars, webhookVars
  <2>2. \A q \in Senders : Answering(q)' = Answering(q)
    BY <1>1 DEF Lock, ReadGrub, SendUpdate, daemonVars, pushVars, Answering, TypeInv, TypeOK
  <2> QED
    BY <2>1, <2>2, Silent
<1>2. CASE NothingToReport(p)
  BY <1>2, SucceedStep DEF NothingToReport, webhookVars, R!Next
<1>3. CASE ReadGrubFails(p) \/ UpdateNotSent(p)
  BY <1>3, FailStep DEF ReadGrubFails, UpdateNotSent, webhookVars, R!Next
<1>4. CASE UpdateFails(p)
  BY <1>4, FailStep, PostFailsLemma DEF UpdateFails, TypeInv, TypeOK, R!Next
<1>5. CASE UpdateSucceeds(p)
  <2>1. ha' = ha /\ reply[p] = "OK"
    BY <1>5 DEF UpdateSucceeds, PostSucceeds, Accepted
  <2>2. ha.seen >= began[p]
    BY <1>5, <2>1, Numbers DEF UpdateSucceeds, PushOK
  <2> QED
    BY <1>5, <2>1, <2>2, SucceedStep DEF UpdateSucceeds, R!Next
<1> QED
  BY <1>1, <1>2, <1>3, <1>4, <1>5 DEF TriggerUpdate

LEMMA RunStep ==
    ASSUME RefInv, Quiet, Run
    PROVE  [R!Next]_R!vars
<1> TypeInv /\ Main \in Senders
  BY SendersAssumption DEF RefInv, PushInv
<1>1. CASE RegisterAgent \/ RegisterNotSent \/ RegisterFails \/ BackoffElapses
  <2>1. UNCHANGED <<menu, began, reporting, tu, ha>>
    BY <1>1, PostFailsLemma
       DEF RegisterAgent, RegisterNotSent, RegisterFails, BackoffElapses, Post, TypeInv, TypeOK,
           daemonVars, processVars, pushVars, machineVars, webhookVars
  <2> QED
    BY <2>1, Silent DEF Answering
<1>2. CASE RegisterSucceeds
  BY <1>2, AskStep, PostSucceedsLemma DEF RegisterSucceeds, machineVars, TypeInv, TypeOK, R!Next
<1>3. CASE Terminate
  BY <1>3, AskStep DEF Terminate, machineVars, webhookVars, R!Next
<1>4. CASE StartListeners \/ ShutdownHTTP
  BY <1>4, TakeStep DEF StartListeners, ShutdownHTTP, machineVars, webhookVars, R!Next
<1>5. CASE HandshakeCancelled \/ Exit
  BY <1>5, ForgetStep DEF HandshakeCancelled, Exit, R!Next
<1>6. CASE Start
  <2>1. UNCHANGED <<menu, began, tu, ha>> /\ reporting' \in BOOLEAN
    BY <1>6, ConfigAssumption DEF Start, pushVars, machineVars, webhookVars
  <2>2. \A p \in Senders : Answering(p) = "idle" /\ Answering(p)' = "idle"
    BY <1>6, <2>1 DEF Start, Quiet, Answering
  <2>3. R!Configure
    BY <2>1, <2>2 DEF R!Configure
  <2> QED
    BY <2>3 DEF R!Next
<1> QED
  BY <1>1, <1>2, <1>3, <1>4, <1>5, <1>6 DEF Run

LEMMA HandlerStep ==
    ASSUME RefInv,
           \/ \E c \in Clients : SocketHandler(c)
           \/ \E h \in Callers : PrePushReturns(h) \/ PostShutdown(h)
    PROVE  [R!Next]_R!vars
<1> USE DEF webhookVars, processVars, machineVars
<1> TypeInv /\ Clients \subseteq Senders /\ Callers \subseteq Senders
  BY SendersAssumption DEF RefInv, PushInv
<1>1. ASSUME NEW c \in Clients, AcceptPush(c) PROVE R!Next
  BY <1>1, AskStep DEF AcceptPush, R!Next
<1>2. ASSUME NEW c \in Clients, AnswerPush(c) PROVE R!Next
  BY <1>2, TakeStep DEF AnswerPush, R!Next
<1>3. ASSUME NEW h \in Callers, PrePushReturns(h) PROVE R!Next
  BY <1>3, TakeStep DEF PrePushReturns, R!Next
<1>4. ASSUME NEW h \in Callers, PostShutdown(h) PROVE [R!Next]_R!vars
  <2>1. CASE ha.token = token
    BY <1>4, <2>1, AskStep DEF PostShutdown, R!Next
  <2>2. CASE ha.token # token
    BY <1>4, <2>2, Silent DEF PostShutdown, pushVars, Answering
  <2> QED
    BY <2>1, <2>2
<1> QED
  BY <1>1, <1>2, <1>3, <1>4 DEF SocketHandler

LEMMA MachineStep ==
    ASSUME RefInv,
           \/ SocketListener \/ ListenHTTP \/ Machine
           \/ \E c \in Clients : Connect(c) \/ HangUp(c)
           \/ \E h \in Callers : PowerOff(h)
    PROVE  [R!Next]_R!vars
<1> USE DEF webhookVars, processVars, pushVars, machineVars
<1>1. CASE MenuChanges
  <2>1. menu' \in Menus /\ menu' > menu
    BY <1>1, Numbers, BoundsAssumption DEF MenuChanges, Menus, RefInv, PushInv
  <2> QED
    BY <1>1, <2>1 DEF MenuChanges, Menus, Answering, R!Next, R!Change, R!Versions
<1>2. CASE ~MenuChanges
  <2>1. UNCHANGED <<menu, began, reporting, tu, ha>>
    BY <1>2 DEF SocketListener, RemoveSocket, RemoveSocketFails, ListenSocket, CloseSocket, ListenHTTP, Connect, HangUp, PowerOff,
           Machine, StopUnit, StartUnit, Halt, HaltUnit, PowerDown, Boot
  <2> QED
    BY <2>1, Silent DEF Answering
<1> QED
  BY <1>1, <1>2

\* The one step that shows at Home Assistant: it stores a menu.
LEMMA StoreStep ==
    ASSUME RefInv, HomeAssistant, UNCHANGED daemonVars
    PROVE  [R!Next]_R!vars
<1> TypeInv /\ menu \in Nat /\ ha.menu \in Nat /\ ha.seen \in Nat
  BY Numbers DEF RefInv, PushInv
<1>0. /\ UNCHANGED <<menu, began, reporting, tu>>
      /\ \A p \in Senders : Answering(p)' = Answering(p)
  BY DEF daemonVars, processVars, pushVars, machineVars, Answering
<1>1. ASSUME UNCHANGED <<ha.menu, ha.menuBy, ha.seen>> PROVE UNCHANGED R!vars
  BY <1>0, <1>1, Silent
<1>2. ASSUME NEW s \in Senders, HAAccepts(s) PROVE [R!Next]_R!vars
  <2>1. ha' = Stored(msg[s], "live") /\ reply[s] # "none"
    BY <1>2 DEF HAAccepts
  <2>2. CASE msg[s] \in Register
    BY <1>1, <2>1, <2>2, StoredLemma DEF TypeInv, TypeOK, Messages
  <2>3. CASE tu[s] = "post" /\ msg[s] = UpdatePayload(options[s], "daemon") /\ msg[s] \in Update
    <3>1. msg[s].menu = options[s] /\ msg[s].via = "daemon" /\ options[s] \in Menus
      BY <2>3 DEF UpdatePayload, TypeInv, TypeOK
    <3>2. ha'.menu = options[s] /\ ha'.menuBy = "daemon" /\ ha'.seen = Newer(options[s], ha.seen)
      BY <2>1, <2>3, <3>1, StoredLemma DEF TypeInv, TypeOK, Messages
    <3>3. reporting /\ began[s] <= options[s] /\ options[s] <= menu /\ (ha.menuBy = "daemon" => ha.menu <= options[s])
      BY <2>3 DEF RefInv, PushInv, PushOK
    <3>4. R!StoreFor(s)
      BY <1>0, <2>3, <3>1, <3>2, <3>3
         DEF R!StoreFor, R!Stored, R!Versions, Menus, Newer, Answering
    <3> QED
      BY <3>4 DEF R!Next
  <2>4. CASE Beside(s) /\ msg[s] \in Update
    <3>1. msg[s].menu \in Menus /\ msg[s].menu <= menu
      BY <2>4, BesideClient DEF Update, RefInv
    <3>2. ha'.menu = msg[s].menu /\ ha'.menuBy = "direct" /\ ha'.seen = Newer(msg[s].menu, ha.seen)
      BY <2>1, <2>4, StoredLemma DEF Beside, TypeInv, TypeOK, Messages
    <3>3. R!Stray
      BY <1>0, <3>1, <3>2 DEF R!Stray, R!Stored, R!Versions, Menus, Newer
    <3> QED
      BY <3>3 DEF R!Next
  <2> QED
    BY <2>1, <2>2, <2>3, <2>4, PendingMessage DEF RefInv
<1>3. CASE LateArrives
  <2>1. PICK m \in late : ha' = Stored(m, "late") /\ m \in Messages
    BY <1>3 DEF LateArrives, TypeInv, TypeOK, WebhookTypeOK
  <2>2. CASE m \in Register
    BY <1>1, <2>1, <2>2, StoredLemma DEF TypeInv, TypeOK
  <2>3. CASE m \in Update
    <3>1. m.menu \in Menus /\ m.menu <= menu
      BY <2>3 DEF Update, RefInv, LateInv
    <3>2. ha'.menu = m.menu /\ ha'.menuBy = "late" /\ ha'.seen = Newer(m.menu, ha.seen)
      BY <2>1, <2>3, StoredLemma DEF TypeInv, TypeOK
    <3>3. R!Stray
      BY <1>0, <3>1, <3>2 DEF R!Stray, R!Stored, R!Versions, Menus, Newer
    <3> QED
      BY <3>3 DEF R!Next
  <2> QED
    BY <2>1, <2>2, <2>3 DEF Messages
<1>4. CASE LateLost \/ \E s \in Senders : HARefuses(s)
  BY <1>1, <1>4 DEF LateLost, HARefuses
<1> QED
  BY <1>2, <1>3, <1>4 DEF HomeAssistant

\* Every step of the daemon and of Home Assistant is one of Report.
LEMMA ReportStep ==
    ASSUME RefInv, Quiet, [Next]_vars
    PROVE  [R!Next]_R!vars
<1>1. CASE Run
  BY <1>1, RunStep
<1>2. CASE \E p \in Senders : TriggerUpdate(p)
  BY <1>2, TriggerUpdateStep
<1>3. CASE \/ \E c \in Clients : SocketHandler(c)
           \/ \E h \in Callers : PrePushReturns(h) \/ PostShutdown(h)
  BY <1>3, HandlerStep
<1>4. CASE \/ SocketListener \/ ListenHTTP \/ Machine
           \/ \E c \in Clients : Connect(c) \/ HangUp(c)
           \/ \E h \in Callers : PowerOff(h)
  BY <1>4, MachineStep
<1>5. CASE HomeAssistant /\ UNCHANGED daemonVars
  BY <1>5, StoreStep
<1>6. CASE Crash
  BY <1>6, ForgetStep DEF Crash, RefInv, PushInv, R!Next
<1>7. CASE UNCHANGED vars
  BY <1>7, Silent DEF vars, webhookVars, daemonVars, processVars, pushVars, machineVars, Answering
<1>8. CASE ServiceRemove
  BY <1>8, UnregisteredLemma, Silent
     DEF ServiceRemove, daemonVars, processVars, pushVars, machineVars, Answering, RefInv, PushInv, TypeInv, TypeOK
<1> QED
  BY <1>1, <1>2, <1>3, <1>4, <1>5, <1>6, <1>7, <1>8 DEF Next, DaemonStep, Environment, ClientStep

LEMMA ReportInit == Init => R!Init
<1>1. Init => reporting \in BOOLEAN
  BY ConfigAssumption DEF Init
<1> QED
  BY <1>1 DEF Init, WebhookInit, R!Init, R!Versions, Menus, Answering

\* The daemon, with its crashes, its lost and late requests and its mutex,
\* keeps the promise of Report.
THEOREM Implementation == Spec => KeepsPromise
<1>1. Init => RefInv /\ Quiet /\ Alone
  BY RefInit, AloneInit DEF AloneInv
<1>2. RefInv /\ Quiet /\ Alone /\ [Next]_vars => (RefInv /\ Quiet /\ Alone)'
  BY AloneStep, RefStep DEF AloneInv, RefInv
<1>3. RefInv /\ Quiet /\ [Next]_vars => [R!Next]_R!vars
  BY ReportStep
<1> QED
  BY <1>1, <1>2, <1>3, ReportInit, PTL DEF Spec, KeepsPromise, R!Spec
=============================================================================
