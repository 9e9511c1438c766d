----------------------------- MODULE TokenProofs -----------------------------
(***************************************************************************)
(* The token Home Assistant holds is the one the HTTP server checks.       *)
(*                                                                         *)
(* The registration of the running process is the last one that was sent   *)
(* and answered; only an older one that its sender had abandoned can       *)
(* replace it, or a removal.  With a configured key that nobody changes    *)
(* the older ones carry the same key.                                      *)
(***************************************************************************)
EXTENDS DaemonProofs

Registration ==
    \/ ha.token = token
    \/ ha.tokenBy = "removed"
    \/ ha.tokenBy = "late" /\ Keys # {token}

\* One key was configured all along.
LateTokensOK == \A k \in Tokens : Keys = {k} => \A m \in late : m \in Register => m.token = k

TokenInv ==
    /\ PushInv
    /\ main \in Registered \/ (main = "register" /\ reply[Main] = "OK") => Registration
    /\ \A k \in Tokens : main # "down" /\ Keys = {k} => token = k
    /\ LateTokensOK
    /\ http # "closed" => main \in {"serving", "final"}

LEMMA TokenInit == Init => TokenInv
BY PushInit DEF Init, WebhookInit, TokenInv, LateTokensOK, Registered

LEMMA TokenFrame ==
    ASSUME TokenInv, PushInv', UNCHANGED <<main, token, ha, http, late>>,
           main = "register" /\ reply'[Main] = "OK" => reply[Main] = "OK"
    PROVE  TokenInv'
BY DEF TokenInv, Registration, LateTokensOK

\* What is abandoned keeps to the configured key.
LEMMA LateTokens ==
    ASSUME TokenInv,
           \A m \in late' : m \in late \/ \E s \in Senders : reply[s] = "pending" /\ m = msg[s]
    PROVE  LateTokensOK'
<1> SUFFICES ASSUME NEW k \in Tokens, Keys = {k}, NEW m \in late', m \in Register PROVE m.token = k
  BY DEF LateTokensOK
<1>1. CASE m \in late
  BY <1>1 DEF TokenInv, LateTokensOK
<1>2. ASSUME NEW s \in Senders, reply[s] = "pending", m = msg[s] PROVE m.token = k
  <2>1. m \notin Update
    BY DEF Register, Update
  <2>2. main = "register" /\ m = RegisterPayload(token)
    BY <1>2, <2>1, PendingMessage DEF TokenInv
  <2> QED
    BY <2>2 DEF RegisterPayload, TokenInv
<1> QED
  BY <1>1, <1>2

LEMMA TokenTriggerUpdate ==
    ASSUME TokenInv, PushInv', NEW p \in Senders, TriggerUpdate(p)
    PROVE  TokenInv'
<1> USE DEF LateTokensOK, webhookVars, processVars, listenVars, Return
<1>1. main = "register" => p # Main
  BY DEF TokenInv, PushInv, MainInv, TriggerUpdate, Lock, NothingToReport, ReadGrub, ReadGrubFails,
         SendUpdate, UpdateNotSent, UpdateSucceeds, UpdateFails
<1>2. CASE Lock(p) \/ NothingToReport(p) \/ ReadGrub(p) \/ ReadGrubFails(p) \/ UpdateNotSent(p)
  BY <1>2, TokenFrame DEF Lock, NothingToReport, ReadGrub, ReadGrubFails, UpdateNotSent
<1>3. CASE SendUpdate(p)
  BY <1>1, <1>3, TokenFrame, SendersAssumption
     DEF SendUpdate, Post, daemonVars, TokenInv, PushInv, TypeInv, TypeOK, WebhookTypeOK
<1>4. CASE UpdateSucceeds(p)
  BY <1>1, <1>4, TokenFrame, PostSucceedsLemma, SendersAssumption
     DEF UpdateSucceeds, TokenInv, PushInv, TypeInv, TypeOK
<1>5. CASE UpdateFails(p)
  <2>1. /\ \A m \in late' : m \in late \/ (reply[p] = "pending" /\ m = msg[p])
        /\ \A r \in Senders \ {p} : reply'[r] = reply[r]
        /\ ha' = ha
    BY <1>5, PostFailsLemma DEF UpdateFails, TokenInv, PushInv, TypeInv, TypeOK
  <2>2. LateTokensOK'
    BY <2>1, LateTokens
  <2> QED
    BY <1>1, <1>5, <2>1, <2>2, SendersAssumption DEF UpdateFails, TokenInv, Registration, Registered
<1> QED
  BY <1>2, <1>3, <1>4, <1>5 DEF TriggerUpdate

LEMMA TokenHomeAssistant ==
    ASSUME TokenInv, PushInv', HomeAssistant, UNCHANGED daemonVars
    PROVE  TokenInv'
<1> Main \in Senders
  BY SendersAssumption
<1> USE DEF LateTokensOK, daemonVars, processVars, listenVars
<1>1. ASSUME NEW s \in Senders, HAAccepts(s) PROVE TokenInv'
  <2>1. ha' = Stored(msg[s], "live") /\ late' = late /\ msg[s] \in Messages /\ reply[s] # "none"
    BY <1>1 DEF HAAccepts, TokenInv, PushInv, TypeInv, TypeOK, WebhookTypeOK
  <2>2. CASE msg[s] \in Update /\ (tu[s] = "post" \/ Beside(s))
    <3>1. ha'.token = ha.token /\ ha'.tokenBy = ha.tokenBy
      BY <2>1, <2>2, StoredLemma DEF TokenInv, PushInv, TypeInv, TypeOK
    <3>2. main = "register" => s # Main
      BY <2>2, BesideClient DEF TokenInv, PushInv, MainInv
    <3>3. main = "register" => reply'[Main] = reply[Main]
      BY <1>1, <3>2 DEF HAAccepts, TokenInv, PushInv, TypeInv, TypeOK, WebhookTypeOK
    <3> QED
      BY <2>1, <3>1, <3>3 DEF TokenInv, Registration
  <2>3. CASE s = Main /\ main = "register" /\ msg[s] = RegisterPayload(token) /\ msg[s] \in Register
    <3>1. ha'.token = token
      BY <2>1, <2>3, StoredLemma DEF TokenInv, PushInv, TypeInv, TypeOK, RegisterPayload
    <3> QED
      BY <2>1, <2>3, <3>1 DEF TokenInv, Registration
  <2> QED
    BY <2>1, <2>2, <2>3, PendingMessage DEF TokenInv
<1>2. ASSUME NEW s \in Senders, HARefuses(s) PROVE TokenInv'
  <2>1. reply'[Main] = "OK" => reply[Main] = "OK"
    BY <1>2 DEF HARefuses, TokenInv, PushInv, TypeInv, TypeOK, WebhookTypeOK
  <2> QED
    BY <1>2, <2>1, TokenFrame DEF HARefuses
<1>3. CASE LateArrives
  <2>1. PICK m \in late : ha' = Stored(m, "late") /\ late' = late \ {m} /\ m \in Messages
    BY <1>3 DEF LateArrives, TokenInv, PushInv, TypeInv, TypeOK, WebhookTypeOK
  <2>2. UNCHANGED <<main, token, reply, http>>
    BY <1>3 DEF LateArrives
  <2>3. CASE m \in Register
    <3>1. ha'.token = m.token /\ ha'.tokenBy = "late"
      BY <2>1, <2>3, StoredLemma DEF TokenInv, PushInv, TypeInv, TypeOK
    <3>2. \A k \in Tokens : Keys = {k} => m.token = k
      BY <2>3 DEF TokenInv, LateTokensOK
    <3>3. main # "down" => Registration'
      BY <2>2, <3>1, <3>2 DEF Registration, TokenInv, PushInv, TypeInv
    <3> QED
      BY <2>1, <2>2, <3>3 DEF TokenInv, Registered, LateTokensOK
  <2>4. CASE m \in Update
    <3>1. ha'.token = ha.token /\ ha'.tokenBy = ha.tokenBy
      BY <2>1, <2>4, StoredLemma DEF TokenInv, PushInv, TypeInv, TypeOK
    <3> QED
      BY <2>1, <2>2, <3>1 DEF TokenInv, Registration
  <2> QED
    BY <2>1, <2>3, <2>4 DEF Messages
<1>4. CASE LateLost
  BY <1>4 DEF LateLost, TokenInv, Registration
<1> QED
  BY <1>1, <1>2, <1>3, <1>4 DEF HomeAssistant

LEMMA TokenProcessEnds ==
    ASSUME TokenInv, PushInv', ProcessEnds
    PROVE  TokenInv'
<1>1. InDaemon \in SUBSET Senders
  BY DEF InDaemon
<1>2. \A m \in late' : m \in late \/ \E s \in Senders : reply[s] = "pending" /\ m = msg[s]
  BY <1>1, AbandonLemma DEF ProcessEnds, TokenInv, PushInv, TypeInv, TypeOK
<1>3. LateTokensOK'
  BY <1>2, LateTokens
<1> QED
  BY <1>3 DEF ProcessEnds, TokenInv, LateTokensOK, Registered

LEMMA TokenRun ==
    ASSUME TokenInv, PushInv', Run
    PROVE  TokenInv'
<1> Main \in Senders
  BY SendersAssumption
<1> USE DEF Registered, LateTokensOK
<1>1. CASE Start
  <2>1. reply[Main] = "none"
    BY <1>1, BesideClient DEF Start, TokenInv, PushInv, MainInv, PushOK
  <2>2. \A k \in Tokens : Keys = {k} => token' = k
    BY <1>1, NoTokenAssumption DEF Start
  <2> QED
    BY <1>1, <2>1, <2>2 DEF Start, webhookVars, listenVars, TokenInv, LateTokensOK
<1>2. CASE RegisterAgent
  <2>1. reply'[Main] = "pending"
    BY <1>2 DEF RegisterAgent, Post, TokenInv, PushInv, TypeInv, TypeOK, WebhookTypeOK
  <2> QED
    BY <1>2, <2>1, TokenFrame DEF RegisterAgent, Post, daemonVars, processVars, listenVars
<1>3. CASE RegisterNotSent
  BY <1>3 DEF RegisterNotSent, webhookVars, listenVars, TokenInv, Registration
<1>4. CASE RegisterSucceeds
  <2>1. ha' = ha /\ late' = late /\ reply[Main] = "OK"
    BY <1>4, PostSucceedsLemma DEF RegisterSucceeds, PostSucceeds, Accepted, TokenInv, PushInv, TypeInv, TypeOK
  <2> QED
    BY <1>4, <2>1 DEF RegisterSucceeds, listenVars, TokenInv, Registration
<1>5. CASE RegisterFails
  <2>1. \A m \in late' : m \in late \/ (reply[Main] = "pending" /\ m = msg[Main])
    BY <1>5, PostFailsLemma DEF RegisterFails, TokenInv, PushInv, TypeInv, TypeOK
  <2>2. LateTokensOK'
    BY <2>1, LateTokens
  <2> QED
    BY <1>5, <2>2 DEF RegisterFails, listenVars, TokenInv
<1>6. CASE BackoffElapses
  <2>1. reply[Main] = "none"
    BY <1>6, BesideClient DEF BackoffElapses, TokenInv, PushInv, MainInv, PushOK
  <2> QED
    BY <1>6, <2>1 DEF BackoffElapses, webhookVars, listenVars, TokenInv
<1>7. CASE HandshakeCancelled \/ Exit
  BY <1>7, TokenProcessEnds DEF HandshakeCancelled, Exit
<1>8. CASE StartListeners
  BY <1>8 DEF StartListeners, webhookVars, TokenInv, Registration
<1>9. CASE Terminate
  BY <1>9 DEF Terminate, webhookVars, listenVars, TokenInv, Registration
<1>10. CASE ShutdownHTTP
  BY <1>10 DEF ShutdownHTTP, webhookVars, TokenInv, Registration
<1> QED
  BY <1>1, <1>2, <1>3, <1>4, <1>5, <1>6, <1>7, <1>8, <1>9, <1>10 DEF Run

LEMMA TokenOther ==
    ASSUME TokenInv, PushInv',
           \/ SocketListener \/ ListenHTTP \/ Machine
           \/ \E c \in Clients : SocketHandler(c) \/ Connect(c) \/ HangUp(c)
           \/ \E h \in Callers : PrePushReturns(h) \/ PowerOff(h) \/ PostShutdown(h)
    PROVE  TokenInv'
<1> USE DEF LateTokensOK, webhookVars, processVars, listenVars
<1>1. CASE ListenHTTP
  BY <1>1 DEF ListenHTTP, TokenInv, Registration
<1>2. CASE SocketListener
  BY <1>2, TokenFrame DEF SocketListener, RemoveSocket, RemoveSocketFails, ListenSocket, CloseSocket
<1>3. CASE \E c \in Clients : SocketHandler(c) \/ Connect(c) \/ HangUp(c)
  BY <1>3, TokenFrame DEF SocketHandler, AcceptPush, AnswerPush, Connect, HangUp
<1>4. CASE \E h \in Callers : PrePushReturns(h) \/ PowerOff(h) \/ PostShutdown(h)
  BY <1>4, TokenFrame DEF PrePushReturns, PowerOff, PostShutdown
<1>5. CASE Machine
  BY <1>5, TokenFrame DEF Machine, StopUnit, StartUnit, Halt, HaltUnit, PowerDown, Boot, MenuChanges
<1> QED
  BY <1>1, <1>2, <1>3, <1>4, <1>5

LEMMA TokenStep ==
    ASSUME TokenInv, PushInv', [Next]_vars
    PROVE  TokenInv'
<1>1. CASE Run
  BY <1>1, TokenRun
<1>2. CASE \E p \in Senders : TriggerUpdate(p)
  BY <1>2, TokenTriggerUpdate
<1>3. CASE \/ SocketListener \/ ListenHTTP \/ Machine
           \/ \E c \in Clients : SocketHandler(c) \/ Connect(c) \/ HangUp(c)
           \/ \E h \in Callers : PrePushReturns(h) \/ PowerOff(h) \/ PostShutdown(h)
  BY <1>3, TokenOther
<1>4. CASE HomeAssistant /\ UNCHANGED daemonVars
  BY <1>4, TokenHomeAssistant
<1>5. CASE Crash
  BY <1>5, TokenProcessEnds DEF Crash
<1>6. CASE UNCHANGED vars
  BY <1>6, TokenFrame DEF vars, webhookVars, daemonVars, processVars, listenVars
<1>7. CASE ServiceRemove
  <2>1. UNCHANGED <<main, token, reply, http, late>> /\ ha'.tokenBy = "removed"
    BY <1>7, UnregisteredLemma
       DEF ServiceRemove, daemonVars, processVars, listenVars, TokenInv, PushInv, TypeInv, TypeOK
  <2> QED
    BY <2>1 DEF TokenInv, Registration, LateTokensOK
<1> QED
  BY <1>1, <1>2, <1>3, <1>4, <1>5, <1>6, <1>7 DEF Next, DaemonStep, Environment, ClientStep

LEMMA TokenSafe == TokenInv => TokenInSync
BY DEF TokenInv, TokenInSync, Registration, Registered

\* While the HTTP listener is open Home Assistant can shut the machine down,
\* unless `service remove` unregistered the host, or an abandoned registration of
\* an earlier token overtook that of the running process: with a configured key
\* that never changed the latter does no harm.
THEOREM TokenStaysInSync == Spec => []TokenInSync
<1>1. Init => TokenInv /\ Quiet /\ Alone
  BY TokenInit, AloneInit DEF AloneInv
<1>2. TokenInv /\ Quiet /\ Alone /\ [Next]_vars => (TokenInv /\ Quiet /\ Alone)'
  BY AloneStep, TokenStep DEF AloneInv, TokenInv
<1>3. TokenInv => TokenInSync
  BY TokenSafe
<1> QED
  BY <1>1, <1>2, <1>3, PTL DEF Spec

\* Home Assistant is refused the shutdown of a host only after a removal, or after
\* such a late registration of a token that is not the only one ever configured:
\* in all other cases the handler of POST /shutdown goes on to its push
\* (newHTTPServer).
THEOREM ShutdownAccepted ==
    Spec => [][\A h \in Callers : PostShutdown(h) =>
                  \/ hdl'[h] = "push"
                  \/ ha.tokenBy = "removed"
                  \/ ha.tokenBy = "late" /\ Keys # {token}]_vars
<1>1. TypeOK /\ TokenInSync /\ [Next]_vars =>
         [\A h \in Callers : PostShutdown(h) =>
             \/ hdl'[h] = "push"
             \/ ha.tokenBy = "removed"
             \/ ha.tokenBy = "late" /\ Keys # {token}]_vars
  BY DEF PostShutdown, TokenInSync, TypeOK
<1> QED
  BY <1>1, TypeCorrect, TokenStaysInSync, PTL DEF Spec
=============================================================================
