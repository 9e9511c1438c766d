--------------------------- MODULE BootPushProofs ---------------------------
(***************************************************************************)
(* What boot push reports as done is true, for any number of commands at   *)
(* the same time, next to a daemon that may crash and restart at any       *)
(* moment; and the daemon keeps every promise it keeps alone, whatever the *)
(* commands beside it do.                                                  *)
(***************************************************************************)
EXTENDS BootPush, TokenProofs, ReportProofs

CliTypeInv ==
    /\ TypeInv
    /\ cli \in [Clients -> CliSteps]
    /\ found \in [Clients -> Menus]
    /\ started \in [Clients -> Menus]

\* report_boot_options is never switched off.
AlwaysOn == FALSE \notin Reports

\* The command and the goroutine of the daemon that serves it send for the same
\* c, but never at the same time: a command that posts has no connection any
\* more.  Along either path the menu that is sent is no older than the start of
\* the command: on the way it is that of the goroutine (began, options) or that
\* of the command (found).
CommandOK(c) ==
    /\ started[c] <= menu /\ found[c] <= menu
    /\ cli[c] # "wait" <=> conn[c] = "none"
    /\ conn[c] # "served" => tu[c] = "idle"
    /\ tu[c] # "post" /\ cli[c] # "post" => reply[c] = "none"
    /\ tu[c] # "idle" => began[c] >= started[c]
    /\ tu[c] = "post" => /\ options[c] >= started[c]
                         /\ reply[c] # "none" => msg[c] = UpdatePayload(options[c], "daemon")
                         /\ reply[c] = "OK" => ha.seen >= options[c]
    /\ cli[c] = "post" => /\ found[c] >= started[c]
                          /\ reply[c] # "none" => msg[c] = UpdatePayload(found[c], "direct")
                          /\ reply[c] = "OK" => ha.seen >= found[c]
    /\ AlwaysOn /\ (tu[c] = "ok" \/ conn[c] = "OK" \/ cli[c] = "pushed") => ha.seen >= started[c]

CliInv == CliTypeInv /\ \A c \in Clients : CommandOK(c)

LEMMA ClientsSend == \A c \in Clients : c \in Senders /\ c # Main
BY SendersAssumption

LEMMA CliNumbers ==
    ASSUME CliTypeInv
    PROVE  /\ menu \in Nat /\ ha.seen \in Nat
           /\ \A c \in Clients : began[c] \in Nat /\ options[c] \in Nat /\ found[c] \in Nat /\ started[c] \in Nat
BY Numbers, ClientsSend DEF CliTypeInv, Menus

LEMMA CliInitInv == CliInit => CliInv
<1> SUFFICES ASSUME CliInit PROVE CliInv
  OBVIOUS
<1>1. CliTypeInv
  BY TypeInit, Zero DEF CliInit, CliTypeInv, CliSteps
<1>2. 0 <= menu
  BY <1>1, CliNumbers
<1> QED  BY <1>1, <1>2, ClientsSend DEF CliInit, CliInv, CommandOK, Init, WebhookInit

\* The steps of a command, and those of the daemon, keep the types.
LEMMA CliTypeStep == CliTypeInv /\ [CliNext]_allVars => CliTypeInv'
<1> SUFFICES ASSUME CliTypeInv, [CliNext]_allVars PROVE CliTypeInv'
  OBVIOUS
<1> USE DEF CliTypeInv, CliSteps
<1>1. CASE OtherStep
  <2>1. TypeInv'
    BY <1>1, TypeStep DEF OtherStep, Next
  <2> QED  BY <1>1, <2>1 DEF OtherStep, cliVars
<1>2. ASSUME NEW c \in Clients, Invoke(c) \/ ViaSocket(c) \/ Direct(c) \/ Done(c)
      PROVE  CliTypeInv'
  <2>1. TypeInv'
    <3>1. CASE UNCHANGED vars
      BY <3>1 DEF vars, webhookVars, daemonVars, processVars, pushVars, listenVars, machineVars, TypeInv, TypeOK, WebhookTypeOK
    <3>2. CASE Connect(c) \/ HangUp(c)
      BY <3>2, TypeStep DEF Next, ClientStep
    <3>3. CASE UNCHANGED daemonVars /\ WebhookTypeOK'
      BY <3>3 DEF daemonVars, processVars, pushVars, listenVars, machineVars, TypeInv, TypeOK
    <3>4. CASE DirectPush(c)
      <4>1. UpdatePayload(found[c], "direct") \in Messages
        BY DEF UpdatePayload, Messages, Update
      <4> QED  BY <3>3, <3>4, <4>1, ClientsSend, PostType DEF DirectPush, TypeInv, TypeOK
    <3>5. CASE DirectPushSucceeds(c)
      BY <3>3, <3>5, ClientsSend, PostSucceedsLemma DEF DirectPushSucceeds, TypeInv, TypeOK
    <3>6. CASE DirectPushFails(c)
      BY <3>3, <3>6, ClientsSend, PostFailsLemma DEF DirectPushFails, TypeInv, TypeOK
    <3> QED
      BY <1>2, <3>1, <3>2, <3>4, <3>5, <3>6
      DEF Invoke, ViaSocket, Dial, DialFails, ReadResponse, Direct, GetBootOptions, GetBootOptionsFails,
          DirectPushNotSent, Done
  <2>2. menu \in Menus /\ 0 \in Menus
    BY Zero DEF TypeInv, TypeOK
  <2> QED
    BY <1>2, <2>1, <2>2
    DEF Invoke, ViaSocket, Dial, DialFails, ReadResponse, Direct, GetBootOptions, GetBootOptionsFails,
        DirectPush, DirectPushNotSent, DirectPushSucceeds, DirectPushFails, Done, Move, cliVars
<1>3. CASE UNCHANGED allVars
  BY <1>3 DEF allVars, cliVars, vars, webhookVars, daemonVars, processVars, pushVars, listenVars, machineVars,
              TypeInv, TypeOK, WebhookTypeOK
<1> QED  BY <1>1, <1>2, <1>3 DEF CliNext

----------------------------------------------------------------------------
(* What a command relies on, through the steps of the daemon *)

\* Steps that touch nothing of c but make the menu or what was stored newer.
LEMMA CommandFrame ==
    ASSUME CliInv, CliTypeInv', NEW c \in Clients, CommandOK(c), menu' >= menu, ha'.seen >= ha.seen,
           <<msg[c], reply[c], tu[c], began[c], options[c], conn[c], cli[c], found[c], started[c]>>'
           = <<msg[c], reply[c], tu[c], began[c], options[c], conn[c], cli[c], found[c], started[c]>>
    PROVE  CommandOK(c)'
<1>1. /\ menu' \in Nat /\ menu \in Nat /\ ha'.seen \in Nat /\ ha.seen \in Nat
      /\ began[c] \in Nat /\ options[c] \in Nat /\ found[c] \in Nat /\ started[c] \in Nat
  BY CliNumbers DEF CliInv, CliTypeInv, TypeInv, TypeOK, WebhookTypeOK, HAState, Menus
<1> QED  BY <1>1 DEF CommandOK

\* What a daemon leaves to a command when it ends.
LEMMA CommandProcessEnds ==
    ASSUME CliInv, CliTypeInv', NEW c \in Clients, ProcessEnds, UNCHANGED machineVars, UNCHANGED cliVars
    PROVE  CommandOK(c)'
<1> USE DEF CliInv, CommandOK
<1>1. InDaemon \in SUBSET Senders /\ TypeInv /\ WebhookTypeOK
  BY DEF InDaemon, CliTypeInv, TypeInv, TypeOK
<1>2. ha' = ha /\ menu' = menu /\ cli' = cli /\ found' = found /\ started' = started
  BY <1>1, AbandonLemma DEF ProcessEnds, machineVars, cliVars
<1>3. tu'[c] = "idle" /\ conn'[c] = IF conn[c] \in {"sent", "served"} THEN "eof" ELSE conn[c]
  BY ClientsSend DEF ProcessEnds
<1>4. CASE tu[c] = "post"
  <2>1. c \in InDaemon
    BY <1>4, ClientsSend DEF InDaemon
  <2>2. reply'[c] = "none"
    BY <1>1, <2>1, AbandonLemma DEF ProcessEnds
  <2>3. conn[c] = "served" /\ cli[c] = "wait"
    BY <1>4
  <2> QED  BY <1>2, <1>3, <2>2, <2>3
<1>5. CASE tu[c] # "post"
  <2>1. c \in Senders \ InDaemon
    BY <1>5, ClientsSend DEF InDaemon
  <2>2. reply'[c] = reply[c] /\ msg'[c] = msg[c]
    BY <1>1, <2>1, AbandonLemma DEF ProcessEnds
  <2> QED  BY <1>2, <1>3, <1>5, <2>2
<1> QED  BY <1>4, <1>5

\* The goroutine that serves c.
LEMMA CommandServed ==
    ASSUME CliInv, CliTypeInv', NEW c \in Clients, TriggerUpdate(c), UNCHANGED cliVars
    PROVE  CommandOK(c)'
<1> USE DEF CliInv, CommandOK, cliVars
<1>1. TypeInv /\ WebhookTypeOK /\ c \in Senders
  BY ClientsSend DEF CliTypeInv, TypeInv, TypeOK
<1>2. /\ menu \in Nat /\ ha.seen \in Nat /\ began[c] \in Nat /\ options[c] \in Nat /\ started[c] \in Nat
  BY CliNumbers
<1>3. /\ tu \in [Senders -> PushSteps] /\ options \in [Senders -> Menus] /\ msg \in [Senders -> Messages \cup {NoMsg}]
      /\ reply \in [Senders -> Replies]
  BY <1>1 DEF TypeInv, TypeOK, WebhookTypeOK
<1>4. CASE Lock(c)
  BY <1>1, <1>3, <1>4 DEF Lock, webhookVars, listenVars, machineVars
<1>5. CASE ReadGrub(c)
  BY <1>1, <1>2, <1>3, <1>5 DEF ReadGrub, webhookVars, listenVars, machineVars
<1>6. CASE ReadGrubFails(c)
  BY <1>1, <1>2, <1>3, <1>6 DEF ReadGrubFails, Return, webhookVars, listenVars, machineVars
<1>7. CASE SendUpdate(c)
  BY <1>1, <1>2, <1>3, <1>7 DEF SendUpdate, Post, daemonVars, pushVars, listenVars, machineVars
<1>8. CASE UpdateNotSent(c)
  BY <1>1, <1>2, <1>3, <1>8 DEF UpdateNotSent, Return, webhookVars, listenVars, machineVars
<1>9. CASE UpdateSucceeds(c)
  BY <1>1, <1>2, <1>3, <1>9 DEF UpdateSucceeds, PostSucceeds, Accepted, Return, listenVars, machineVars
<1>10. CASE UpdateFails(c)
  <2>1. reply'[c] = "none" /\ ha' = ha
    BY <1>1, <1>10, PostFailsLemma DEF UpdateFails
  <2> QED  BY <1>1, <1>2, <1>3, <1>10, <2>1 DEF UpdateFails, Return, listenVars, machineVars
<1>11. CASE NothingToReport(c)
  <2>1. FALSE \in Reports
    BY <1>1, <1>11, ConfigAssumption DEF NothingToReport, TypeInv, TypeOK
  <2>2. ~AlwaysOn
    BY <2>1 DEF AlwaysOn
  <2> QED  BY <2>2, <1>1, <1>2, <1>3, <1>11 DEF NothingToReport, Return, webhookVars, listenVars, machineVars
<1> QED
  BY <1>4, <1>5, <1>6, <1>7, <1>8, <1>9, <1>10, <1>11 DEF TriggerUpdate

\* Another goroutine in TriggerUpdate.
LEMMA CommandAside ==
    ASSUME CliInv, CliTypeInv', NEW c \in Clients, NEW p \in Senders \ {c}, TriggerUpdate(p), UNCHANGED cliVars
    PROVE  CommandOK(c)'
<1>1. TypeInv /\ WebhookTypeOK /\ c \in Senders
  BY ClientsSend DEF CliInv, CliTypeInv, TypeInv, TypeOK
<1>2. /\ tu \in [Senders -> PushSteps] /\ options \in [Senders -> Menus] /\ began \in [Senders -> Menus]
      /\ msg \in [Senders -> Messages \cup {NoMsg}] /\ reply \in [Senders -> Replies]
  BY <1>1 DEF TypeInv, TypeOK, WebhookTypeOK
<1>3. msg'[c] = msg[c] /\ reply'[c] = reply[c] /\ ha' = ha
  <2>1. CASE UpdateFails(p)
    BY <1>1, <2>1, PostFailsLemma DEF UpdateFails
  <2>2. CASE UpdateSucceeds(p)
    BY <1>1, <2>2, PostSucceedsLemma DEF UpdateSucceeds
  <2>3. CASE SendUpdate(p)
    BY <1>1, <1>2, <2>3 DEF SendUpdate, Post
  <2> QED
    BY <2>1, <2>2, <2>3 DEF TriggerUpdate, Lock, NothingToReport, ReadGrub, ReadGrubFails, UpdateNotSent, webhookVars
<1>4. tu'[c] = tu[c] /\ began'[c] = began[c] /\ options'[c] = options[c] /\ conn' = conn /\ menu' = menu
  BY <1>1, <1>2 DEF TriggerUpdate, Lock, NothingToReport, ReadGrub, ReadGrubFails, SendUpdate, UpdateNotSent,
     UpdateSucceeds, UpdateFails, Return, daemonVars, pushVars, listenVars, machineVars
<1>5. menu' >= menu /\ ha'.seen >= ha.seen
  BY <1>3, <1>4, CliNumbers DEF CliInv
<1> QED  BY <1>3, <1>4, <1>5, CommandFrame DEF CliInv, cliVars

\* Home Assistant answers c, or another sender.
LEMMA CommandHomeAssistant ==
    ASSUME CliInv, CliTypeInv', NEW c \in Clients, HomeAssistant, UNCHANGED daemonVars, UNCHANGED cliVars
    PROVE  CommandOK(c)'
<1> USE DEF CliInv
<1>1. TypeInv /\ WebhookTypeOK /\ c \in Senders /\ reply \in [Senders -> Replies]
  BY ClientsSend DEF CliTypeInv, TypeInv, TypeOK, WebhookTypeOK
<1>2. <<tu, began, options, conn, menu, cli, found, started>>' = <<tu, began, options, conn, menu, cli, found, started>>
  BY DEF daemonVars, pushVars, listenVars, machineVars, cliVars
<1>3. menu' >= menu /\ ha.seen >= ha.seen
  BY <1>2, CliNumbers
<1>4. CASE \E s \in Senders \ {c} : HAAccepts(s)
  <2>1. PICK s \in Senders \ {c} : HAAccepts(s)
    BY <1>4
  <2>2. ha'.seen >= ha.seen
    BY <1>1, <2>1, StoredLemma DEF HAAccepts, WebhookTypeOK
  <2> QED  BY <1>1, <1>2, <1>3, <2>1, <2>2, CommandFrame DEF HAAccepts
<1>5. CASE HAAccepts(c)
  <2>1. /\ reply[c] = "pending" /\ reply'[c] = "OK" /\ msg'[c] = msg[c] /\ ha' = Stored(msg[c], "live")
        /\ msg[c] \in Messages
    BY <1>1, <1>5 DEF HAAccepts, WebhookTypeOK
  <2>2. ha'.seen >= ha.seen
    BY <1>1, <2>1, StoredLemma
  <2>3. /\ menu \in Nat /\ ha.seen \in Nat /\ ha'.seen \in Nat /\ began[c] \in Nat /\ options[c] \in Nat
        /\ found[c] \in Nat /\ started[c] \in Nat /\ options[c] \in Menus /\ found[c] \in Menus
    BY <1>1, ClientsSend, CliNumbers DEF CliTypeInv, TypeInv, TypeOK, WebhookTypeOK, HAState, Menus
  <2>4. ASSUME NEW v \in Menus, NEW path \in {"daemon", "direct"}, msg[c] = UpdatePayload(v, path)
        PROVE  ha'.seen >= v
    <3>1. msg[c] \in Update /\ msg[c].menu = v
      BY <2>4 DEF UpdatePayload, Update
    <3>2. ha'.seen = Newer(v, ha.seen) /\ v \in Nat
      BY <1>1, <2>1, <3>1, StoredLemma DEF Menus
    <3> QED  BY <2>3, <3>2 DEF Newer
  <2>5. CASE tu[c] = "post"
    <3>1. ha'.seen >= options[c]
      BY <2>1, <2>3, <2>4, <2>5 DEF CommandOK
    <3> QED  BY <1>2, <2>1, <2>2, <2>3, <2>5, <3>1 DEF CommandOK
  <2>6. CASE cli[c] = "post"
    <3>1. ha'.seen >= found[c]
      BY <2>1, <2>3, <2>4, <2>6 DEF CommandOK
    <3> QED  BY <1>2, <2>1, <2>2, <2>3, <2>6, <3>1 DEF CommandOK
  <2> QED  BY <2>1, <2>5, <2>6 DEF CommandOK
<1>6. CASE HARefuses(c)
  <2>1. ha' = ha /\ msg' = msg /\ reply[c] = "pending" /\ reply'[c] = "other body"
    BY <1>1, <1>6 DEF HARefuses
  <2> QED  BY <1>2, <1>3, <2>1 DEF CommandOK
<1>7. CASE \E s \in Senders \ {c} : HARefuses(s)
  <2>1. ha' = ha /\ msg'[c] = msg[c] /\ reply'[c] = reply[c]
    BY <1>1, <1>7 DEF HARefuses
  <2>2. ha'.seen >= ha.seen
    BY <2>1, CliNumbers
  <2> QED  BY <1>2, <1>3, <2>1, <2>2, CommandFrame
<1>8. CASE LateArrives \/ LateLost
  <2>1. ha'.seen >= ha.seen
    <3>1. CASE LateArrives
      BY <1>1, <3>1, StoredLemma DEF LateArrives, WebhookTypeOK
    <3>2. CASE LateLost
      BY <3>2, CliNumbers DEF LateLost
    <3> QED  BY <1>8, <3>1, <3>2
  <2>2. msg' = msg /\ reply' = reply
    BY <1>8 DEF LateArrives, LateLost
  <2> QED  BY <1>2, <1>3, <2>1, <2>2, CommandFrame
<1> QED  BY <1>4, <1>5, <1>6, <1>7, <1>8 DEF HomeAssistant

\* run, to the end of the process or to its next step.
LEMMA CommandRun ==
    ASSUME CliInv, CliTypeInv', NEW c \in Clients, Run \/ Crash, UNCHANGED cliVars
    PROVE  CommandOK(c)'
<1> USE DEF CliInv
<1>1. CASE HandshakeCancelled \/ Exit \/ Crash
  BY <1>1, CommandProcessEnds DEF HandshakeCancelled, Exit, Crash
<1>2. CASE ~(HandshakeCancelled \/ Exit \/ Crash)
  <2>1. TypeInv /\ WebhookTypeOK /\ c \in Senders /\ Main \in Senders /\ c # Main
    BY ClientsSend, SendersAssumption DEF CliTypeInv, TypeInv, TypeOK
  <2>2. /\ tu \in [Senders -> PushSteps] /\ began \in [Senders -> Menus]
        /\ msg \in [Senders -> Messages \cup {NoMsg}] /\ reply \in [Senders -> Replies]
    BY <2>1 DEF TypeInv, TypeOK, WebhookTypeOK
  <2>3. msg'[c] = msg[c] /\ reply'[c] = reply[c] /\ ha' = ha
    <3>1. CASE RegisterAgent
      BY <2>1, <2>2, <3>1 DEF RegisterAgent, Post
    <3>2. CASE RegisterSucceeds
      BY <2>1, <3>2, PostSucceedsLemma DEF RegisterSucceeds
    <3>3. CASE RegisterFails
      BY <2>1, <3>3, PostFailsLemma DEF RegisterFails
    <3> QED
      BY <1>2, <3>1, <3>2, <3>3
      DEF Run, Start, RegisterNotSent, BackoffElapses, StartListeners, Terminate, ShutdownHTTP, webhookVars
  <2>4. tu'[c] = tu[c] /\ began'[c] = began[c] /\ options' = options /\ conn' = conn /\ menu' = menu
    BY <1>2, <2>1, <2>2
    DEF Run, Start, RegisterAgent, RegisterNotSent, RegisterSucceeds, RegisterFails, BackoffElapses, StartListeners,
        Terminate, ShutdownHTTP, Call, Resume, daemonVars, pushVars, listenVars, machineVars
  <2>5. menu' >= menu /\ ha'.seen >= ha.seen
    BY <2>3, <2>4, CliNumbers
  <2> QED  BY <2>3, <2>4, <2>5, CommandFrame DEF cliVars
<1> QED  BY <1>1, <1>2

\* The listeners and the handlers, the machine.
LEMMA CommandHandlers ==
    ASSUME CliInv, CliTypeInv', NEW c \in Clients,
           \/ SocketListener \/ ListenHTTP \/ Machine
           \/ \E d \in Clients : SocketHandler(d)
           \/ \E h \in Callers : PrePushReturns(h) \/ PowerOff(h) \/ PostShutdown(h),
           UNCHANGED cliVars
    PROVE  CommandOK(c)'
<1> USE DEF CliInv, webhookVars, processVars, pushVars, listenVars, machineVars, cliVars
<1>1. TypeInv /\ c \in Senders /\ \A h \in Callers : h \in Senders /\ h # c
  BY ClientsSend, SendersAssumption DEF CliTypeInv, TypeInv, TypeOK
<1>2. /\ tu \in [Senders -> PushSteps] /\ began \in [Senders -> Menus]
      /\ conn \in [Clients -> {"none", "sent", "served", "OK", "ERROR", "eof"}]
  BY <1>1 DEF TypeInv, TypeOK
<1>3. /\ menu \in Nat /\ ha.seen \in Nat /\ began[c] \in Nat /\ options[c] \in Nat /\ started[c] \in Nat
  BY CliNumbers
<1>4. CASE SocketListener
  <2>1. CASE CloseSocket
    BY <1>2, <2>1 DEF CloseSocket, CommandOK
  <2>2. CASE RemoveSocket \/ RemoveSocketFails \/ ListenSocket
    BY <1>3, <2>2, CommandFrame DEF RemoveSocket, RemoveSocketFails, ListenSocket
  <2> QED  BY <1>4, <2>1, <2>2 DEF SocketListener
<1>5. CASE AcceptPush(c)
  BY <1>1, <1>2, <1>3, <1>5 DEF AcceptPush, Call, CommandOK
<1>6. CASE AnswerPush(c)
  BY <1>1, <1>2, <1>3, <1>6 DEF AnswerPush, Returned, Resume, CommandOK
<1>7. CASE \E d \in Clients \ {c} : SocketHandler(d)
  <2>1. /\ conn'[c] = conn[c] /\ tu'[c] = tu[c] /\ began'[c] = began[c]
        /\ UNCHANGED <<msg, reply, ha, options, menu>>
    BY <1>1, <1>2, <1>7, ClientsSend DEF SocketHandler, AcceptPush, AnswerPush, Call, Resume
  <2> QED  BY <1>3, <2>1, CommandFrame
<1>8. CASE \E h \in Callers : PrePushReturns(h) \/ PowerOff(h) \/ PostShutdown(h)
  <2>1. /\ conn' = conn /\ tu'[c] = tu[c] /\ began'[c] = began[c]
        /\ UNCHANGED <<msg, reply, ha, options, menu>>
    BY <1>1, <1>2, <1>8 DEF PrePushReturns, PowerOff, PostShutdown, Call, Resume
  <2> QED  BY <1>3, <2>1, CommandFrame
<1>9. CASE ListenHTTP
  BY <1>3, <1>9, CommandFrame DEF ListenHTTP
<1>10. CASE Machine
  <2>1. UNCHANGED <<msg, reply, ha, tu, began, options, conn>> /\ menu' >= menu
    BY <1>3, <1>10 DEF Machine, StopUnit, StartUnit, Halt, HaltUnit, PowerDown, Boot, MenuChanges
  <2> QED  BY <1>3, <2>1, CommandFrame
<1> QED  BY <1>4, <1>5, <1>6, <1>7, <1>8, <1>9, <1>10 DEF SocketHandler

----------------------------------------------------------------------------
(* The steps of the commands *)

\* A command never touches another one.
LEMMA OtherCommand ==
    ASSUME CliInv, CliTypeInv', NEW c \in Clients, NEW d \in Clients \ {c},
           Invoke(d) \/ ViaSocket(d) \/ Direct(d) \/ Done(d)
    PROVE  CommandOK(c)'
<1> USE DEF CliInv
<1>1. TypeInv /\ WebhookTypeOK /\ c \in Senders /\ d \in Senders
  BY ClientsSend DEF CliTypeInv, TypeInv, TypeOK
<1>2. /\ conn \in [Clients -> {"none", "sent", "served", "OK", "ERROR", "eof"}]
      /\ cli \in [Clients -> CliSteps] /\ found \in [Clients -> Menus] /\ started \in [Clients -> Menus]
      /\ msg \in [Senders -> Messages \cup {NoMsg}] /\ reply \in [Senders -> Replies]
  BY <1>1 DEF CliTypeInv, TypeInv, TypeOK, WebhookTypeOK
<1>3. msg'[c] = msg[c] /\ reply'[c] = reply[c] /\ ha' = ha
  <2>1. CASE DirectPush(d)
    BY <1>1, <1>2, <2>1 DEF DirectPush, Post
  <2>2. CASE DirectPushSucceeds(d)
    BY <1>1, <2>2, PostSucceedsLemma DEF DirectPushSucceeds
  <2>3. CASE DirectPushFails(d)
    BY <1>1, <2>3, PostFailsLemma DEF DirectPushFails
  <2> QED
    BY <2>1, <2>2, <2>3
    DEF Invoke, ViaSocket, Dial, DialFails, ReadResponse, Connect, HangUp, Direct, GetBootOptions,
        GetBootOptionsFails, DirectPushNotSent, Done, vars, webhookVars
<1>4. UNCHANGED <<tu, began, options, menu>>
  BY DEF Invoke, ViaSocket, Dial, DialFails, ReadResponse, Connect, HangUp, Direct, GetBootOptions,
         GetBootOptionsFails, DirectPush, DirectPushNotSent, DirectPushSucceeds, DirectPushFails, Done,
         vars, daemonVars, pushVars, machineVars
<1>5. conn'[c] = conn[c] /\ cli'[c] = cli[c] /\ found'[c] = found[c] /\ started'[c] = started[c]
  BY <1>2
     DEF Invoke, ViaSocket, Dial, DialFails, ReadResponse, Connect, HangUp, Direct, GetBootOptions,
         GetBootOptionsFails, DirectPush, DirectPushNotSent, DirectPushSucceeds, DirectPushFails, Done, Move,
         vars, daemonVars, listenVars, cliVars
<1>6. menu' >= menu /\ ha'.seen >= ha.seen
  BY <1>3, <1>4, CliNumbers
<1> QED  BY <1>3, <1>4, <1>5, <1>6, CommandFrame

LEMMA OwnCommand ==
    ASSUME CliInv, CliTypeInv', NEW c \in Clients, Invoke(c) \/ ViaSocket(c) \/ Direct(c) \/ Done(c)
    PROVE  CommandOK(c)'
<1> USE DEF CliInv, CommandOK
<1>1. TypeInv /\ WebhookTypeOK /\ c \in Senders
  BY ClientsSend DEF CliTypeInv, TypeInv, TypeOK
<1>2. /\ conn \in [Clients -> {"none", "sent", "served", "OK", "ERROR", "eof"}]
      /\ cli \in [Clients -> CliSteps] /\ found \in [Clients -> Menus] /\ started \in [Clients -> Menus]
      /\ msg \in [Senders -> Messages \cup {NoMsg}] /\ reply \in [Senders -> Replies]
  BY <1>1 DEF CliTypeInv, TypeInv, TypeOK, WebhookTypeOK
<1>3. /\ menu \in Nat /\ ha.seen \in Nat /\ began[c] \in Nat /\ options[c] \in Nat
      /\ started[c] \in Nat /\ found[c] \in Nat
  BY CliNumbers
<1> USE DEF Move, vars, webhookVars, daemonVars, processVars, pushVars, listenVars, machineVars, cliVars
<1>4. CASE Invoke(c)
  BY <1>2, <1>3, <1>4 DEF Invoke
<1>5. CASE Dial(c)
  BY <1>2, <1>3, <1>5 DEF Dial, Connect
<1>6. CASE DialFails(c)
  BY <1>2, <1>3, <1>6 DEF DialFails
<1>7. CASE ReadResponse(c)
  BY <1>2, <1>3, <1>7 DEF ReadResponse, HangUp, DaemonPushed
<1>8. CASE GetBootOptions(c)
  BY <1>2, <1>3, <1>8 DEF GetBootOptions
<1>9. CASE GetBootOptionsFails(c)
  BY <1>2, <1>3, <1>9 DEF GetBootOptionsFails
<1>10. CASE DirectPush(c)
  BY <1>1, <1>2, <1>3, <1>10 DEF DirectPush, Post
<1>11. CASE DirectPushNotSent(c)
  BY <1>2, <1>3, <1>11 DEF DirectPushNotSent
<1>12. CASE DirectPushSucceeds(c)
  <2>1. reply[c] = "OK" /\ reply'[c] = "none" /\ ha' = ha
    BY <1>1, <1>12, PostSucceedsLemma DEF DirectPushSucceeds, PostSucceeds, Accepted
  <2> QED  BY <1>2, <1>3, <1>12, <2>1 DEF DirectPushSucceeds
<1>13. CASE DirectPushFails(c)
  <2>1. reply'[c] = "none" /\ ha' = ha
    BY <1>1, <1>13, PostFailsLemma DEF DirectPushFails
  <2> QED  BY <1>2, <1>3, <1>13, <2>1 DEF DirectPushFails
<1>14. CASE Done(c)
  BY <1>2, <1>3, <1>14 DEF Done
<1> QED
  BY <1>4, <1>5, <1>6, <1>7, <1>8, <1>9, <1>10, <1>11, <1>12, <1>13, <1>14 DEF ViaSocket, Direct

----------------------------------------------------------------------------

LEMMA CliStep == CliInv /\ [CliNext]_allVars => CliInv'
<1> SUFFICES ASSUME CliInv, [CliNext]_allVars PROVE CliInv'
  OBVIOUS
<1>1. CliTypeInv'
  BY CliTypeStep DEF CliInv
<1> SUFFICES ASSUME NEW c \in Clients PROVE CommandOK(c)'
  BY <1>1 DEF CliInv
<1>2. ASSUME NEW p \in Senders, TriggerUpdate(p), UNCHANGED cliVars
      PROVE  CommandOK(c)'
  BY <1>1, <1>2, CommandServed, CommandAside
<1>3. CASE OtherStep
  <2>1. CASE Run \/ Crash
    BY <1>1, <1>3, <2>1, CommandRun DEF OtherStep
  <2>2. CASE \E p \in Senders : TriggerUpdate(p)
    BY <1>2, <1>3, <2>2 DEF OtherStep
  <2>3. CASE HomeAssistant /\ UNCHANGED daemonVars
    BY <1>1, <1>3, <2>3, CommandHomeAssistant DEF OtherStep
  <2>4. CASE \/ SocketListener \/ ListenHTTP \/ Machine
             \/ \E d \in Clients : SocketHandler(d)
             \/ \E h \in Callers : PrePushReturns(h) \/ PowerOff(h) \/ PostShutdown(h)
    BY <1>1, <1>3, <2>4, CommandHandlers DEF OtherStep
  <2>5. CASE ServiceRemove
    <3>1. UNCHANGED <<msg, reply, tu, began, options, conn, menu, ha.seen, cli, found, started>>
      BY <1>3, <2>5, UnregisteredLemma
         DEF OtherStep, ServiceRemove, daemonVars, pushVars, listenVars, machineVars, cliVars, CliInv, CliTypeInv,
             TypeInv, TypeOK
    <3> QED  BY <1>1, <3>1, CliNumbers, CommandFrame DEF CliInv
  <2> QED  BY <1>3, <2>1, <2>2, <2>3, <2>4, <2>5 DEF OtherStep, DaemonStep, Environment
<1>4. CASE \E d \in Clients : Invoke(d) \/ ViaSocket(d) \/ Direct(d) \/ Done(d)
  BY <1>1, <1>4, OtherCommand, OwnCommand
<1>5. CASE UNCHANGED allVars
  <2>1. menu' >= menu /\ ha'.seen >= ha.seen
    BY <1>5, CliNumbers DEF CliInv, allVars, vars, webhookVars, daemonVars, machineVars
  <2> QED
    BY <1>1, <1>5, <2>1, CommandFrame
       DEF CliInv, allVars, cliVars, vars, webhookVars, daemonVars, pushVars, listenVars, machineVars
<1> QED  BY <1>1, <1>3, <1>4, <1>5 DEF CliNext

\* A command, whatever it does and whatever happens to the daemon it talks to,
\* keeps every variable in its range.
THEOREM CliTypeCorrect == CliSpec => []CliTypeOK
<1>1. CliInit => CliTypeInv
  BY CliInitInv DEF CliInv
<1>2. CliTypeInv => CliTypeOK
  BY DEF CliTypeInv, TypeInv, CliTypeOK
<1> QED  BY <1>1, <1>2, CliTypeStep, PTL DEF CliSpec

\* "Successfully pushed boot options to Home Assistant" is the truth over
\* either path, unless report_boot_options may tell the daemon to push nothing
\* (it then answers OK all the same).
THEOREM SuccessIsTrue == FALSE \notin Reports => (CliSpec => []PushedIsFresh)
<1> SUFFICES ASSUME FALSE \notin Reports PROVE CliSpec => []PushedIsFresh
  OBVIOUS
<1>1. CliInv => PushedIsFresh
  BY DEF CliInv, CommandOK, AlwaysOn, PushedIsFresh
<1> QED  BY <1>1, CliStep, CliInitInv, PTL DEF CliSpec

----------------------------------------------------------------------------
(* The daemon beside the commands *)

\* A command posts by itself, or comes back from that.
DirectStep(c) ==
    /\ cli[c] = "post" /\ UNCHANGED daemonVars
    /\ Post(c, UpdatePayload(found[c], "direct")) \/ PostSucceeds(c) \/ PostFails(c)

\* All else a command does is a step of the daemon's clients, or none that shows
\* outside of it.
LEMMA CliStepKinds ==
    ASSUME [CliNext]_allVars
    PROVE  [Next]_vars \/ \E c \in Clients : DirectStep(c)
<1>1. CASE OtherStep \/ UNCHANGED allVars
  BY <1>1 DEF OtherStep, Next, allVars
<1>2. ASSUME NEW c \in Clients, Invoke(c) \/ ViaSocket(c) \/ Direct(c) \/ Done(c)
      PROVE  [Next]_vars \/ DirectStep(c)
  <2>1. CASE Dial(c) \/ ReadResponse(c)
    BY <2>1 DEF Dial, ReadResponse, Next, ClientStep
  <2>2. CASE DirectPush(c) \/ DirectPushSucceeds(c) \/ DirectPushFails(c)
    BY <2>2 DEF DirectPush, DirectPushSucceeds, DirectPushFails, Move, DirectStep
  <2> QED
    BY <1>2, <2>1, <2>2
       DEF Invoke, ViaSocket, DialFails, Direct, GetBootOptions, GetBootOptionsFails, DirectPushNotSent, Done
<1> QED  BY <1>1, <1>2 DEF CliNext

\* The socket belongs to the daemon until the command has hung up.
LEMMA CommandApart ==
    ASSUME CliInv, PushInv, NEW c \in Clients
    PROVE  /\ AcceptPush(c) => ~Beside(c)
           /\ cli[c] = "post" => tu[c] = "idle" /\ (reply[c] # "none" => Beside(c))
<1>1. CommandOK(c) /\ PushOK(c) /\ c # Main
  BY ClientsSend DEF CliInv, PushInv
<1> QED  BY <1>1 DEF AcceptPush, CommandOK, PushOK, Beside

\* What a command posts by itself changes of the daemon's world: its own request.
LEMMA DirectLemma ==
    ASSUME CliInv, PushInv, NEW c \in Clients, DirectStep(c)
    PROVE  /\ TypeInv' /\ ha' = ha /\ c \in Senders /\ c # Main
           /\ \A p \in Senders \ {c} : reply'[p] = reply[p] /\ msg'[p] = msg[p]
           /\ reply'[c] = "none" \/ (reply'[c] = "pending" /\ msg'[c] = UpdatePayload(found[c], "direct"))
           /\ \A m \in late' : m \in late \/ (reply[c] = "pending" /\ m = msg[c])
<1>1. /\ WebhookTypeOK /\ c \in Senders /\ c # Main /\ msg \in [Senders -> Messages \cup {NoMsg}]
      /\ reply \in [Senders -> Replies] /\ found[c] \in Menus
  BY ClientsSend DEF CliInv, CliTypeInv, PushInv, TypeInv, TypeOK, WebhookTypeOK
<1>2. WebhookTypeOK' => TypeInv'
  BY DEF DirectStep, daemonVars, processVars, pushVars, listenVars, machineVars, PushInv, TypeInv, TypeOK
<1>3. CASE Post(c, UpdatePayload(found[c], "direct"))
  <2>1. UpdatePayload(found[c], "direct") \in Messages
    BY <1>1 DEF UpdatePayload, Messages, Update
  <2>2. WebhookTypeOK'
    BY <1>1, <1>3, <2>1, PostType
  <2> QED  BY <1>1, <1>2, <1>3, <2>2 DEF Post
<1>4. CASE PostSucceeds(c)
  BY <1>1, <1>2, <1>4, PostSucceedsLemma
<1>5. CASE PostFails(c)
  BY <1>1, <1>2, <1>5, PostFailsLemma
<1> QED  BY <1>3, <1>4, <1>5 DEF DirectStep

LEMMA DirectPushInv ==
    ASSUME CliInv, PushInv, NEW c \in Clients, DirectStep(c)
    PROVE  PushInv'
<1>1. UNCHANGED <<main, token, reporting, mu, tu, began, options, menu, ha>>
  BY DirectLemma DEF DirectStep, daemonVars, processVars, pushVars, machineVars
<1>2. MainInv'
  BY <1>1, DirectLemma, SendersAssumption DEF PushInv, MainInv
<1>3. ASSUME NEW p \in Senders, p # c PROVE PushOK(p)'
  BY <1>1, <1>3, DirectLemma DEF PushInv, PushOK, Beside
<1>4. PushOK(c)'
  <2>1. tu[c] = "idle" /\ PushOK(c) /\ found[c] \in Menus /\ found[c] <= menu /\ c \in Senders
    BY CommandApart, DirectLemma DEF DirectStep, CliInv, CliTypeInv, CommandOK, PushInv
  <2>2. CASE reply'[c] = "none"
    BY <1>1, <2>1, <2>2 DEF PushOK, Beside
  <2>3. CASE reply'[c] = "pending" /\ msg'[c] = UpdatePayload(found[c], "direct")
    <3>1. msg'[c] \in Update /\ msg'[c].via = "direct" /\ msg'[c].menu = found[c]
      BY <2>1, <2>3 DEF UpdatePayload, Update
    <3> QED  BY <1>1, <2>1, <2>3, <3>1 DEF PushOK, Beside
  <2> QED  BY <2>2, <2>3, DirectLemma
<1> QED  BY <1>1, <1>2, <1>3, <1>4, DirectLemma DEF PushInv

LEMMA DirectTokenInv ==
    ASSUME CliInv, TokenInv, NEW c \in Clients, DirectStep(c)
    PROVE  TokenInv'
<1>1. PushInv' /\ c \in Senders /\ c # Main
  BY DirectPushInv, ClientsSend DEF TokenInv
<1>2. UNCHANGED <<main, token, http, ha>> /\ reply'[Main] = reply[Main]
  BY DirectLemma, SendersAssumption DEF TokenInv, DirectStep, daemonVars, processVars, listenVars
<1>3. LateTokensOK'
  BY <1>1, DirectLemma, LateTokens DEF TokenInv
<1> QED  BY <1>1, <1>2, <1>3 DEF TokenInv, Registration

LEMMA DirectRefInv ==
    ASSUME CliInv, RefInv, NEW c \in Clients, DirectStep(c)
    PROVE  RefInv'
<1>1. PushInv' /\ PushInv /\ c \in Senders
  BY DirectPushInv, ClientsSend DEF RefInv
<1>2. menu' = menu
  BY DEF DirectStep, daemonVars, machineVars
<1>3. reply[c] # "none" => msg[c].menu <= menu
  BY <1>1, CommandApart, BesideClient DEF DirectStep
<1>4. LateInv'
  BY <1>1, <1>2, <1>3, DirectLemma DEF RefInv, LateInv
<1> QED  BY <1>1, <1>4 DEF RefInv

\* The commands and the daemon together.
BesideInv == CliInv /\ TokenInv /\ RefInv /\ Quiet /\ AttendedInv

LEMMA BesideInit == CliInit => BesideInv
BY CliInitInv, TokenInit, RefInit, QuietInit, AttendedInit DEF CliInit, BesideInv

LEMMA BesideStep == BesideInv /\ [CliNext]_allVars => BesideInv'
<1> SUFFICES ASSUME BesideInv, [CliNext]_allVars PROVE BesideInv'
  OBVIOUS
<1>1. CliInv'
  BY CliStep DEF BesideInv
<1>2. CASE [Next]_vars
  <2>1. PushInv'
    BY <1>2, PushStep, CommandApart DEF BesideInv, TokenInv
  <2>2. Quiet'
    BY <1>2, QuietStep DEF BesideInv, AttendedInv
  <2> QED  BY <1>1, <1>2, <2>1, <2>2, TokenStep, RefStep, AttendedStep DEF BesideInv
<1>3. ASSUME NEW c \in Clients, DirectStep(c) PROVE BesideInv'
  <2>1. SocketInv' /\ Waiting' /\ Quiet'
    BY <1>3 DEF BesideInv, AttendedInv, SocketInv, StaleSocketGone, Waiting, Quiet, DirectStep, daemonVars, processVars,
                pushVars, listenVars
  <2>2. AttendedInv'
    BY <1>3, <2>1, DirectLemma DEF BesideInv, AttendedInv, RefInv
  <2> QED  BY <1>1, <2>2, <1>3, <2>1, DirectTokenInv, DirectRefInv DEF BesideInv
<1> QED  BY <1>2, <1>3, CliStepKinds

\* Commands that push past the daemon, outside its mutex and whenever they like,
\* take nothing from what it guarantees: the token Home Assistant holds, what a
\* push reported as done means, a socket that can be reached, somebody to answer
\* whoever waits, the order of the daemon's own pushes, and its silence where
\* report_boot_options is off.
THEOREM DaemonUndisturbed ==
    CliSpec => [](TokenInSync /\ PushIsFresh /\ StaleSocketGone /\ Attended) /\ NoRegress /\ SilentWhenOff
<1>1. BesideInv => TokenInSync /\ PushIsFresh /\ StaleSocketGone
  BY TokenSafe DEF BesideInv, RefInv, PushInv, PushOK, PushIsFresh, AttendedInv, SocketInv
<1>2. BesideInv => Attended
  BY MutexIsHeld DEF BesideInv, RefInv, AttendedInv, Waiting, Attended
<1>3. BesideInv /\ [CliNext]_allVars =>
         [ha.menuBy = "daemon" /\ ha'.menuBy = "daemon" => ha'.menu >= ha.menu]_vars
  <2> SUFFICES ASSUME BesideInv, NEW c \in Clients, DirectStep(c) PROVE ha'.menu >= ha.menu
    BY CliStepKinds, NoRegressStep DEF BesideInv, RefInv
  <2> QED  BY DirectLemma, Numbers DEF BesideInv, RefInv, PushInv
<1>4. BesideInv /\ [CliNext]_allVars =>
         [~reporting => /\ \A m \in late' \ late : m \in Update => m.via # "daemon"
                        /\ ha'.menuBy = "daemon" => ha.menuBy = "daemon" /\ ha'.menu = ha.menu]_vars
  <2> SUFFICES ASSUME BesideInv, NEW c \in Clients, DirectStep(c)
               PROVE  /\ \A m \in late' \ late : m \in Update => m.via # "daemon"
                      /\ ha'.menuBy = "daemon" => ha.menuBy = "daemon" /\ ha'.menu = ha.menu
    BY CliStepKinds, OffStep DEF BesideInv, RefInv
  <2>1. reply[c] # "none" => Beside(c)
    BY CommandApart DEF DirectStep, BesideInv, RefInv
  <2> QED  BY <2>1, DirectLemma DEF BesideInv, RefInv, Beside
<1> QED  BY <1>1, <1>2, <1>3, <1>4, BesideInit, BesideStep, PTL DEF CliSpec, NoRegress, SilentWhenOff

\* A command that reads the socket without a deadline reads from a connection
\* that will be answered or closed.
THEOREM AnswerComes == CliSpec => []ReadIsAnswered
<1>1. BesideInv => ReadIsAnswered
  <2> SUFFICES ASSUME BesideInv, NEW c \in Clients, cli[c] = "wait"
               PROVE  \/ conn[c] = "sent" /\ lst = "up"
                      \/ conn[c] = "served" /\ tu[c] # "idle"
                      \/ conn[c] \in {"OK", "ERROR", "eof"}
    BY DEF ReadIsAnswered
  <2>1. conn[c] \in {"none", "sent", "served", "OK", "ERROR", "eof"} /\ conn[c] # "none"
    BY DEF BesideInv, CliInv, CliTypeInv, TypeInv, TypeOK, CommandOK
  <2> QED  BY <2>1 DEF BesideInv, AttendedInv, Waiting
<1> QED  BY <1>1, BesideInit, BesideStep, PTL DEF CliSpec

\* A daemon with any number of commands beside it is one of Report: their direct
\* pushes are its stray requests, and all else it does it still owes its callers.
THEOREM PromiseKeptBeside == CliSpec => KeepsPromise
<1>1. CliInit => R!Init
  BY ReportInit DEF CliInit
<1>2. BesideInv /\ [CliNext]_allVars => [R!Next]_R!vars
  <2> SUFFICES ASSUME BesideInv, [CliNext]_allVars PROVE [R!Next]_R!vars
    OBVIOUS
  <2>1. CASE [Next]_vars
    BY <2>1, ReportStep DEF BesideInv
  <2>2. ASSUME NEW c \in Clients, DirectStep(c) PROVE UNCHANGED R!vars
    BY <2>2, DirectLemma, Silent
       DEF BesideInv, RefInv, DirectStep, daemonVars, processVars, pushVars, machineVars, Answering
  <2> QED  BY <2>1, <2>2, CliStepKinds
<1> QED  BY <1>1, <1>2, BesideInit, BesideStep, PTL DEF CliSpec, KeepsPromise, R!Spec
=============================================================================
