------------------------------ MODULE BootPush ------------------------------
(***************************************************************************)
(* `grubstation boot push` (internal/cli/boot_push.go and                  *)
(* RequestPushViaSocket of internal/daemon/daemon_unix.go), run by the     *)
(* members of Clients next to the daemon.                                  *)
(*                                                                         *)
(* The command asks the daemon over the socket; whatever goes wrong there  *)
(* (no daemon, an ERROR, a daemon that dies with the request) it falls     *)
(* back to reading GRUB and posting by itself, outside the daemon's mutex  *)
(* and whatever report_boot_options says.                                  *)
(***************************************************************************)
EXTENDS Daemon

VARIABLES
    cli,        \* cli[c]: where the command is, or how it ended
    found,      \* found[c]: the menu its own GetBootOptions returned
    started     \* history: the version of the menu when it was run

cliVars == <<cli, found, started>>
allVars == <<vars, cliVars>>

CliSteps == {"idle", "dial", "wait", "grub", "post", "pushed", "failed"}

CliTypeOK ==
    /\ TypeOK
    /\ cli \in [Clients -> CliSteps]
    /\ found \in [Clients -> Menus]
    /\ started \in [Clients -> Menus]

CliInit ==
    /\ Init
    /\ cli = [c \in Clients |-> "idle"]
    /\ found = [c \in Clients |-> 0]
    /\ started = [c \in Clients |-> 0]

Move(c, from, to) == cli[c] = from /\ cli' = [cli EXCEPT ![c] = to]

Invoke(c) ==
    /\ power = "on" /\ Move(c, "idle", "dial")
    /\ started' = [started EXCEPT ![c] = menu]
    /\ UNCHANGED <<vars, found>>

Dial(c) == Connect(c) /\ Move(c, "dial", "wait") /\ UNCHANGED <<found, started>>

\* No socket file, or nobody listening behind it.
DialFails(c) ==
    /\ sock # "live" /\ Move(c, "dial", "grub")
    /\ UNCHANGED <<vars, found, started>>

AnyAnswer(r) == r # "eof"           \* mutation: the text of the answer is not looked at

\* The answer is OK; any other, or the end of the connection, is an error.
DaemonPushed(r) == r = "OK"

ReadResponse(c) ==
    /\ HangUp(c)
    /\ Move(c, "wait", IF DaemonPushed(conn[c]) THEN "pushed" ELSE "grub")
    /\ UNCHANGED <<found, started>>

GetBootOptions(c) ==
    /\ Move(c, "grub", "post")
    /\ found' = [found EXCEPT ![c] = menu]
    /\ UNCHANGED <<vars, started>>

GetBootOptionsFails(c) == Move(c, "grub", "failed") /\ UNCHANGED <<vars, found, started>>

DirectPush(c) ==
    /\ cli[c] = "post"
    /\ Post(c, UpdatePayload(found[c], "direct"))
    /\ UNCHANGED <<daemonVars, cliVars>>

DirectPushNotSent(c) ==
    /\ reply[c] = "none" /\ Move(c, "post", "failed")
    /\ found' = [found EXCEPT ![c] = 0]
    /\ UNCHANGED <<vars, started>>

DirectPushSucceeds(c) ==
    /\ PostSucceeds(c) /\ Move(c, "post", "pushed")
    /\ found' = [found EXCEPT ![c] = 0]
    /\ UNCHANGED <<daemonVars, started>>

DirectPushFails(c) ==
    /\ PostFails(c) /\ Move(c, "post", "failed")
    /\ found' = [found EXCEPT ![c] = 0]
    /\ UNCHANGED <<daemonVars, started>>

\* The exit of the command.
Done(c) ==
    /\ cli[c] \in {"pushed", "failed"}
    /\ cli' = [cli EXCEPT ![c] = "idle"]
    /\ started' = [started EXCEPT ![c] = 0]
    /\ UNCHANGED <<vars, found>>

ViaSocket(c) == Dial(c) \/ DialFails(c) \/ ReadResponse(c)
Direct(c) ==
    \/ GetBootOptions(c) \/ GetBootOptionsFails(c)
    \/ DirectPush(c) \/ DirectPushNotSent(c) \/ DirectPushSucceeds(c) \/ DirectPushFails(c)

\* The machine goes down after the commands that run on it.
OtherStep ==
    /\ DaemonStep \/ Environment \/ Crash
    /\ power' = "off" => \A c \in Clients : cli[c] = "idle"
    /\ UNCHANGED cliVars

CliNext == OtherStep \/ \E c \in Clients : Invoke(c) \/ ViaSocket(c) \/ Direct(c) \/ Done(c)

CliSpec == CliInit /\ [][CliNext]_allVars

\* The command runs; the daemon's own fairness is that of Daemon, taken over
\* the variables of both.
CliFairSpec ==
    /\ CliSpec
    /\ \A c \in Clients : WF_allVars(ViaSocket(c)) /\ WF_allVars(Direct(c))
    /\ \A p \in Senders :
          /\ SF_allVars(Lock(p) /\ UNCHANGED cliVars)
          /\ WF_allVars((TriggerUpdate(p) /\ ~Lock(p)) /\ UNCHANGED cliVars)
    /\ WF_allVars(SocketListener /\ UNCHANGED cliVars)
    /\ \A c \in Clients : WF_allVars(SocketHandler(c) /\ UNCHANGED cliVars)

----------------------------------------------------------------------------
(* Properties *)

\* "Successfully pushed boot options to Home Assistant" (boot_push.go) is the
\* truth: a menu no older than the one on disk when the command was run is or
\* has been stored, over either path.
PushedIsFresh == \A c \in Clients : cli[c] = "pushed" => ha.seen >= started[c]

\* The command reads the socket without a deadline, but never from a connection
\* nobody will answer or close: it waits in the backlog of a listener that
\* accepts, or for a handler that is in TriggerUpdate, or has its answer.
ReadIsAnswered ==
    \A c \in Clients : cli[c] = "wait" =>
        \/ conn[c] = "sent" /\ lst = "up"
        \/ conn[c] = "served" /\ tu[c] # "idle"
        \/ conn[c] \in {"OK", "ERROR", "eof"}

\* The command always comes back, although its read of the socket has no
\* deadline: a daemon answers or dies.
PushReturns == \A c \in Clients : cli[c] = "dial" ~> cli[c] \in {"pushed", "failed"}
=============================================================================
