------------------------------- MODULE Report -------------------------------
(***************************************************************************)
(* What the daemon promises whoever asks it to report the boot menu, with  *)
(* no word of goroutines, mutexes, requests or processes: TriggerUpdate    *)
(* seen from its callers and from Home Assistant.                          *)
(***************************************************************************)
EXTENDS Naturals

CONSTANTS
    Askers,     \* who may ask for a report
    MaxMenu     \* bound: versions of the menu

VARIABLES
    disk,       \* the version of the menu on disk
    status,     \* status[p]: nothing asked, waiting, or the answer
    asked,      \* asked[p]: the version on disk when p asked
    stored,     \* the version Home Assistant holds
    ordered,    \* the daemon stored it, and not a stray request
    newest,     \* the newest version Home Assistant was ever told
    reporting   \* the menu is to be reported at all

vars == <<disk, status, asked, stored, ordered, newest, reporting>>

Versions == 0..MaxMenu
Statuses == {"idle", "waiting", "ok", "error"}

Init ==
    /\ disk \in Versions \ {0}
    /\ status = [p \in Askers |-> "idle"] /\ asked = [p \in Askers |-> 0]
    /\ stored = 0 /\ ordered = FALSE /\ newest = 0
    /\ reporting \in BOOLEAN

Change ==
    /\ disk' \in Versions /\ disk' > disk
    /\ UNCHANGED <<status, asked, stored, ordered, newest, reporting>>

Ask(p) ==
    /\ status[p] = "idle"
    /\ status' = [status EXCEPT ![p] = "waiting"]
    /\ asked' = [asked EXCEPT ![p] = disk]
    /\ UNCHANGED <<disk, stored, ordered, newest, reporting>>

Stored(v) ==
    /\ stored' = v /\ newest' = IF v > newest THEN v ELSE newest
    /\ UNCHANGED <<disk, status, asked, reporting>>

\* A menu is stored because someone waits for it.  It is no older than that
\* one's question, and than the last menu that was stored for a question.
StoreFor(p) == \E v \in Versions :
    /\ status[p] = "waiting" /\ reporting /\ asked[p] <= v /\ v <= disk
    /\ ordered => stored <= v
    /\ Stored(v) /\ ordered' = TRUE

\* A request whose sender gave it up, or that went past the daemon.
Stray == \E v \in Versions : v <= disk /\ Stored(v) /\ ordered' = FALSE

\* A success is claimed only of what Home Assistant was told.
Succeed(p) ==
    /\ status[p] = "waiting" /\ (reporting => newest >= asked[p])
    /\ status' = [status EXCEPT ![p] = "ok"]
    /\ UNCHANGED <<disk, asked, stored, ordered, newest, reporting>>

Fail(p) ==
    /\ status[p] = "waiting"
    /\ status' = [status EXCEPT ![p] = "error"]
    /\ UNCHANGED <<disk, asked, stored, ordered, newest, reporting>>

Take(p) ==
    /\ status[p] \in {"ok", "error"}
    /\ status' = [status EXCEPT ![p] = "idle"] /\ asked' = [asked EXCEPT ![p] = 0]
    /\ UNCHANGED <<disk, stored, ordered, newest, reporting>>

\* The process is gone, and every question with it.
Forget ==
    /\ status' = [p \in Askers |-> "idle"] /\ asked' = [p \in Askers |-> 0]
    /\ UNCHANGED <<disk, stored, ordered, newest, reporting>>

\* The setting changes only while nobody waits.
Configure ==
    /\ \A p \in Askers : status[p] = "idle"
    /\ reporting' \in BOOLEAN
    /\ UNCHANGED <<disk, status, asked, stored, ordered, newest>>

Next ==
    \/ Change \/ Stray \/ Forget \/ Configure
    \/ \E p \in Askers : Ask(p) \/ StoreFor(p) \/ Succeed(p) \/ Fail(p) \/ Take(p)

Spec == Init /\ [][Next]_vars
=============================================================================
