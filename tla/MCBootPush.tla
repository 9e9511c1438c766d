----------------------------- MODULE MCBootPush -----------------------------
(* A push command next to the daemon, without callers of POST /shutdown.   *)
EXTENDS BootPush, TLC

CONSTANTS c1, t1

OneClient == {c1}
NoCallers == {}
OneClientSenders == {Main} \cup OneClient
OneToken == {t1}
=============================================================================
