------------------------------ MODULE MCDaemon ------------------------------
(* The daemon with one socket client and one caller of POST /shutdown.     *)
EXTENDS Daemon, TLC

CONSTANTS c1, h1, t1, t2

MCClients == {c1}
MCCallers == {h1}
MCSenders == {Main} \cup MCClients \cup MCCallers
MCTokens == {t1, t2}
MCOneToken == {t1}
TokenSymmetry == Permutations(MCTokens)
=============================================================================
