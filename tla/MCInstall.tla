----------------------------- MODULE MCInstall -----------------------------
(* Two different scripts, so that an old one can be told from a new one.   *)
EXTENDS Install, TLC

CONSTANTS s1, s2
MCHooks == {s1, s2}
HookSymmetry == Permutations(MCHooks)
=============================================================================
