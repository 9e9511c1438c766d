---------------------------- MODULE MCMenuParser ----------------------------
EXTENDS MenuParser, TLC

CONSTANTS A, B
MCTitles == {A, B}
TitleSymmetry == Permutations(MCTitles)
=============================================================================
