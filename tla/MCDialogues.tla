----------------------------- MODULE MCDialogues -----------------------------
EXTENDS Dialogues, TLC
TapIds == Permutations(Taps)
=============================================================================
