------------------------- MODULE MCExtensionListener -------------------------
EXTENDS ExtensionListener, TLC

\* Instances are interchangeable: they run the same binary with the same flags.
MCSymmetry == Permutations(Instances)
=============================================================================
