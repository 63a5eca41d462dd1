---------------------------- MODULE MCNamespace ----------------------------
\* Namespace for TLC: all entries but the root are alike, and so are names.
EXTENDS Namespace, TLC

Symm == Permutations(Entries \ {Root}) \cup Permutations(Names)
=============================================================================
