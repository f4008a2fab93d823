---------------------------- MODULE MCRunFolders ----------------------------
EXTENDS RunFolders, TLC

CONSTANTS c1, c2

Interchangeable == Permutations(Cmds)
=============================================================================
