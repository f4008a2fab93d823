--------------------------- MODULE MCRunEvidence ---------------------------
EXTENDS RunEvidence

TwoClocks == {1, 2}
=============================================================================
